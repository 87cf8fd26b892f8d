---------------------------- MODULE Transform_proofs ----------------------------
(***************************************************************************)
(* What jpegtran guarantees for pictures of any size and any sampling, any *)
(* size of blocks, and any switches.                                       *)
(***************************************************************************)
EXTENDS Transform, SequenceTheorems, WellFoundedInduction, TLAPS

-----------------------------------------------------------------------------
(* Division *)

LEMMA Products ==
  ASSUME NEW a \in Int, NEW b \in Int, NEW c \in Nat, a <= b
  PROVE  a * c <= b * c /\ c * a <= c * b
OBVIOUS

LEMMA LeastFactor ==
  ASSUME NEW a \in Int, NEW b \in Int, NEW c \in Nat \ {0}, a * c < b * c
  PROVE  a < b
<1>1. SUFFICES ASSUME b <= a PROVE FALSE
  OBVIOUS
<1>2. QED
  BY <1>1, Products

\* Quotient and remainder are the only numbers that make up a number.
LEMMA Divided ==
  ASSUME NEW n \in Int, NEW b \in Nat \ {0}
  PROVE  /\ n \div b \in Int /\ n % b \in 0 .. b - 1
         /\ n = (n \div b) * b + (n % b)
OBVIOUS

LEMMA DividedBy ==
  ASSUME NEW b \in Nat \ {0}, NEW q \in Int, NEW r \in 0 .. b - 1
  PROVE  (q * b + r) \div b = q /\ (q * b + r) % b = r
<1> DEFINE n == q * b + r
           k == n \div b
           m == n % b
<1>1. n \in Int /\ k \in Int /\ m \in 0 .. b - 1 /\ n = k * b + m
  <2>1. n \in Int
    OBVIOUS
  <2> HIDE DEF n
  <2>2. QED
    BY <2>1, Divided
<1>2. n < q * b + b /\ q * b <= n /\ k * b <= n /\ n < k * b + b /\ q * b \in Int /\ k * b \in Int
  <2> HIDE DEF k, m
  <2>1. QED
    BY <1>1
<1> HIDE DEF k, n, m
<1>3. CASE k < q
  <2>1. (k + 1) * b <= q * b
    BY <1>1, <1>3, Products
  <2>2. QED
    BY <1>1, <1>2, <2>1
<1>4. CASE q < k
  <2>1. (q + 1) * b <= k * b
    BY <1>1, <1>4, Products
  <2>2. QED
    BY <1>1, <1>2, <2>1
<1>5. CASE k = q
  BY <1>1, <1>5 DEF k, m, n
<1>6. QED
  BY <1>1, <1>3, <1>4, <1>5

\* The quotient rounded up is the least number of parts that hold all.
LEMMA CeilBounds ==
  ASSUME NEW a \in Nat, NEW b \in Nat \ {0}
  PROVE  /\ Ceil(a, b) \in Nat
         /\ \A k \in Int : k < Ceil(a, b) <=> k * b < a
<1> DEFINE q == (a + b - 1) \div b
<1>1. q \in Int /\ q * b <= a + b - 1 /\ a + b - 1 < q * b + b
  OBVIOUS
<1>2. q \in Nat
  OBVIOUS
<1>3. ASSUME NEW k \in Int PROVE k < q <=> k * b < a
  <2> HIDE DEF q
  <2>1. CASE k < q
    <3>1. (k + 1) * b <= q * b
      BY <1>1, <2>1, Products
    <3>2. k * b + b <= q * b
      BY <1>1, <3>1
    <3>3. QED
      BY <1>1, <2>1, <3>2
  <2>2. CASE q <= k
    <3>1. q * b <= k * b
      BY <1>1, <2>2, Products
    <3>2. QED
      BY <1>1, <2>2, <3>1
  <2>3. QED
    BY <1>1, <2>1, <2>2
<1>4. QED
  BY <1>2, <1>3 DEF Ceil

\* Leaving out a common factor changes no quotient.
LEMMA CommonFactor ==
  ASSUME NEW a \in Nat, NEW b \in Nat \ {0}, NEW f \in Nat \ {0}
  PROVE  Ceil(a * f, f * b) = Ceil(a, b)
<1>1. a * f \in Nat /\ f * b \in Nat \ {0}
  OBVIOUS
<1>2. Ceil(a, b) \in Nat /\ \A k \in Int : k < Ceil(a, b) <=> k * b < a
  BY CeilBounds
<1>3. Ceil(a * f, f * b) \in Nat /\ \A k \in Int : k < Ceil(a * f, f * b) <=> k * (f * b) < a * f
  BY <1>1, CeilBounds
<1>4. ASSUME NEW k \in Int PROVE k * (f * b) < a * f <=> k * b < a
  <2>1. k * (f * b) = (k * b) * f
    OBVIOUS
  <2>2. k * b < a => (k * b) * f < a * f
    <3>1. SUFFICES ASSUME k * b < a PROVE (k * b) * f < a * f
      OBVIOUS
    <3>2. (k * b + 1) * f <= a * f
      BY <3>1, Products
    <3>3. QED
      BY <3>2
  <2>3. (k * b) * f < a * f => k * b < a
    BY LeastFactor
  <2>4. QED
    BY <2>1, <2>2, <2>3
<1>5. \A k \in Int : k < Ceil(a, b) <=> k < Ceil(a * f, f * b)
  BY <1>2, <1>3, <1>4
<1>6. QED
  BY <1>2, <1>3, <1>5

\* What is rounded up holds all, and whole parts only.
LEMMA RoundedUp ==
  ASSUME NEW n \in Nat, NEW f \in Nat \ {0}
  PROVE  /\ RoundUp(n, f) \in Nat /\ n <= RoundUp(n, f)
         /\ \A k \in Int : k < RoundUp(n, f) <=> (k \div f) * f < n
<1>1. Ceil(n, f) \in Nat /\ \A k \in Int : k < Ceil(n, f) <=> k * f < n
  BY CeilBounds
<1> DEFINE q == Ceil(n, f)
<1>2. q * f \in Nat
  BY <1>1
<1>3. n <= q * f
  <2>1. ~(q < q)
    BY <1>1
  <2>2. ~(q * f < n)
    BY <1>1, <2>1
  <2>3. QED
    BY <1>2, <2>2
<1>4. ASSUME NEW k \in Int PROVE k < q * f <=> (k \div f) * f < n
  <2> DEFINE g == k \div f
  <2>1. g \in Int /\ k % f \in 0 .. f - 1 /\ k = g * f + (k % f)
    BY Divided
  <2>2. g < q <=> g * f < n
    BY <1>1, <2>1
  <2> HIDE DEF q, g
  <2>3. CASE g < q
    <3>1. (g + 1) * f <= q * f
      BY <1>1, <2>1, <2>3, Products DEF q
    <3>2. g * f + f <= q * f
      BY <2>1, <3>1
    <3>3. QED
      BY <1>2, <2>1, <2>2, <2>3, <3>2 DEF g
  <2>4. CASE q <= g
    <3>1. q * f <= g * f
      BY <1>1, <2>1, <2>4, Products DEF q
    <3>2. QED
      BY <1>1, <1>2, <2>1, <2>2, <2>4, <3>1 DEF g, q
  <2>5. QED
    BY <1>1, <2>1, <2>3, <2>4 DEF q
<1>5. QED
  BY <1>2, <1>3, <1>4 DEF RoundUp

-----------------------------------------------------------------------------
(***************************************************************************)
(* One axis of the destination.  Before cropping it has full samples; an   *)
(* iMCU is imcu samples and, of the component looked at, f blocks.  The    *)
(* crop area begins at iMCU at and has extent samples.                     *)
(***************************************************************************)
Fits(full, extent, at, imcu, f) ==
  /\ full \in Nat \ {0} /\ extent \in Nat \ {0} /\ at \in Nat
  /\ imcu \in Nat \ {0} /\ f \in Nat \ {0}
  /\ at * imcu + extent <= full

\* Blocks before cropping and after it, and those that are mirrored.
All(full, imcu, f) == Ceil(full * f, imcu)
Kept(extent, imcu, f) == Ceil(extent * f, imcu)
Whole(full, imcu, f) == (full \div imcu) * f

LEMMA Blocks ==
  ASSUME NEW n \in Nat, NEW imcu \in Nat \ {0}, NEW f \in Nat \ {0}
  PROVE  /\ Ceil(n * f, imcu) \in Nat /\ RoundUp(Ceil(n * f, imcu), f) \in Nat
         /\ Ceil(n * f, imcu) <= RoundUp(Ceil(n * f, imcu), f)
         /\ \A k \in Int : k < Ceil(n * f, imcu) <=> k * imcu < n * f
         /\ \A k \in Int : k < RoundUp(Ceil(n * f, imcu), f) <=> (k \div f) * imcu < n
<1>1. n * f \in Nat
  OBVIOUS
<1>2. /\ Ceil(n * f, imcu) \in Nat
      /\ \A k \in Int : k < Ceil(n * f, imcu) <=> k * imcu < n * f
  BY <1>1, CeilBounds
<1> DEFINE N == Ceil(n * f, imcu)
<1>3. /\ RoundUp(N, f) \in Nat /\ N <= RoundUp(N, f)
      /\ \A k \in Int : k < RoundUp(N, f) <=> (k \div f) * f < N
  <2> HIDE DEF N
  <2>1. N \in Nat
    BY <1>2 DEF N
  <2>2. QED
    BY <2>1, RoundedUp
<1>4. ASSUME NEW k \in Int PROVE k < RoundUp(N, f) <=> (k \div f) * imcu < n
  <2> DEFINE g == k \div f
  <2>1. g \in Int
    BY Divided
  <2>2. k < RoundUp(N, f) <=> g * f < N
    BY <1>3
  <2> HIDE DEF g
  <2>3. g * f \in Int
    BY <2>1
  <2>4. g * f < N <=> (g * f) * imcu < n * f
    BY <1>2, <2>3
  <2>5. (g * f) * imcu = (g * imcu) * f /\ g * imcu \in Int
    BY <2>1
  <2>6. (g * imcu) * f < n * f => g * imcu < n
    BY <2>5, LeastFactor
  <2>7. ASSUME g * imcu < n PROVE (g * imcu) * f < n * f
    <3>1. (g * imcu + 1) * f <= n * f
      BY <2>5, <2>7, Products
    <3>2. QED
      BY <2>5, <3>1
  <2>8. QED
    BY <2>2, <2>4, <2>5, <2>6, <2>7 DEF g
<1>5. QED
  BY <1>2, <1>3, <1>4

\* Blocks of the crop area are blocks of the picture, and its iMCUs are the picture's.
LEMMA AreaInside ==
  ASSUME NEW full, NEW extent, NEW at, NEW imcu, NEW f, Fits(full, extent, at, imcu, f),
         NEW k \in Nat
  PROVE  /\ k < Kept(extent, imcu, f) => at * f + k < All(full, imcu, f)
         /\ k < RoundUp(Kept(extent, imcu, f), f) => at * f + k < RoundUp(All(full, imcu, f), f)
<1>1. /\ full \in Nat /\ extent \in Nat /\ at \in Nat /\ imcu \in Nat \ {0} /\ f \in Nat \ {0}
      /\ at * imcu + extent <= full /\ at * f \in Nat
      /\ k \in Int /\ at * f + k \in Nat /\ at * f + k \in Int
  BY DEF Fits
<1>2. ASSUME k < Kept(extent, imcu, f) PROVE at * f + k < All(full, imcu, f)
  <2>1. k * imcu < extent * f
    BY <1>1, <1>2, Blocks DEF Kept
  <2>2. (at * imcu + extent) * f <= full * f
    BY <1>1, Products
  <2>3. (at * f + k) * imcu < full * f
    BY <1>1, <2>1, <2>2
  <2>4. QED
    BY <1>1, <2>3, Blocks DEF All
<1> DEFINE g == k \div f
           r == k % f
<1>3. g \in Int /\ r \in 0 .. f - 1 /\ k = g * f + r
  BY <1>1, Divided DEF Fits
<1> HIDE DEF g, r
<1>4. at * f + k = (at + g) * f + r
  BY <1>1, <1>3
<1>5. (at * f + k) \div f = at + g
  BY <1>1, <1>3, <1>4, DividedBy DEF Fits
<1>6. ASSUME k < RoundUp(Kept(extent, imcu, f), f)
      PROVE  at * f + k < RoundUp(All(full, imcu, f), f)
  <2>1. g * imcu < extent
    BY <1>1, <1>6, Blocks, Zenon DEF Kept, g
  <2>2. (at + g) * imcu < full
    BY <1>1, <1>3, <2>1
  <2>3. QED
    BY <1>1, <1>5, <2>2, Blocks, Zenon DEF All
<1>7. QED
  BY <1>2, <1>6

\* The blocks of whole iMCUs are blocks of the picture; a mirrored block is among them.
LEMMA OppositeInside ==
  ASSUME NEW full, NEW extent, NEW at, NEW imcu, NEW f, Fits(full, extent, at, imcu, f),
         NEW k \in Nat, NEW mirrored \in BOOLEAN
  PROVE  /\ Whole(full, imcu, f) \in Nat /\ Whole(full, imcu, f) <= All(full, imcu, f)
         /\ k < Kept(extent, imcu, f) =>
              Opposite(at * f + k, Whole(full, imcu, f), mirrored) \in 0 .. All(full, imcu, f) - 1
         /\ k < RoundUp(Kept(extent, imcu, f), f) =>
              Opposite(at * f + k, Whole(full, imcu, f), mirrored)
                \in 0 .. RoundUp(All(full, imcu, f), f) - 1
<1> DEFINE q == full \div imcu
           S == All(full, imcu, f)
           n == Whole(full, imcu, f)
<1>1. q \in Nat /\ q * imcu <= full
  BY DEF Fits
<1>2. S \in Nat /\ RoundUp(S, f) \in Nat /\ S <= RoundUp(S, f)
  BY Blocks DEF Fits, All
<1>3. n \in Nat /\ n = q * f
  <2> HIDE DEF q
  <2>1. n = q * f
    BY DEF Whole, q
  <2>2. QED
    BY <1>1, <2>1 DEF Fits
<1>4. n <= S
  <2>1. (q * imcu) * f <= full * f
    <3> HIDE DEF q
    <3>1. q * imcu \in Int
      BY <1>1 DEF Fits
    <3>2. QED
      BY <1>1, <3>1, Products DEF Fits
  <2>2. ~(n * imcu < n * imcu)
    BY <1>3 DEF Fits
  <2>3. ~(full * f < n * imcu)
    <3> HIDE DEF q, n
    <3>1. n * imcu = (q * imcu) * f
      BY <1>1, <1>3 DEF Fits
    <3>2. n * imcu \in Int /\ full * f \in Int
      BY <1>3 DEF Fits
    <3>3. QED
      BY <2>1, <3>1, <3>2
  <2>4. ~(n - 1 >= S)
    <3> HIDE DEF q, n
    <3>1. SUFFICES ASSUME n > 0 PROVE n - 1 < S
      BY <1>2, <1>3
    <3>2. (n - 1) * imcu < n * imcu
      BY <1>3 DEF Fits
    <3>3. (n - 1) * imcu < full * f
      <4>1. n * imcu \in Int /\ full * f \in Int /\ (n - 1) * imcu \in Int
        BY <1>3 DEF Fits
      <4>2. QED
        BY <2>3, <3>2, <4>1
    <3>4. QED
      BY <1>3, <3>3, Blocks DEF Fits, All
  <2>5. QED
    BY <1>2, <1>3, <2>4
<1>5. at * f + k \in Nat
  BY DEF Fits
<1> HIDE DEF S, n
<1>6. ASSUME k < Kept(extent, imcu, f) PROVE Opposite(at * f + k, n, mirrored) \in 0 .. S - 1
  <2>1. at * f + k < S
    BY <1>6, AreaInside DEF S
  <2>2. QED
    BY <1>2, <1>3, <1>4, <1>5, <2>1 DEF Opposite
<1>7. ASSUME k < RoundUp(Kept(extent, imcu, f), f)
      PROVE  Opposite(at * f + k, n, mirrored) \in 0 .. RoundUp(S, f) - 1
  <2>1. at * f + k < RoundUp(S, f)
    BY <1>7, AreaInside DEF S
  <2>2. QED
    BY <1>2, <1>3, <1>4, <1>5, <2>1 DEF Opposite
<1>8. QED
  BY <1>3, <1>4, <1>6, <1>7 DEF S, n

\* Counted from the other end of the n blocks of whole iMCUs, if it is one of them.
FromEnd(k, n) == IF k < n THEN n - 1 - k ELSE k

\* The code's way of counting from the other end, block by block or in groups of f.
LEMMA MirrorIsOpposite ==
  ASSUME NEW full, NEW extent, NEW at, NEW imcu, NEW f, Fits(full, extent, at, imcu, f),
         NEW k \in Nat, NEW step, step = 1 \/ step = f
  PROVE  /\ Mirrorable(Whole(full, imcu, f), at * f, step, k) <=> at * f + k < Whole(full, imcu, f)
         /\ Mirror(Whole(full, imcu, f), at * f, step, k)
              = FromEnd(at * f + k, Whole(full, imcu, f))
<1> DEFINE q == full \div imcu
           n == Whole(full, imcu, f)
<1>1. q \in Nat /\ n = q * f
  BY DEF Fits, Whole
<1> HIDE DEF q, n
<1>2. n \in Nat /\ at * f \in Nat
  BY <1>1 DEF Fits
<1>3. Mirrorable(n, at * f, step, k) <=> at * f + k < n
  <2>1. CASE step = 1
    BY <1>2, <2>1 DEF Mirrorable, Group
  <2>2. CASE step = f
    <3> DEFINE g == k \div f
               r == k % f
    <3>1. g \in Int /\ r \in 0 .. f - 1 /\ k = g * f + r
      BY Divided DEF Fits
    <3>2. Group(k, f) = k - r
      BY DEF Group
    <3> HIDE DEF g, r
    <3>3. at * f + Group(k, f) = (at + g) * f /\ g * f \in Int /\ (at + g) * f \in Int
      BY <3>1, <3>2 DEF Fits
    <3>4. CASE at + g < q
      <4>1. (at + g + 1) * f <= q * f
        BY <1>1, <3>1, <3>4, Products DEF Fits
      <4>2. (at + g) * f + f <= n
        BY <1>1, <3>1, <4>1 DEF Fits
      <4>3. at * f + k = (at + g) * f + r
        BY <3>1 DEF Fits
      <4>4. QED
        BY <1>2, <2>2, <3>1, <3>3, <4>2, <4>3 DEF Mirrorable, Fits
    <3>5. CASE q <= at + g
      <4>1. q * f <= (at + g) * f
        BY <1>1, <3>1, <3>5, Products DEF Fits
      <4>2. n <= (at + g) * f
        BY <1>1, <4>1
      <4>3. at * f + k = (at + g) * f + r
        BY <3>1 DEF Fits
      <4>4. QED
        BY <1>2, <2>2, <3>1, <3>3, <4>2, <4>3 DEF Mirrorable, Fits
    <3>6. QED
      BY <1>1, <3>1, <3>4, <3>5 DEF Fits
  <2>3. QED
    BY <2>1, <2>2
<1>4. Mirror(n, at * f, step, k) = FromEnd(at * f + k, n)
  <2>1. n - at * f - k - 1 = n - 1 - (at * f + k)
    BY <1>2
  <2>2. QED
    BY <1>3, <2>1 DEF Mirror, FromEnd
<1>5. QED
  BY <1>3, <1>4 DEF n

\* A workspace of whole iMCUs has room for every group of blocks that is written.
LEMMA WorkspaceHolds ==
  ASSUME NEW extent \in Nat, NEW imcu \in Nat \ {0}, NEW f \in Nat \ {0}, NEW k \in Nat
  PROVE  k < RoundUp(Kept(extent, imcu, f), f) => k < Ceil(extent, imcu) * f
<1> DEFINE g == k \div f
           r == k % f
           N == Ceil(extent, imcu)
<1>1. g \in Int /\ r \in 0 .. f - 1 /\ k = g * f + r
  BY Divided
<1>2. N \in Nat /\ \A j \in Int : j < N <=> j * imcu < extent
  BY CeilBounds
<1>3. k < RoundUp(Kept(extent, imcu, f), f) <=> g * imcu < extent
  <2>1. k \in Int
    OBVIOUS
  <2>2. QED
    BY <2>1, Blocks, Zenon DEF Kept
<1> HIDE DEF g, r, N
<1>4. ASSUME g * imcu < extent PROVE k < N * f
  <2>1. g < N
    BY <1>1, <1>2, <1>4
  <2>2. (g + 1) * f <= N * f
    BY <1>1, <1>2, <2>1, Products
  <2>3. QED
    BY <1>1, <1>2, <2>2
<1>5. QED
  BY <1>3, <1>4 DEF N


-----------------------------------------------------------------------------
(* Headers and switches *)

Factors == [h : 1 .. 4, v : 1 .. 4]

IsHeader(p) ==
  /\ p.width \in Nat \ {0} /\ p.height \in Nat \ {0}
  /\ p.comps \in Seq(Factors) /\ p.comps # <<>>
  /\ p.space = "gray" <=> Len(p.comps) = 1

IsSwitches(o) ==
  /\ o.transform \in Transforms
  /\ o.trim \in BOOLEAN /\ o.perfect \in BOOLEAN /\ o.gray \in BOOLEAN /\ o.crop.on \in BOOLEAN
  /\ o.crop.width \in Nat \cup {Unset} /\ o.crop.height \in Nat \cup {Unset}
  /\ o.crop.x \in Nat /\ o.crop.y \in Nat

\* The request is granted, and the destination can have the header it asks for.
Granted(p, o) ==
  /\ o.perfect => PerfectTransform(p, o)
  /\ CropValid(o, Frame(p, o))
  /\ o.gray => CanBeGray(p)

\* d is the header of the destination.
HeaderOf(d, p, o) ==
  /\ d.width = InfoOf(p, o).width /\ d.height = InfoOf(p, o).height
  /\ d.comps = DstComps(p, o, InfoOf(p, o))

LEMMA GreatestFactor ==
  ASSUME NEW S \in SUBSET (1 .. 4), S # {}
  PROVE  Max(S) \in S /\ \A x \in S : x <= Max(S)
<1>1. \E x \in S : \A y \in S : x >= y
  <2>1. CASE 4 \in S
    BY <2>1
  <2>2. CASE 4 \notin S /\ 3 \in S
    BY <2>2
  <2>3. CASE 4 \notin S /\ 3 \notin S /\ 2 \in S
    BY <2>3
  <2>4. CASE 4 \notin S /\ 3 \notin S /\ 2 \notin S
    <3>1. PICK x \in S : TRUE
      OBVIOUS
    <3>2. \A y \in S : y = 1
      BY <2>4
    <3>3. QED
      BY <3>1, <3>2
  <2>5. QED
    BY <2>1, <2>2, <2>3, <2>4
<1>2. QED
  BY <1>1 DEF Max

\* Every picture has a first component, and its greatest factors are factors.
LEMMA Sampling ==
  ASSUME NEW p, p.comps \in Seq(Factors), p.comps # <<>>
  PROVE  /\ DOMAIN p.comps = 1 .. Len(p.comps) /\ Len(p.comps) \in Nat \ {0} /\ 1 \in DOMAIN p.comps
         /\ \A c \in DOMAIN p.comps : p.comps[c].h \in 1 .. 4 /\ p.comps[c].v \in 1 .. 4
         /\ MaxH(p) \in 1 .. 4 /\ MaxV(p) \in 1 .. 4
         /\ Len(p.comps) = 1 => MaxH(p) = p.comps[1].h /\ MaxV(p) = p.comps[1].v
<1>1. DOMAIN p.comps = 1 .. Len(p.comps) /\ Len(p.comps) \in Nat \ {0} /\ 1 \in DOMAIN p.comps
  BY EmptySeq
<1>2. \A c \in DOMAIN p.comps : p.comps[c] \in Factors
  BY <1>1, ElementOfSeq
<1>3. \A c \in DOMAIN p.comps : p.comps[c].h \in 1 .. 4 /\ p.comps[c].v \in 1 .. 4
  BY <1>2 DEF Factors
<1> DEFINE Hs == {p.comps[c].h : c \in DOMAIN p.comps}
           Vs == {p.comps[c].v : c \in DOMAIN p.comps}
<1>4. Hs \in SUBSET (1 .. 4) /\ Hs # {} /\ Vs \in SUBSET (1 .. 4) /\ Vs # {}
  BY <1>1, <1>3
<1>5. Max(Hs) \in Hs /\ Max(Vs) \in Vs
  <2> HIDE DEF Hs, Vs
  <2>1. QED
    BY <1>4, GreatestFactor
<1>6. MaxH(p) \in Hs /\ MaxV(p) \in Vs
  BY <1>5 DEF MaxH, MaxV
<1>7. Len(p.comps) = 1 => \A c \in DOMAIN p.comps : c = 1
  BY <1>1
<1>8. QED
  BY <1>1, <1>3, <1>4, <1>6, <1>7

TurnedComps(s) == [c \in DOMAIN s |-> [h |-> s[c].v, v |-> s[c].h]]

\* Transposing a picture exchanges its factors.
LEMMA TurnedFactors ==
  ASSUME NEW p, NEW d, p.comps \in Seq(Factors), p.comps # <<>>,
         d.comps = TurnedComps(p.comps)
  PROVE  /\ MaxH(d) = MaxV(p) /\ MaxV(d) = MaxH(p) /\ DOMAIN d.comps = DOMAIN p.comps
         /\ d.comps \in Seq(Factors) /\ d.comps # <<>> /\ Len(d.comps) = Len(p.comps)
         /\ \A c \in DOMAIN d.comps : d.comps[c].h = p.comps[c].v /\ d.comps[c].v = p.comps[c].h
<1>1. /\ DOMAIN p.comps = 1 .. Len(p.comps) /\ Len(p.comps) \in Nat \ {0}
      /\ \A c \in DOMAIN p.comps : p.comps[c].h \in 1 .. 4 /\ p.comps[c].v \in 1 .. 4
  BY Sampling
<1>2. DOMAIN d.comps = DOMAIN p.comps
  BY DEF TurnedComps
<1>3. \A c \in DOMAIN d.comps : d.comps[c].h = p.comps[c].v /\ d.comps[c].v = p.comps[c].h
  BY DEF TurnedComps
<1>4. MaxH(d) = MaxV(p) /\ MaxV(d) = MaxH(p)
  <2> DEFINE D == DOMAIN p.comps
             dh(c) == d.comps[c].h
             dv(c) == d.comps[c].v
             ph(c) == p.comps[c].h
             pv(c) == p.comps[c].v
  <2>1. \A c \in D : dh(c) = pv(c) /\ dv(c) = ph(c)
    BY <1>2, <1>3
  <2> HIDE DEF D, dh, dv, ph, pv
  <2>2. {dh(c) : c \in D} = {pv(c) : c \in D}
    BY <2>1
  <2>3. {dv(c) : c \in D} = {ph(c) : c \in D}
    BY <2>1
  <2>4. QED
    BY <1>2, <2>2, <2>3 DEF MaxH, MaxV, D, dh, dv, ph, pv
<1>5. d.comps \in [1 .. Len(p.comps) -> Factors]
  BY <1>1 DEF Factors, TurnedComps
<1>6. d.comps \in Seq(Factors) /\ Len(d.comps) = Len(p.comps)
  <2> DEFINE s == d.comps
             n == Len(p.comps)
  <2>1. s \in [1 .. n -> Factors] /\ n \in Nat
    BY <1>1, <1>5
  <2> HIDE DEF s, n
  <2>2. s \in Seq(Factors) /\ Len(s) = n
    BY <2>1
  <2>3. QED
    BY <2>2 DEF s, n
<1>7. QED
  BY <1>1, <1>2, <1>3, <1>4, <1>6, EmptySeq

\* The columns, and rows, of the source's blocks that become columns of the destination.
Across(p, o, c) == IF o.transform \in Turning THEN HeightInBlocks(p, c) ELSE WidthInBlocks(p, c)
Down(p, o, c)   == IF o.transform \in Turning THEN WidthInBlocks(p, c) ELSE HeightInBlocks(p, c)

AcrossFactor(p, o, c) == IF o.transform \in Turning THEN p.comps[c].v ELSE p.comps[c].h
DownFactor(p, o, c)   == IF o.transform \in Turning THEN p.comps[c].h ELSE p.comps[c].v

\* A component that is alone has iMCUs of one block, whatever its factors.
LEMMA AloneInBlocks ==
  ASSUME NEW n \in Nat, NEW g \in 1 .. 4
  PROVE  LET blocks == Ceil(n * g, g * BlockSize)
         IN  /\ blocks = All(n, BlockSize * 1, 1)
             /\ RoundUp(blocks, 1) <= RoundUp(blocks, g)
<1> DEFINE blocks == Ceil(n * g, g * BlockSize)
<1>1. BlockSize \in Nat \ {0} /\ g \in Nat \ {0}
  BY TransformAssumption
<1>2. blocks = Ceil(n, BlockSize)
  BY <1>1, CommonFactor
<1>3. n * 1 = n /\ BlockSize * 1 = BlockSize
  BY <1>1
<1>4. Ceil(n, BlockSize) \in Nat
  BY <1>1, CeilBounds
<1>5. RoundUp(blocks, 1) = blocks
  <2> HIDE DEF blocks
  <2>1. blocks \in Nat
    BY <1>2, <1>4
  <2>2. QED
    BY <2>1 DEF RoundUp, Ceil
<1>6. blocks <= RoundUp(blocks, g)
  <2> HIDE DEF blocks
  <2>1. blocks \in Nat
    BY <1>2, <1>4
  <2>2. QED
    BY <1>1, <2>1, RoundedUp
<1>7. QED
  BY <1>2, <1>3, <1>5, <1>6 DEF All

LEMMA Geometry ==
  ASSUME NEW p, NEW o, NEW d, IsHeader(p), IsSwitches(o), HeaderOf(d, p, o), o.gray => CanBeGray(p)
  PROVE  /\ d.comps \in Seq(Factors) /\ d.comps # <<>> /\ DOMAIN d.comps \subseteq DOMAIN p.comps
         /\ InfoOf(p, o).imcuW = MaxH(d) * BlockSize /\ InfoOf(p, o).imcuH = MaxV(d) * BlockSize
         /\ \A c \in DOMAIN d.comps :
              /\ Across(p, o, c) = All(Frame(p, o).width, InfoOf(p, o).imcuW, d.comps[c].h)
              /\ Down(p, o, c) = All(Frame(p, o).height, InfoOf(p, o).imcuH, d.comps[c].v)
              /\ RoundUp(Across(p, o, c), d.comps[c].h) <= RoundUp(Across(p, o, c), AcrossFactor(p, o, c))
              /\ RoundUp(Down(p, o, c), d.comps[c].v) <= RoundUp(Down(p, o, c), DownFactor(p, o, c))
<1> DEFINE i == InfoOf(p, o)
           fr == Frame(p, o)
<1>1. /\ DOMAIN p.comps = 1 .. Len(p.comps) /\ Len(p.comps) \in Nat \ {0} /\ 1 \in DOMAIN p.comps
      /\ \A c \in DOMAIN p.comps : p.comps[c].h \in 1 .. 4 /\ p.comps[c].v \in 1 .. 4
      /\ MaxH(p) \in 1 .. 4 /\ MaxV(p) \in 1 .. 4
      /\ Len(p.comps) = 1 => MaxH(p) = p.comps[1].h /\ MaxV(p) = p.comps[1].v
  BY Sampling DEF IsHeader
<1>2. /\ i.comps = NumComponents(p, o)
      /\ i.imcuW = IF o.transform \in Turning THEN ImcuHeight(p, o) ELSE ImcuWidth(p, o)
      /\ i.imcuH = IF o.transform \in Turning THEN ImcuWidth(p, o) ELSE ImcuHeight(p, o)
      /\ fr.width = IF o.transform \in Turning THEN p.height ELSE p.width
      /\ fr.height = IF o.transform \in Turning THEN p.width ELSE p.height
  BY DEF InfoOf, Frame
<1>3. BlockSize \in Nat \ {0} /\ p.width \in Nat /\ p.height \in Nat
  BY TransformAssumption DEF IsHeader
<1> DEFINE one == [h |-> 1, v |-> 1]
<1>4. CASE NumComponents(p, o) = 1
  <2>1. MaxH(p) = p.comps[1].h /\ MaxV(p) = p.comps[1].v
    BY <1>1, <1>4 DEF NumComponents, CanBeGray
  <2>2. DOMAIN d.comps = {1} /\ d.comps[1] = one /\ d.comps \in [1 .. 1 -> Factors]
    <3>1. DOMAIN <<one>> = {1} /\ <<one>>[1] = one /\ one \in Factors
      BY DEF Factors
    <3>2. CASE o.transform \in Turning
      <4>1. d.comps = [c \in {1} |-> one]
        BY <1>2, <1>4, <3>1, <3>2 DEF HeaderOf, DstComps
      <4>2. QED
        BY <3>1, <4>1
    <3>3. CASE o.transform \notin Turning
      <4>1. d.comps = <<one>>
        BY <1>2, <1>4, <3>3 DEF HeaderOf, DstComps
      <4>2. QED
        BY <3>1, <4>1
    <3>4. QED
      BY <3>2, <3>3
  <2>3. d.comps \in Seq(Factors) /\ Len(d.comps) = 1 /\ d.comps # <<>>
    <3> DEFINE s == d.comps
               n == 1
    <3>1. s \in [1 .. n -> Factors] /\ n \in Nat
      BY <2>2
    <3> HIDE DEF s, n
    <3>2. s \in Seq(Factors) /\ Len(s) = n
      BY <3>1
    <3>3. n = 1
      BY DEF n
    <3>4. s # <<>>
      BY <3>2, <3>3, EmptySeq
    <3>5. QED
      BY <3>2, <3>3, <3>4 DEF s
  <2>4. MaxH(d) = 1 /\ MaxV(d) = 1
    BY <2>2, <2>3, Sampling
  <2>5. ImcuWidth(p, o) = BlockSize * 1 /\ ImcuHeight(p, o) = BlockSize * 1
    BY <1>4 DEF ImcuWidth, ImcuHeight
  <2>6. i.imcuW = BlockSize * 1 /\ i.imcuH = BlockSize * 1 /\ BlockSize * 1 = 1 * BlockSize
    BY <1>2, <1>3, <2>5
  <2>7. /\ WidthInBlocks(p, 1) = All(p.width, BlockSize * 1, 1)
        /\ RoundUp(WidthInBlocks(p, 1), 1) <= RoundUp(WidthInBlocks(p, 1), p.comps[1].h)
    BY <1>1, <1>3, <2>1, AloneInBlocks DEF WidthInBlocks
  <2>8. /\ HeightInBlocks(p, 1) = All(p.height, BlockSize * 1, 1)
        /\ RoundUp(HeightInBlocks(p, 1), 1) <= RoundUp(HeightInBlocks(p, 1), p.comps[1].v)
    BY <1>1, <1>3, <2>1, AloneInBlocks DEF HeightInBlocks
  <2>9. d.comps[1].h = 1 /\ d.comps[1].v = 1
    BY <2>2
  <2> HIDE DEF i, fr
  <2>10. \A c \in DOMAIN d.comps :
           /\ Across(p, o, c) = All(fr.width, i.imcuW, d.comps[c].h)
           /\ Down(p, o, c) = All(fr.height, i.imcuH, d.comps[c].v)
           /\ RoundUp(Across(p, o, c), d.comps[c].h) <= RoundUp(Across(p, o, c), AcrossFactor(p, o, c))
           /\ RoundUp(Down(p, o, c), d.comps[c].v) <= RoundUp(Down(p, o, c), DownFactor(p, o, c))
    BY <1>2, <2>2, <2>6, <2>7, <2>8, <2>9 DEF Across, Down, AcrossFactor, DownFactor
  <2>11. DOMAIN d.comps \subseteq DOMAIN p.comps
    BY <1>1, <2>2
  <2>12. QED
    BY <2>3, <2>4, <2>6, <2>10, <2>11 DEF i, fr
<1>5. CASE NumComponents(p, o) # 1
  <2>1. /\ d.comps \in Seq(Factors) /\ d.comps # <<>> /\ DOMAIN d.comps = DOMAIN p.comps
        /\ MaxH(d) = IF o.transform \in Turning THEN MaxV(p) ELSE MaxH(p)
        /\ MaxV(d) = IF o.transform \in Turning THEN MaxH(p) ELSE MaxV(p)
        /\ \A c \in DOMAIN d.comps : /\ d.comps[c].h = AcrossFactor(p, o, c)
                                      /\ d.comps[c].v = DownFactor(p, o, c)
    <3>1. CASE o.transform \in Turning
      <4>1. d.comps = TurnedComps(p.comps)
        BY <1>2, <1>5, <3>1 DEF HeaderOf, DstComps, TurnedComps
      <4>2. /\ MaxH(d) = MaxV(p) /\ MaxV(d) = MaxH(p) /\ DOMAIN d.comps = DOMAIN p.comps
            /\ d.comps \in Seq(Factors) /\ d.comps # <<>>
            /\ \A c \in DOMAIN d.comps : d.comps[c].h = p.comps[c].v /\ d.comps[c].v = p.comps[c].h
        <5>1. p.comps \in Seq(Factors) /\ p.comps # <<>>
          BY DEF IsHeader
        <5>2. QED
          BY <4>1, <5>1, TurnedFactors, Zenon
      <4> HIDE DEF i, fr, one
      <4>3. \A c \in DOMAIN d.comps : /\ d.comps[c].h = AcrossFactor(p, o, c)
                                       /\ d.comps[c].v = DownFactor(p, o, c)
        BY <3>1, <4>2 DEF AcrossFactor, DownFactor
      <4>4. QED
        BY <3>1, <4>2, <4>3
    <3>2. CASE o.transform \notin Turning
      <4>1. d.comps = p.comps
        BY <1>2, <1>5, <3>2 DEF HeaderOf, DstComps
      <4>2. QED
        BY <3>2, <4>1 DEF IsHeader, AcrossFactor, DownFactor, MaxH, MaxV
    <3>3. QED
      BY <3>1, <3>2
  <2>2. ImcuWidth(p, o) = MaxH(p) * BlockSize /\ ImcuHeight(p, o) = MaxV(p) * BlockSize
    BY <1>1, <1>3, <1>5 DEF ImcuWidth, ImcuHeight
  <2>3. i.imcuW = MaxH(d) * BlockSize /\ i.imcuH = MaxV(d) * BlockSize
    BY <1>2, <2>1, <2>2
  <2>4. \A c \in DOMAIN d.comps :
           /\ Across(p, o, c) = All(fr.width, i.imcuW, d.comps[c].h)
           /\ Down(p, o, c) = All(fr.height, i.imcuH, d.comps[c].v)
    <3>1. CASE o.transform \in Turning
      BY <1>2, <2>1, <2>2, <3>1
         DEF Across, Down, AcrossFactor, DownFactor, All, WidthInBlocks, HeightInBlocks
    <3>2. CASE o.transform \notin Turning
      BY <1>2, <2>1, <2>2, <3>2
         DEF Across, Down, AcrossFactor, DownFactor, All, WidthInBlocks, HeightInBlocks
    <3>3. QED
      BY <3>1, <3>2
  <2>5. \A c \in DOMAIN d.comps :
           /\ RoundUp(Across(p, o, c), d.comps[c].h) <= RoundUp(Across(p, o, c), AcrossFactor(p, o, c))
           /\ RoundUp(Down(p, o, c), d.comps[c].v) <= RoundUp(Down(p, o, c), DownFactor(p, o, c))
    <3>1. ASSUME NEW c \in DOMAIN d.comps
          PROVE  /\ RoundUp(Across(p, o, c), AcrossFactor(p, o, c)) \in Nat
                 /\ RoundUp(Down(p, o, c), DownFactor(p, o, c)) \in Nat
      <4>1. AcrossFactor(p, o, c) \in Nat \ {0} /\ DownFactor(p, o, c) \in Nat \ {0}
        <5>1. p.comps[c].h \in Nat \ {0} /\ p.comps[c].v \in Nat \ {0}
          BY <1>1, <2>1
        <5>2. QED
          BY <5>1 DEF AcrossFactor, DownFactor
      <4>2. i.imcuW \in Nat \ {0} /\ i.imcuH \in Nat \ {0} /\ fr.width \in Nat /\ fr.height \in Nat
        <5>1. MaxH(p) * BlockSize \in Nat \ {0} /\ MaxV(p) * BlockSize \in Nat \ {0}
          BY <1>1, <1>3
        <5>2. QED
          BY <1>2, <1>3, <2>2, <5>1
      <4>3. /\ Across(p, o, c) = Ceil(fr.width * AcrossFactor(p, o, c), i.imcuW)
            /\ Down(p, o, c) = Ceil(fr.height * DownFactor(p, o, c), i.imcuH)
        BY <2>1, <2>4, <3>1 DEF All
      <4> HIDE DEF i, fr
      <4>4. QED
        BY <4>1, <4>2, <4>3, Blocks
    <3>2. QED
      BY <2>1, <3>1
  <2>6. QED
    BY <2>1, <2>3, <2>4, <2>5
<1>6. QED
  BY <1>4, <1>5

-----------------------------------------------------------------------------
(* The crop area *)

\* The start of the area moves down to an iMCU and its end stays.
LEMMA MovedToImcu ==
  ASSUME NEW start \in Nat, NEW size \in Nat \ {0}, NEW imcu \in Nat \ {0}
  PROVE  /\ start \div imcu \in Nat /\ size + (start % imcu) \in Nat \ {0}
         /\ start % imcu \in 0 .. imcu - 1
         /\ (start \div imcu) * imcu \in Nat
         /\ (start \div imcu) * imcu = start - (start % imcu)
<1>1. /\ start \div imcu \in Int /\ start % imcu \in 0 .. imcu - 1
      /\ start = (start \div imcu) * imcu + (start % imcu)
  BY Divided
<1>2. start \div imcu \in Nat
  OBVIOUS
<1> DEFINE q == start \div imcu
           r == start % imcu
<1>3. q * imcu \in Nat
  <2>1. q \in Nat
    BY <1>2
  <2> HIDE DEF q
  <2>2. QED
    BY <2>1
<1> HIDE DEF q, r
<1>4. q * imcu = start - r
  BY <1>1, <1>3 DEF q, r
<1>5. QED
  BY <1>1, <1>2, <1>3, <1>4 DEF q, r

\* Trimming takes nothing but the partial iMCU at the edge.
LEMMA TrimmedFits ==
  ASSUME NEW full, NEW extent, NEW at, NEW imcu, NEW f, Fits(full, extent, at, imcu, f)
  PROVE  Fits(full, Trimmed(extent, at, imcu, full), at, imcu, f)
<1> DEFINE n == extent \div imcu
           r == extent % imcu
<1>1. n \in Int /\ r \in 0 .. imcu - 1 /\ extent = n * imcu + r
  BY Divided DEF Fits
<1>2. CASE n > 0 /\ at + n = full \div imcu
  <2>1. Trimmed(extent, at, imcu, full) = n * imcu
    BY <1>2 DEF Trimmed
  <2> HIDE DEF n, r
  <2>2. 1 * imcu <= n * imcu
    BY <1>1, <1>2, Products DEF Fits
  <2>3. n * imcu \in Nat \ {0} /\ n * imcu <= extent
    BY <1>1, <2>2 DEF Fits
  <2>4. at * imcu + n * imcu <= full
    BY <2>3 DEF Fits
  <2>5. QED
    BY <2>1, <2>3, <2>4, Zenon DEF Fits
<1>3. CASE ~(n > 0 /\ at + n = full \div imcu)
  BY <1>3 DEF Trimmed
<1>4. QED
  BY <1>2, <1>3

\* Along one axis, what a crop that is accepted leaves.
LEMMA CropAxisFits ==
  ASSUME NEW extent \in Nat \cup {Unset}, NEW offset \in Nat, NEW sign, NEW full \in Nat \ {0},
         NEW imcu \in Nat \ {0}, NEW f \in Nat \ {0}, CropAxis(extent, offset, sign, full).valid
  PROVE  LET a == CropAxis(extent, offset, sign, full)
         IN  /\ a.start \in Nat /\ a.size \in Nat \ {0} /\ a.start + a.size <= full
             /\ Fits(full, a.size + (a.start % imcu), a.start \div imcu, imcu, f)
<1> DEFINE a == CropAxis(extent, offset, sign, full)
           start == a.start
           size == a.size
<1>1. start \in Nat /\ size \in Nat \ {0} /\ start + size <= full
  <2> DEFINE at == IF sign = "unset" THEN 0 ELSE offset
  <2>1. /\ size = IF extent = Unset THEN full - at ELSE extent
        /\ start = IF sign = "neg" THEN full - size - at ELSE at
        /\ at < full /\ size \in 1 .. full /\ at <= full - size
    BY DEF CropAxis
  <2>2. at \in Nat
    OBVIOUS
  <2> HIDE DEF at, start, size
  <2>3. size \in Nat \ {0} /\ at + size <= full
    BY <2>1, <2>2
  <2>4. QED
    BY <2>1, <2>2, <2>3
<1> HIDE DEF start, size
<1>2. /\ start \div imcu \in Nat /\ size + (start % imcu) \in Nat \ {0}
      /\ start % imcu \in 0 .. imcu - 1
      /\ (start \div imcu) * imcu \in Nat
      /\ (start \div imcu) * imcu = start - (start % imcu)
  BY <1>1, MovedToImcu
<1>3. (start \div imcu) * imcu + (size + (start % imcu)) <= full
  <2> DEFINE q == (start \div imcu) * imcu
             r == start % imcu
  <2>1. q \in Nat /\ r \in Nat /\ q = start - r
    BY <1>2
  <2> HIDE DEF q, r
  <2>2. q + (size + r) <= full
    BY <1>1, <2>1
  <2>3. QED
    BY <2>2 DEF q, r
<1>4. QED
  BY <1>1, <1>2, <1>3, Zenon DEF Fits, start, size

\* A crop area that is accepted fits in the frame.
LEMMA CroppedFits ==
  ASSUME NEW p, NEW o, IsHeader(p), IsSwitches(o), CropValid(o, Frame(p, o)), NEW f \in Nat \ {0}
  PROVE  LET fr == Frame(p, o)
             cr == Cropped(o, fr)
         IN  /\ Fits(fr.width, cr.width, cr.x, fr.imcuW, f)
             /\ Fits(fr.height, cr.height, cr.y, fr.imcuH, f)
<1> DEFINE fr == Frame(p, o)
           cr == Cropped(o, fr)
<1>1. /\ fr.width \in Nat \ {0} /\ fr.height \in Nat \ {0}
      /\ fr.imcuW \in Nat \ {0} /\ fr.imcuH \in Nat \ {0}
  <2>1. MaxH(p) \in 1 .. 4 /\ MaxV(p) \in 1 .. 4
    BY Sampling DEF IsHeader
  <2>2. BlockSize \in Nat \ {0} /\ p.width \in Nat \ {0} /\ p.height \in Nat \ {0}
    BY TransformAssumption DEF IsHeader
  <2>3. ImcuWidth(p, o) \in Nat \ {0} /\ ImcuHeight(p, o) \in Nat \ {0}
    <3> DEFINE a == IF NumComponents(p, o) = 1 THEN 1 ELSE MaxH(p)
               b == IF NumComponents(p, o) = 1 THEN 1 ELSE MaxV(p)
    <3>1. a \in Nat \ {0} /\ b \in Nat \ {0}
      BY <2>1
    <3>2. ImcuWidth(p, o) = BlockSize * a /\ ImcuHeight(p, o) = BlockSize * b
      BY DEF ImcuWidth, ImcuHeight
    <3> HIDE DEF a, b
    <3>3. QED
      BY <2>2, <3>1, <3>2
  <2>4. QED
    BY <2>2, <2>3 DEF Frame
<1> HIDE DEF fr
<1>2. Fits(fr.width, cr.width, cr.x, fr.imcuW, f) /\ Fits(fr.height, cr.height, cr.y, fr.imcuH, f)
  <2>1. CASE o.crop.on
    <3> DEFINE ax == CropX(o, fr)
               ay == CropY(o, fr)
    <3>1. ax.valid /\ ay.valid
      BY <2>1 DEF CropValid, fr
    <3>2. /\ cr.width = ax.size + (ax.start % fr.imcuW) /\ cr.x = ax.start \div fr.imcuW
          /\ cr.height = ay.size + (ay.start % fr.imcuH) /\ cr.y = ay.start \div fr.imcuH
      BY <2>1 DEF Cropped
    <3>3. Fits(fr.width, ax.size + (ax.start % fr.imcuW), ax.start \div fr.imcuW, fr.imcuW, f)
      <4>1. o.crop.width \in Nat \cup {Unset} /\ o.crop.x \in Nat
        BY DEF IsSwitches
      <4>2. QED
        BY <1>1, <3>1, <4>1, CropAxisFits, Zenon DEF CropX
    <3>4. Fits(fr.height, ay.size + (ay.start % fr.imcuH), ay.start \div fr.imcuH, fr.imcuH, f)
      <4>1. o.crop.height \in Nat \cup {Unset} /\ o.crop.y \in Nat
        BY DEF IsSwitches
      <4>2. QED
        BY <1>1, <3>1, <4>1, CropAxisFits, Zenon DEF CropY
    <3>5. QED
      BY <3>2, <3>3, <3>4
  <2>2. CASE ~o.crop.on
    <3>1. cr.width = fr.width /\ cr.x = 0 /\ cr.height = fr.height /\ cr.y = 0
      BY <2>2 DEF Cropped
    <3>2. 0 * fr.imcuW = 0 /\ 0 * fr.imcuH = 0
      BY <1>1
    <3>3. QED
      BY <1>1, <3>1, <3>2 DEF Fits
  <2>3. QED
    BY <2>1, <2>2
<1>3. QED
  BY <1>2 DEF fr

\* The destination fits in the frame, whatever is cropped and trimmed.
LEMMA CropFits ==
  ASSUME NEW p, NEW o, IsHeader(p), IsSwitches(o), CropValid(o, Frame(p, o)), NEW f \in Nat \ {0}
  PROVE  LET i == InfoOf(p, o)
             fr == Frame(p, o)
         IN  /\ Fits(fr.width, i.width, i.x, i.imcuW, f)
             /\ Fits(fr.height, i.height, i.y, i.imcuH, f)
<1> DEFINE i == InfoOf(p, o)
           fr == Frame(p, o)
           cr == Cropped(o, fr)
<1>1. /\ i.x = cr.x /\ i.y = cr.y /\ i.imcuW = fr.imcuW /\ i.imcuH = fr.imcuH
      /\ i.width = cr.width \/ i.width = Trimmed(cr.width, cr.x, fr.imcuW, fr.width)
      /\ i.height = cr.height \/ i.height = Trimmed(cr.height, cr.y, fr.imcuH, fr.height)
  BY DEF InfoOf
<1>2. Fits(fr.width, cr.width, cr.x, fr.imcuW, f) /\ Fits(fr.height, cr.height, cr.y, fr.imcuH, f)
  BY CroppedFits
<1> HIDE DEF i, fr, cr
<1>3. QED
  BY <1>1, <1>2, TrimmedFits DEF i, fr

-----------------------------------------------------------------------------
(* Where the blocks of the destination come from *)

\* Block <<x, y>> of component c, counted in the frame, and from the other end if mirrored.
PlaceX(p, o, d, c, x) ==
  Opposite(InfoOf(p, o).x * d.comps[c].h + x,
           Whole(Frame(p, o).width, InfoOf(p, o).imcuW, d.comps[c].h), MirrorsX(o.transform))
PlaceY(p, o, d, c, y) ==
  Opposite(InfoOf(p, o).y * d.comps[c].v + y,
           Whole(Frame(p, o).height, InfoOf(p, o).imcuH, d.comps[c].v), MirrorsY(o.transform))

MirroredX(p, o, d, c, x) ==
  /\ MirrorsX(o.transform)
  /\ InfoOf(p, o).x * d.comps[c].h + x < Whole(Frame(p, o).width, InfoOf(p, o).imcuW, d.comps[c].h)
MirroredY(p, o, d, c, y) ==
  /\ MirrorsY(o.transform)
  /\ InfoOf(p, o).y * d.comps[c].v + y < Whole(Frame(p, o).height, InfoOf(p, o).imcuH, d.comps[c].v)

PlaceOf(p, o, d, c, x, y) ==
  IF o.transform \in Turning
    THEN Cell(PlaceY(p, o, d, c, y), PlaceX(p, o, d, c, x), TRUE,
              MirroredX(p, o, d, c, x), MirroredY(p, o, d, c, y))
    ELSE Cell(PlaceX(p, o, d, c, x), PlaceY(p, o, d, c, y), FALSE,
              MirroredX(p, o, d, c, x), MirroredY(p, o, d, c, y))

\* A request that is granted, for a destination that has its header.
Workable(p, o, d) ==
  IsHeader(p) /\ IsSwitches(o) /\ Granted(p, o) /\ HeaderOf(d, p, o)

\* One axis: the frame and the destination of component c.
LEMMA AxesFit ==
  ASSUME NEW p, NEW o, NEW d, Workable(p, o, d), NEW c \in DOMAIN d.comps
  PROVE  LET i == InfoOf(p, o)
             fr == Frame(p, o)
         IN  /\ d.comps[c].h \in Nat \ {0} /\ d.comps[c].v \in Nat \ {0}
             /\ Fits(fr.width, i.width, i.x, i.imcuW, d.comps[c].h)
             /\ Fits(fr.height, i.height, i.y, i.imcuH, d.comps[c].v)
<1>1. IsHeader(p) /\ IsSwitches(o) /\ CropValid(o, Frame(p, o)) /\ (o.gray => CanBeGray(p))
  BY DEF Workable, Granted
<1>2. d.comps \in Seq(Factors) /\ d.comps # <<>>
  BY <1>1, Geometry DEF Workable
<1>3. d.comps[c].h \in 1 .. 4 /\ d.comps[c].v \in 1 .. 4
  BY <1>2, Sampling
<1>4. d.comps[c].h \in Nat \ {0} /\ d.comps[c].v \in Nat \ {0}
  BY <1>3
<1>5. QED
  BY <1>1, <1>4, CropFits

\* The eight routines agree on what a transform is.
LEMMA CellsAsPlaces ==
  ASSUME NEW p, NEW o, NEW d, Workable(p, o, d), NEW c \in DOMAIN d.comps,
         NEW x \in Nat, NEW y \in Nat
  PROVE  CellOf(o.transform, AreaOf(p, d, o, InfoOf(p, o), c), x, y) = PlaceOf(p, o, d, c, x, y)
<1> DEFINE i == InfoOf(p, o)
           fr == Frame(p, o)
           t == o.transform
           h == d.comps[c].h
           v == d.comps[c].v
           a == AreaOf(p, d, o, i, c)
           kx == i.x * h + x
           ky == i.y * v + y
           nx == Whole(fr.width, i.imcuW, h)
           ny == Whole(fr.height, i.imcuH, v)
<1>1. /\ h \in Nat \ {0} /\ v \in Nat \ {0}
      /\ Fits(fr.width, i.width, i.x, i.imcuW, h)
      /\ Fits(fr.height, i.height, i.y, i.imcuH, v)
  BY AxesFit
<1>2. i.imcuW = MaxH(d) * BlockSize /\ i.imcuH = MaxV(d) * BlockSize
  BY Geometry DEF Workable, Granted
<1>3. /\ a.h = h /\ a.v = v /\ a.x = i.x * h /\ a.y = i.y * v
      /\ a.w = nx /\ a.t = ny
  <2>1. /\ fr.width = IF t \in Turning THEN p.height ELSE p.width
        /\ fr.height = IF t \in Turning THEN p.width ELSE p.height
    BY DEF Frame
  <2> HIDE DEF i, fr
  <2>2. QED
    BY <1>2, <2>1 DEF AreaOf, Whole
<1> HIDE DEF i, fr, h, v
<1>4. ASSUME NEW step, step = 1 \/ step = h
      PROVE  /\ Mirrorable(nx, i.x * h, step, x) <=> kx < nx
             /\ Mirror(nx, i.x * h, step, x) = FromEnd(kx, nx)
  BY <1>1, <1>4, MirrorIsOpposite
<1>5. ASSUME NEW step, step = 1 \/ step = v
      PROVE  /\ Mirrorable(ny, i.y * v, step, y) <=> ky < ny
             /\ Mirror(ny, i.y * v, step, y) = FromEnd(ky, ny)
  BY <1>1, <1>5, MirrorIsOpposite
<1>6. /\ PlaceX(p, o, d, c, x) = IF MirrorsX(t) THEN FromEnd(kx, nx) ELSE kx
      /\ PlaceY(p, o, d, c, y) = IF MirrorsY(t) THEN FromEnd(ky, ny) ELSE ky
  BY DEF PlaceX, PlaceY, Opposite, FromEnd, i, fr, h, v
<1> DEFINE mx == kx < nx
           my == ky < ny
<1>7. mx \in BOOLEAN /\ my \in BOOLEAN
  OBVIOUS
<1>8. /\ MirroredX(p, o, d, c, x) = IF MirrorsX(t) THEN mx ELSE FALSE
      /\ MirroredY(p, o, d, c, y) = IF MirrorsY(t) THEN my ELSE FALSE
  <2>1. /\ MirroredX(p, o, d, c, x) <=> MirrorsX(t) /\ mx
        /\ MirroredY(p, o, d, c, y) <=> MirrorsY(t) /\ my
    BY DEF MirroredX, MirroredY, i, fr, h, v
  <2>2. MirroredX(p, o, d, c, x) \in BOOLEAN /\ MirroredY(p, o, d, c, y) \in BOOLEAN
    BY DEF MirroredX, MirroredY
  <2> HIDE DEF mx, my, kx, ky, nx, ny, t
  <2>3. QED
    BY <1>7, <2>1, <2>2, Zenon
<1> HIDE DEF a, nx, ny, kx, ky, mx, my
<1>9. /\ a.x + x = kx /\ a.y + y = ky
      /\ Mirrorable(a.w, a.x, 1, x) = mx /\ Mirrorable(a.w, a.x, a.h, x) = mx
      /\ Mirrorable(a.t, a.y, a.v, y) = my
      /\ Mirror(a.w, a.x, 1, x) = FromEnd(kx, nx)
      /\ Mirror(a.w, a.x, a.h, x) = FromEnd(kx, nx)
      /\ Mirror(a.t, a.y, a.v, y) = FromEnd(ky, ny)
  <2>1. a.x + x = kx /\ a.y + y = ky
    BY <1>3 DEF kx, ky
  <2>2. /\ Mirrorable(a.w, a.x, 1, x) <=> mx
        /\ Mirror(a.w, a.x, 1, x) = FromEnd(kx, nx)
    BY <1>3, <1>4 DEF mx
  <2>3. /\ Mirrorable(a.w, a.x, a.h, x) <=> mx
        /\ Mirror(a.w, a.x, a.h, x) = FromEnd(kx, nx)
    BY <1>3, <1>4 DEF mx
  <2>4. /\ Mirrorable(a.t, a.y, a.v, y) <=> my
        /\ Mirror(a.t, a.y, a.v, y) = FromEnd(ky, ny)
    BY <1>3, <1>5 DEF my
  <2>5. ASSUME NEW n, NEW at, NEW step, NEW k PROVE Mirrorable(n, at, step, k) \in BOOLEAN
    BY DEF Mirrorable
  <2>6. QED
    BY <1>7, <2>1, <2>2, <2>3, <2>4, <2>5, Zenon
<1>10. t \in Transforms
  BY DEF Workable, IsSwitches
<1>11. /\ t = "none" => CellOf(t, a, x, y) = Crop(a, x, y)
       /\ t = "flip_h" => CellOf(t, a, x, y) = FlipH(a, x, y)
       /\ t = "flip_v" => CellOf(t, a, x, y) = FlipV(a, x, y)
       /\ t = "transpose" => CellOf(t, a, x, y) = Transpose(a, x, y)
       /\ t = "transverse" => CellOf(t, a, x, y) = Transverse(a, x, y)
       /\ t = "rot_90" => CellOf(t, a, x, y) = Rot90(a, x, y)
       /\ t = "rot_180" => CellOf(t, a, x, y) = Rot180(a, x, y)
       /\ t = "rot_270" => CellOf(t, a, x, y) = Rot270(a, x, y)
  BY DEF CellOf
<1>12. CASE t = "none"
  <2>1. /\ MirrorsX(t) = FALSE /\ MirrorsY(t) = FALSE
        /\ t \notin Turning
    BY <1>12 DEF MirrorsX, MirrorsY, Turning
  <2>2. CellOf(t, a, x, y) = Cell(kx, ky, FALSE, FALSE, FALSE)
    BY <1>9, <1>11, <1>12, Zenon DEF Crop
  <2>3. PlaceOf(p, o, d, c, x, y) = Cell(kx, ky, FALSE, FALSE, FALSE)
    BY <1>6, <1>8, <2>1, Zenon DEF PlaceOf
  <2>4. QED
    BY <2>2, <2>3 DEF a, i
<1>13. CASE t = "flip_h"
  <2>1. /\ MirrorsX(t) = TRUE /\ MirrorsY(t) = FALSE
        /\ t \notin Turning
    BY <1>13 DEF MirrorsX, MirrorsY, Turning
  <2>2. CellOf(t, a, x, y) = Cell(FromEnd(kx, nx), ky, FALSE, mx, FALSE)
    BY <1>9, <1>11, <1>13, Zenon DEF FlipH
  <2>3. PlaceOf(p, o, d, c, x, y) = Cell(FromEnd(kx, nx), ky, FALSE, mx, FALSE)
    BY <1>6, <1>8, <2>1, Zenon DEF PlaceOf
  <2>4. QED
    BY <2>2, <2>3 DEF a, i
<1>14. CASE t = "flip_v"
  <2>1. /\ MirrorsX(t) = FALSE /\ MirrorsY(t) = TRUE
        /\ t \notin Turning
    BY <1>14 DEF MirrorsX, MirrorsY, Turning
  <2>2. CellOf(t, a, x, y) = Cell(kx, FromEnd(ky, ny), FALSE, FALSE, my)
    BY <1>9, <1>11, <1>14, Zenon DEF FlipV
  <2>3. PlaceOf(p, o, d, c, x, y) = Cell(kx, FromEnd(ky, ny), FALSE, FALSE, my)
    BY <1>6, <1>8, <2>1, Zenon DEF PlaceOf
  <2>4. QED
    BY <2>2, <2>3 DEF a, i
<1>15. CASE t = "transpose"
  <2>1. /\ MirrorsX(t) = FALSE /\ MirrorsY(t) = FALSE
        /\ t \in Turning
    BY <1>15 DEF MirrorsX, MirrorsY, Turning
  <2>2. CellOf(t, a, x, y) = Cell(ky, kx, TRUE, FALSE, FALSE)
    BY <1>9, <1>11, <1>15, Zenon DEF Transpose
  <2>3. PlaceOf(p, o, d, c, x, y) = Cell(ky, kx, TRUE, FALSE, FALSE)
    BY <1>6, <1>8, <2>1, Zenon DEF PlaceOf
  <2>4. QED
    BY <2>2, <2>3 DEF a, i
<1>16. CASE t = "transverse"
  <2>1. /\ MirrorsX(t) = TRUE /\ MirrorsY(t) = TRUE
        /\ t \in Turning
    BY <1>16 DEF MirrorsX, MirrorsY, Turning
  <2>2. CellOf(t, a, x, y) = Cell(FromEnd(ky, ny), FromEnd(kx, nx), TRUE, mx, my)
    BY <1>9, <1>11, <1>16, Zenon DEF Transverse
  <2>3. PlaceOf(p, o, d, c, x, y) = Cell(FromEnd(ky, ny), FromEnd(kx, nx), TRUE, mx, my)
    BY <1>6, <1>8, <2>1, Zenon DEF PlaceOf
  <2>4. QED
    BY <2>2, <2>3 DEF a, i
<1>17. CASE t = "rot_90"
  <2>1. /\ MirrorsX(t) = TRUE /\ MirrorsY(t) = FALSE
        /\ t \in Turning
    BY <1>17 DEF MirrorsX, MirrorsY, Turning
  <2>2. CellOf(t, a, x, y) = Cell(ky, FromEnd(kx, nx), TRUE, mx, FALSE)
    BY <1>9, <1>11, <1>17, Zenon DEF Rot90
  <2>3. PlaceOf(p, o, d, c, x, y) = Cell(ky, FromEnd(kx, nx), TRUE, mx, FALSE)
    BY <1>6, <1>8, <2>1, Zenon DEF PlaceOf
  <2>4. QED
    BY <2>2, <2>3 DEF a, i
<1>18. CASE t = "rot_180"
  <2>1. /\ MirrorsX(t) = TRUE /\ MirrorsY(t) = TRUE
        /\ t \notin Turning
    BY <1>18 DEF MirrorsX, MirrorsY, Turning
  <2>2. CellOf(t, a, x, y) = Cell(FromEnd(kx, nx), FromEnd(ky, ny), FALSE, mx, my)
    BY <1>9, <1>11, <1>18, Zenon DEF Rot180
  <2>3. PlaceOf(p, o, d, c, x, y) = Cell(FromEnd(kx, nx), FromEnd(ky, ny), FALSE, mx, my)
    BY <1>6, <1>8, <2>1, Zenon DEF PlaceOf
  <2>4. QED
    BY <2>2, <2>3 DEF a, i
<1>19. CASE t = "rot_270"
  <2>1. /\ MirrorsX(t) = FALSE /\ MirrorsY(t) = TRUE
        /\ t \in Turning
    BY <1>19 DEF MirrorsX, MirrorsY, Turning
  <2>2. CellOf(t, a, x, y) = Cell(FromEnd(ky, ny), kx, TRUE, FALSE, my)
    BY <1>9, <1>11, <1>19, Zenon DEF Rot270
  <2>3. PlaceOf(p, o, d, c, x, y) = Cell(FromEnd(ky, ny), kx, TRUE, FALSE, my)
    BY <1>6, <1>8, <2>1, Zenon DEF PlaceOf
  <2>4. QED
    BY <2>2, <2>3 DEF a, i
<1>20. QED
  BY <1>10, <1>12, <1>13, <1>14, <1>15, <1>16, <1>17, <1>18, <1>19 DEF Transforms

\* The destination's size in blocks, from that of its crop area.
LEMMA SizeInBlocks ==
  ASSUME NEW p, NEW o, NEW d, Workable(p, o, d), NEW c \in DOMAIN d.comps
  PROVE  LET i == InfoOf(p, o)
         IN  /\ WidthInBlocks(d, c) = Kept(i.width, i.imcuW, d.comps[c].h)
             /\ HeightInBlocks(d, c) = Kept(i.height, i.imcuH, d.comps[c].v)
<1>1. /\ InfoOf(p, o).imcuW = MaxH(d) * BlockSize /\ InfoOf(p, o).imcuH = MaxV(d) * BlockSize
      /\ d.width = InfoOf(p, o).width /\ d.height = InfoOf(p, o).height
  BY Geometry DEF Workable, Granted, HeaderOf
<1>2. QED
  BY <1>1 DEF WidthInBlocks, HeightInBlocks, Kept

\* A visible block of the destination comes from a visible block, any other that is
\* written from a block of the array.
LEMMA PlaceInside ==
  ASSUME NEW p, NEW o, NEW d, Workable(p, o, d), NEW c \in DOMAIN d.comps,
         NEW x \in Nat, NEW y \in Nat
  PROVE  LET cell == PlaceOf(p, o, d, c, x, y)
         IN  /\ x < WidthInBlocks(d, c) /\ y < HeightInBlocks(d, c)
                  => <<cell.x, cell.y>> \in Visible(p, c)
             /\ x < RoundUp(WidthInBlocks(d, c), d.comps[c].h)
                /\ y < RoundUp(HeightInBlocks(d, c), d.comps[c].v)
                  => <<cell.x, cell.y>> \in ArrayOf(p, c)
<1> DEFINE i == InfoOf(p, o)
           fr == Frame(p, o)
           h == d.comps[c].h
           v == d.comps[c].v
           X == PlaceX(p, o, d, c, x)
           Y == PlaceY(p, o, d, c, y)
           W == WidthInBlocks(d, c)
           H == HeightInBlocks(d, c)
           A == Across(p, o, c)
           D == Down(p, o, c)
           cell == PlaceOf(p, o, d, c, x, y)
<1>1. /\ Fits(fr.width, i.width, i.x, i.imcuW, h)
      /\ Fits(fr.height, i.height, i.y, i.imcuH, v)
  BY AxesFit
<1>2. W = Kept(i.width, i.imcuW, h) /\ H = Kept(i.height, i.imcuH, v)
  BY SizeInBlocks
<1>3. /\ A = All(fr.width, i.imcuW, h) /\ D = All(fr.height, i.imcuH, v)
      /\ RoundUp(A, h) <= RoundUp(A, AcrossFactor(p, o, c))
      /\ RoundUp(D, v) <= RoundUp(D, DownFactor(p, o, c))
  BY Geometry DEF Workable, Granted
<1>4. MirrorsX(o.transform) \in BOOLEAN /\ MirrorsY(o.transform) \in BOOLEAN
  BY DEF MirrorsX, MirrorsY
<1> HIDE DEF i, fr, h, v, W, H, A, D
<1>5. /\ x < W => X \in 0 .. A - 1
      /\ x < RoundUp(W, h) => X \in 0 .. RoundUp(A, h) - 1
  BY <1>1, <1>2, <1>3, <1>4, OppositeInside DEF PlaceX, i, fr, h
<1>6. /\ y < H => Y \in 0 .. D - 1
      /\ y < RoundUp(H, v) => Y \in 0 .. RoundUp(D, v) - 1
  BY <1>1, <1>2, <1>3, <1>4, OppositeInside DEF PlaceY, i, fr, v
<1> HIDE DEF X, Y
<1> DEFINE AA == RoundUp(A, AcrossFactor(p, o, c))
           DD == RoundUp(D, DownFactor(p, o, c))
<1>7. AA \in Nat /\ DD \in Nat /\ RoundUp(A, h) \in Nat /\ RoundUp(D, v) \in Nat
  <2>1. A \in Nat /\ D \in Nat /\ RoundUp(A, h) \in Nat /\ RoundUp(D, v) \in Nat
    BY <1>1, <1>3, Blocks DEF All, Fits
  <2>2. AcrossFactor(p, o, c) \in Nat \ {0} /\ DownFactor(p, o, c) \in Nat \ {0}
    <3>1. c \in DOMAIN p.comps /\ p.comps \in Seq(Factors) /\ p.comps # <<>>
      BY Geometry DEF Workable, Granted, IsHeader
    <3>2. p.comps[c].h \in 1 .. 4 /\ p.comps[c].v \in 1 .. 4
      BY <3>1, Sampling
    <3>3. QED
      BY <3>2 DEF AcrossFactor, DownFactor
  <2>3. QED
    BY <2>1, <2>2, RoundedUp
<1>8. /\ x < RoundUp(W, h) => X \in 0 .. AA - 1
      /\ y < RoundUp(H, v) => Y \in 0 .. DD - 1
  <2> HIDE DEF AA, DD
  <2>1. RoundUp(A, h) <= AA /\ RoundUp(D, v) <= DD
    BY <1>3 DEF AA, DD
  <2>2. QED
    BY <1>5, <1>6, <1>7, <2>1
<1> HIDE DEF AA, DD
<1>9. CASE o.transform \in Turning
  <2>1. cell.x = Y /\ cell.y = X
    BY <1>9 DEF PlaceOf, Cell, X, Y
  <2>2. Visible(p, c) = Grid(D, A) /\ ArrayOf(p, c) = Grid(DD, AA)
    BY <1>9 DEF Visible, ArrayOf, Across, Down, AcrossFactor, DownFactor, A, D, AA, DD
  <2>3. QED
    BY <1>5, <1>6, <1>8, <2>1, <2>2 DEF Grid, W, H, h, v
<1>10. CASE o.transform \notin Turning
  <2>1. cell.x = X /\ cell.y = Y
    BY <1>10 DEF PlaceOf, Cell, X, Y
  <2>2. Visible(p, c) = Grid(A, D) /\ ArrayOf(p, c) = Grid(AA, DD)
    BY <1>10 DEF Visible, ArrayOf, Across, Down, AcrossFactor, DownFactor, A, D, AA, DD
  <2>3. QED
    BY <1>5, <1>6, <1>8, <2>1, <2>2 DEF Grid, W, H, h, v
<1>11. QED
  BY <1>9, <1>10

-----------------------------------------------------------------------------
(* Blocks *)

RealBlocks == [kind : {"real"}, x : Nat, y : Nat, turned : BOOLEAN, cols : BOOLEAN, rows : BOOLEAN]

\* The header, and arrays that are real where they are shown and padded where not; every
\* block that is shown is transposed just if the tables are.
IsPicture(s) ==
  /\ IsHeader(s) /\ s.turned \in BOOLEAN
  /\ DOMAIN s.coefs = DOMAIN s.comps
  /\ \A c \in DOMAIN s.comps :
       /\ s.coefs[c] \in [ArrayOf(s, c) -> RealBlocks \cup {Padding}]
       /\ \A q \in Visible(s, c) : s.coefs[c][q] \in RealBlocks /\ s.coefs[c][q].turned = s.turned

LEMMA MovedBlock ==
  ASSUME NEW b \in RealBlocks, NEW turn \in BOOLEAN, NEW cols \in BOOLEAN, NEW rows \in BOOLEAN
  PROVE  LET m == Moved(b, turn, cols, rows)
         IN  /\ m \in RealBlocks /\ m.x = b.x /\ m.y = b.y /\ m.turned = (b.turned # turn)
             /\ m.cols = ((IF turn THEN b.rows ELSE b.cols) # cols)
             /\ m.rows = ((IF turn THEN b.cols ELSE b.rows) # rows)
<1> DEFINE t == b.turned # turn
           k == (IF turn THEN b.rows ELSE b.cols) # cols
           l == (IF turn THEN b.cols ELSE b.rows) # rows
           m == Moved(b, turn, cols, rows)
<1>1. t \in BOOLEAN /\ k \in BOOLEAN /\ l \in BOOLEAN
  OBVIOUS
<1>2. m = [b EXCEPT !.turned = t, !.cols = k, !.rows = l]
  BY DEF Moved, RealBlocks
<1> HIDE DEF t, k, l, m
<1>3. m \in RealBlocks /\ m.x = b.x /\ m.y = b.y /\ m.turned = t /\ m.cols = k /\ m.rows = l
  BY <1>1, <1>2 DEF RealBlocks
<1>4. QED
  BY <1>3 DEF m, t, k, l

LEMMA NotMoved ==
  ASSUME NEW b \in RealBlocks
  PROVE  Moved(b, FALSE, FALSE, FALSE) = b
<1> DEFINE m == Moved(b, FALSE, FALSE, FALSE)
<1>1. /\ m \in RealBlocks /\ m.x = b.x /\ m.y = b.y /\ m.turned = (b.turned # FALSE)
      /\ m.cols = (b.cols # FALSE) /\ m.rows = (b.rows # FALSE)
  BY MovedBlock
<1>2. b.turned \in BOOLEAN /\ b.cols \in BOOLEAN /\ b.rows \in BOOLEAN
  BY DEF RealBlocks
<1>3. m.turned = b.turned /\ m.cols = b.cols /\ m.rows = b.rows
  <2> HIDE DEF m
  <2>1. QED
    BY <1>1, <1>2, Zenon
<1> HIDE DEF m
<1>4. m = b
  BY <1>1, <1>3 DEF RealBlocks
<1>5. QED
  BY <1>4 DEF m

\* What is shown is in the array.
LEMMA ShownInArray ==
  ASSUME NEW p, IsHeader(p), NEW c \in DOMAIN p.comps
  PROVE  /\ Visible(p, c) \subseteq ArrayOf(p, c)
         /\ WidthInBlocks(p, c) \in Nat /\ HeightInBlocks(p, c) \in Nat
<1>1. p.comps[c].h \in Nat \ {0} /\ p.comps[c].v \in Nat \ {0} /\ MaxH(p) \in Nat \ {0} /\ MaxV(p) \in Nat \ {0}
  <2>1. p.comps[c].h \in 1 .. 4 /\ p.comps[c].v \in 1 .. 4 /\ MaxH(p) \in 1 .. 4 /\ MaxV(p) \in 1 .. 4
    BY Sampling DEF IsHeader
  <2>2. QED
    BY <2>1
<1>2. BlockSize \in Nat \ {0} /\ p.width \in Nat /\ p.height \in Nat
  BY TransformAssumption DEF IsHeader
<1> DEFINE W == WidthInBlocks(p, c)
           H == HeightInBlocks(p, c)
           A == RoundUp(W, p.comps[c].h)
           D == RoundUp(H, p.comps[c].v)
<1>3. MaxH(p) * BlockSize \in Nat \ {0} /\ MaxV(p) * BlockSize \in Nat \ {0}
  BY <1>1, <1>2
<1>4. W \in Nat /\ H \in Nat /\ A \in Nat /\ D \in Nat /\ W <= A /\ H <= D
  BY <1>1, <1>2, <1>3, Blocks DEF WidthInBlocks, HeightInBlocks
<1>5. Visible(p, c) = Grid(W, H) /\ ArrayOf(p, c) = Grid(A, D)
  BY DEF Visible, ArrayOf
<1> HIDE DEF W, H, A, D
<1>6. QED
  BY <1>4, <1>5 DEF Grid, W, H

\* The block the destination has to show at <<x, y>>.
PlaceBlock(s, o, d, c, x, y) ==
  LET cell == PlaceOf(s, o, d, c, x, y)
  IN  Moved(s.coefs[c][<<cell.x, cell.y>>], cell.turn, cell.cols, cell.rows)

\* Every access of a routine that writes a workspace finds a block, real or padding.
LEMMA FetchInside ==
  ASSUME NEW s, NEW o, NEW d, IsPicture(s), Workable(s, o, d), NEW c \in DOMAIN d.comps,
         NEW x \in Nat, NEW y \in Nat,
         x < RoundUp(WidthInBlocks(d, c), d.comps[c].h),
         y < RoundUp(HeightInBlocks(d, c), d.comps[c].v)
  PROVE  LET b == Fetch(s.coefs[c], CellOf(o.transform, AreaOf(s, d, o, InfoOf(s, o), c), x, y))
         IN  b = PlaceBlock(s, o, d, c, x, y) /\ b.kind \in {"real", "padding"}
<1> DEFINE cell == PlaceOf(s, o, d, c, x, y)
           a == s.coefs[c]
           at == <<cell.x, cell.y>>
<1>1. CellOf(o.transform, AreaOf(s, d, o, InfoOf(s, o), c), x, y) = cell
  BY CellsAsPlaces
<1>2. at \in ArrayOf(s, c)
  BY PlaceInside
<1>3. c \in DOMAIN s.comps
  BY Geometry DEF Workable, Granted
<1>4. a \in [ArrayOf(s, c) -> RealBlocks \cup {Padding}]
  BY <1>3 DEF IsPicture
<1>5. a[at] \in RealBlocks \cup {Padding} /\ at \in DOMAIN a
  BY <1>2, <1>4
<1>6. cell.turn \in BOOLEAN /\ cell.cols \in BOOLEAN /\ cell.rows \in BOOLEAN
  BY DEF PlaceOf, Cell, MirroredX, MirroredY
<1> HIDE DEF cell, a
<1>7. Fetch(a, cell) = Moved(a[at], cell.turn, cell.cols, cell.rows)
  BY <1>5 DEF Fetch
<1>8. Moved(a[at], cell.turn, cell.cols, cell.rows).kind \in {"real", "padding"}
  <2>1. CASE a[at] \in RealBlocks
    BY <1>6, <2>1, MovedBlock DEF RealBlocks
  <2>2. CASE a[at] = Padding
    BY <2>2 DEF Moved, Padding
  <2>3. QED
    BY <1>5, <2>1, <2>2
<1>9. PlaceBlock(s, o, d, c, x, y) = Moved(a[at], cell.turn, cell.cols, cell.rows)
  BY DEF PlaceBlock, a, cell
<1>10. QED
  BY <1>1, <1>7, <1>8, <1>9 DEF a

\* A block that is shown comes from one that is shown, turned as often as the tables.
LEMMA PlaceBlockIsReal ==
  ASSUME NEW s, NEW o, NEW d, IsPicture(s), Workable(s, o, d), NEW c \in DOMAIN d.comps,
         NEW x \in Nat, NEW y \in Nat, x < WidthInBlocks(d, c), y < HeightInBlocks(d, c)
  PROVE  /\ PlaceBlock(s, o, d, c, x, y) \in RealBlocks
         /\ PlaceBlock(s, o, d, c, x, y).turned = DstTurned(s, o)
<1> DEFINE cell == PlaceOf(s, o, d, c, x, y)
           b == s.coefs[c][<<cell.x, cell.y>>]
<1>1. c \in DOMAIN s.comps
  BY Geometry DEF Workable, Granted
<1>2. <<cell.x, cell.y>> \in Visible(s, c)
  BY PlaceInside
<1>3. b \in RealBlocks /\ b.turned = s.turned
  BY <1>1, <1>2 DEF IsPicture
<1>4. /\ cell.turn \in BOOLEAN /\ cell.cols \in BOOLEAN /\ cell.rows \in BOOLEAN
      /\ cell.turn = (o.transform \in Turning)
  <2>1. CASE o.transform \in Turning
    BY <2>1 DEF PlaceOf, Cell, MirroredX, MirroredY
  <2>2. CASE o.transform \notin Turning
    <3>1. cell.turn = FALSE /\ cell.cols \in BOOLEAN /\ cell.rows \in BOOLEAN
      BY <2>2 DEF PlaceOf, Cell, MirroredX, MirroredY
    <3> HIDE DEF cell
    <3>2. (o.transform \in Turning) = FALSE
      BY <2>2
    <3>3. QED
      BY <3>1, <3>2
  <2>3. QED
    BY <2>1, <2>2
<1>5. PlaceBlock(s, o, d, c, x, y) = Moved(b, cell.turn, cell.cols, cell.rows)
  BY DEF PlaceBlock
<1> HIDE DEF b, cell
<1>6. /\ Moved(b, cell.turn, cell.cols, cell.rows) \in RealBlocks
      /\ Moved(b, cell.turn, cell.cols, cell.rows).turned = (b.turned # cell.turn)
  <2> DEFINE turn == cell.turn
             cols == cell.cols
             rows == cell.rows
  <2>1. b \in RealBlocks /\ turn \in BOOLEAN /\ cols \in BOOLEAN /\ rows \in BOOLEAN
    BY <1>3, <1>4
  <2> HIDE DEF turn, cols, rows
  <2>2. /\ Moved(b, turn, cols, rows) \in RealBlocks
        /\ Moved(b, turn, cols, rows).turned = (b.turned # turn)
    BY <2>1, MovedBlock
  <2>3. QED
    BY <2>2 DEF turn, cols, rows
<1>7. (b.turned # cell.turn) = DstTurned(s, o)
  BY <1>3, <1>4, Zenon DEF DstTurned
<1>8. QED
  BY <1>5, <1>6, <1>7

-----------------------------------------------------------------------------
(* The arrays of the destination *)

\* The workspace is sized with the factors the destination will have.
LEMMA WorkspaceIsWhole ==
  ASSUME NEW s, NEW o, NEW d, Workable(s, o, d), NEW c \in DOMAIN d.comps
  PROVE  WorkspaceOf(s, o, InfoOf(s, o), c)
           = Grid(Ceil(InfoOf(s, o).width, InfoOf(s, o).imcuW) * d.comps[c].h,
                  Ceil(InfoOf(s, o).height, InfoOf(s, o).imcuH) * d.comps[c].v)
<1> DEFINE i == InfoOf(s, o)
           one == [h |-> 1, v |-> 1]
           turned == o.transform \in Turning
<1>1. d.comps = DstComps(s, o, i)
  BY DEF Workable, HeaderOf
<1> HIDE DEF i
<1>2. CASE i.comps = 1 /\ turned
  <2>1. d.comps = [k \in {1} |-> one]
    BY <1>1, <1>2 DEF DstComps
  <2>2. c = 1 /\ d.comps[c] = one
    BY <2>1
  <2>3. QED
    BY <1>2, <2>2 DEF WorkspaceOf, i
<1>3. CASE i.comps = 1 /\ ~turned
  <2>1. d.comps = <<one>>
    BY <1>1, <1>3 DEF DstComps
  <2>2. c = 1 /\ d.comps[c] = one
    BY <2>1
  <2>3. QED
    BY <1>3, <2>2 DEF WorkspaceOf, i
<1>4. CASE i.comps # 1 /\ turned
  <2>1. d.comps = TurnedComps(s.comps)
    BY <1>1, <1>4 DEF DstComps, TurnedComps
  <2>2. d.comps[c].h = s.comps[c].v /\ d.comps[c].v = s.comps[c].h
    BY <2>1 DEF TurnedComps
  <2>3. QED
    BY <1>4, <2>2 DEF WorkspaceOf, i
<1>5. CASE i.comps # 1 /\ ~turned
  <2>1. d.comps = s.comps
    BY <1>1, <1>5 DEF DstComps
  <2>2. QED
    BY <1>5, <2>1 DEF WorkspaceOf, i
<1>6. QED
  BY <1>2, <1>3, <1>4, <1>5

\* Everything a routine writes is in the workspace, and in whole groups of blocks.
LEMMA WrittenInWorkspace ==
  ASSUME NEW s, NEW o, NEW d, Workable(s, o, d), NEW c \in DOMAIN d.comps
  PROVE  /\ Written(d, o, c) \subseteq WorkspaceOf(s, o, InfoOf(s, o), c)
         /\ Visible(d, c) \subseteq Written(d, o, c)
         /\ Written(d, o, c) \subseteq ArrayOf(d, c)
         /\ WidthInBlocks(d, c) \in Nat /\ HeightInBlocks(d, c) \in Nat
         /\ RoundUp(WidthInBlocks(d, c), d.comps[c].h) \in Nat
         /\ RoundUp(HeightInBlocks(d, c), d.comps[c].v) \in Nat
<1> DEFINE i == InfoOf(s, o)
           fr == Frame(s, o)
           h == d.comps[c].h
           v == d.comps[c].v
           W == WidthInBlocks(d, c)
           H == HeightInBlocks(d, c)
           RW == RoundUp(W, h)
           RH == RoundUp(H, v)
           SW == Ceil(i.width, i.imcuW) * h
           SH == Ceil(i.height, i.imcuH) * v
           V == IF o.transform \in Turning THEN RW ELSE W
<1>1. Fits(fr.width, i.width, i.x, i.imcuW, h) /\ Fits(fr.height, i.height, i.y, i.imcuH, v)
  BY AxesFit
<1>2. W = Kept(i.width, i.imcuW, h) /\ H = Kept(i.height, i.imcuH, v)
  BY SizeInBlocks
<1>3. WorkspaceOf(s, o, i, c) = Grid(SW, SH)
  BY WorkspaceIsWhole
<1>4. Written(d, o, c) = Grid(V, RH) /\ Visible(d, c) = Grid(W, H) /\ ArrayOf(d, c) = Grid(RW, RH)
  BY DEF Written, Visible, ArrayOf
<1> HIDE DEF i, fr, h, v, W, H
<1>5. W \in Nat /\ RW \in Nat /\ W <= RW /\ H \in Nat /\ RH \in Nat /\ H <= RH
  BY <1>1, <1>2, Blocks DEF Kept, Fits
<1>6. \A k \in Nat : (k < RW => k < SW) /\ (k < RH => k < SH)
  BY <1>1, <1>2, WorkspaceHolds DEF Fits
<1>7. SW \in Nat /\ SH \in Nat
  <2>1. Ceil(i.width, i.imcuW) \in Nat /\ Ceil(i.height, i.imcuH) \in Nat /\ h \in Nat /\ v \in Nat
    BY <1>1, CeilBounds DEF Fits
  <2>2. QED
    BY <2>1
<1> HIDE DEF RW, RH, SW, SH
<1>8. V \in Nat /\ W <= V /\ V <= RW
  BY <1>5
<1> HIDE DEF V
<1>9. Grid(V, RH) \subseteq Grid(SW, SH)
  BY <1>5, <1>6, <1>7, <1>8 DEF Grid
<1>10. Grid(W, H) \subseteq Grid(V, RH) /\ Grid(V, RH) \subseteq Grid(RW, RH)
  BY <1>5, <1>8 DEF Grid
<1>11. QED
  BY <1>3, <1>4, <1>5, <1>9, <1>10 DEF W, H, RW, RH, h, v, i

\* What a component's array must be, whatever a transform does to it.
Sound(T, s, o, d, c) ==
  /\ \A q \in DOMAIN T : T[q].kind # "outside"
  /\ \A q \in Visible(d, c) : q \in DOMAIN T /\ T[q] = PlaceBlock(s, o, d, c, q[1], q[2])

LEMMA WorkspaceIsSound ==
  ASSUME NEW s, NEW o, NEW d, IsPicture(s), Workable(s, o, d), NEW c \in DOMAIN d.comps,
         NeedsWorkspace(o, InfoOf(s, o))
  PROVE  Sound(Transformed(s, d, o, InfoOf(s, o), c), s, o, d, c)
<1> DEFINE i == InfoOf(s, o)
           T == Transformed(s, d, o, i, c)
           a == AreaOf(s, d, o, i, c)
           W == WorkspaceOf(s, o, i, c)
           value(q) == IF q \in Written(d, o, c)
                         THEN Fetch(s.coefs[c], CellOf(o.transform, a, q[1], q[2])) ELSE Garbage
<1>1. T = [q \in W |-> value(q)]
  BY DEF Transformed
<1>2. /\ Written(d, o, c) \subseteq W /\ Visible(d, c) \subseteq Written(d, o, c)
      /\ Written(d, o, c) \subseteq ArrayOf(d, c)
      /\ RoundUp(WidthInBlocks(d, c), d.comps[c].h) \in Nat
      /\ RoundUp(HeightInBlocks(d, c), d.comps[c].v) \in Nat
  BY WrittenInWorkspace
<1>3. ASSUME NEW q \in Written(d, o, c)
      PROVE  value(q) = PlaceBlock(s, o, d, c, q[1], q[2]) /\ value(q).kind \in {"real", "padding"}
  <2>1. q \in ArrayOf(d, c)
    BY <1>2
  <2>2. /\ q[1] \in Nat /\ q[1] < RoundUp(WidthInBlocks(d, c), d.comps[c].h)
        /\ q[2] \in Nat /\ q[2] < RoundUp(HeightInBlocks(d, c), d.comps[c].v)
    BY <1>2, <2>1 DEF ArrayOf, Grid
  <2>3. QED
    BY <1>3, <2>2, FetchInside
<1>4. ASSUME NEW q, q \notin Written(d, o, c) PROVE value(q).kind = "garbage"
  BY <1>4 DEF Garbage
<1> HIDE DEF T, W, value
<1>5. \A q \in W : T[q].kind # "outside"
  BY <1>1, <1>3, <1>4
<1>6. \A q \in Visible(d, c) : q \in W /\ T[q] = PlaceBlock(s, o, d, c, q[1], q[2])
  BY <1>1, <1>2, <1>3
<1>7. QED
  BY <1>1, <1>5, <1>6 DEF Sound, T

\* The source's own array is kept as it is.
LEMMA OwnArrayIsSound ==
  ASSUME NEW s, NEW o, NEW d, IsPicture(s), Workable(s, o, d), NEW c \in DOMAIN d.comps,
         o.transform = "none", ~NeedsWorkspace(o, InfoOf(s, o))
  PROVE  Sound(Transformed(s, d, o, InfoOf(s, o), c), s, o, d, c)
<1> DEFINE i == InfoOf(s, o)
           T == Transformed(s, d, o, i, c)
           a == s.coefs[c]
<1>1. T = a
  BY DEF Transformed
<1>2. c \in DOMAIN s.comps /\ IsHeader(s)
  BY Geometry DEF Workable, Granted
<1>3. /\ a \in [ArrayOf(s, c) -> RealBlocks \cup {Padding}]
      /\ \A q \in Visible(s, c) : a[q] \in RealBlocks
      /\ Visible(s, c) \subseteq ArrayOf(s, c)
  BY <1>2, ShownInArray DEF IsPicture
<1>4. ASSUME NEW q \in DOMAIN a PROVE a[q].kind # "outside"
  <2>1. a[q] \in RealBlocks \cup {Padding}
    BY <1>3
  <2>2. QED
    BY <2>1 DEF RealBlocks, Padding
<1>5. ASSUME NEW q \in Visible(d, c)
      PROVE  q \in DOMAIN a /\ a[q] = PlaceBlock(s, o, d, c, q[1], q[2])
  <2> DEFINE x == q[1]
             y == q[2]
             cell == PlaceOf(s, o, d, c, x, y)
  <2>1. WidthInBlocks(d, c) \in Nat /\ HeightInBlocks(d, c) \in Nat
    BY WrittenInWorkspace
  <2>2. x \in Nat /\ x < WidthInBlocks(d, c) /\ y \in Nat /\ y < HeightInBlocks(d, c) /\ q = <<x, y>>
    BY <1>5, <2>1 DEF Visible, Grid
  <2>3. i.x = 0 /\ i.y = 0
    BY DEF NeedsWorkspace
  <2>4. d.comps[c].h \in Nat /\ d.comps[c].v \in Nat
    BY AxesFit
  <2>5. i.x * d.comps[c].h + x = x /\ i.y * d.comps[c].v + y = y
    <3> HIDE DEF i, x, y
    <3>1. QED
      BY <2>2, <2>3, <2>4
  <2>6. MirrorsX(o.transform) = FALSE /\ MirrorsY(o.transform) = FALSE /\ o.transform \notin Turning
    BY DEF MirrorsX, MirrorsY, Turning
  <2>7. PlaceX(s, o, d, c, x) = x /\ PlaceY(s, o, d, c, y) = y
    BY <2>5, <2>6 DEF PlaceX, PlaceY, Opposite
  <2>8. MirroredX(s, o, d, c, x) = FALSE /\ MirroredY(s, o, d, c, y) = FALSE
    BY <2>6 DEF MirroredX, MirroredY
  <2>9. cell = Cell(x, y, FALSE, FALSE, FALSE)
    BY <2>6, <2>7, <2>8, Zenon DEF PlaceOf
  <2>10. <<cell.x, cell.y>> \in Visible(s, c)
    BY <2>2, PlaceInside
  <2>11. cell.x = x /\ cell.y = y /\ cell.turn = FALSE /\ cell.cols = FALSE /\ cell.rows = FALSE
    BY <2>9 DEF Cell
  <2>12. q \in Visible(s, c)
    BY <2>2, <2>10, <2>11
  <2>13. PlaceBlock(s, o, d, c, x, y) = Moved(a[q], FALSE, FALSE, FALSE)
    <3> HIDE DEF cell
    <3>1. PlaceBlock(s, o, d, c, x, y)
            = Moved(a[<<cell.x, cell.y>>], cell.turn, cell.cols, cell.rows)
      BY DEF PlaceBlock, cell
    <3>2. QED
      BY <2>2, <2>11, <3>1
  <2>14. QED
    BY <1>3, <2>12, <2>13, NotMoved
<1> HIDE DEF T, a
<1>6. QED
  BY <1>1, <1>4, <1>5, Zenon DEF Sound, T

\* A row that is mirrored in place, and the block of it that do_flip_h_no_crop moves left.
MirroredRows(coefs, w, rows) ==
  [p \in DOMAIN coefs |->
     IF p[2] < rows /\ p[1] < w
       THEN Fetch(coefs, Cell(w - p[1] - 1, p[2], FALSE, TRUE, FALSE)) ELSE coefs[p]]

\* What becomes of a block in a row that is mirrored.
MirroredBlock(b) == Moved(b, FALSE, TRUE, FALSE)

Swapped(m, a, A, D, w, rows) ==
  /\ m \in [Grid(A, D) -> RealBlocks \cup {Padding}]
  /\ \A x \in 0 .. A - 1, y \in 0 .. D - 1 :
       /\ y < rows /\ x < w =>
            /\ <<w - 1 - x, y>> \in Grid(A, D)
            /\ m[<<x, y>>] = MirroredBlock(a[<<w - 1 - x, y>>])
       /\ ~(y < rows /\ x < w) => m[<<x, y>>] = a[<<x, y>>]

LEMMA RowsAreSwapped ==
  ASSUME NEW A \in Nat, NEW D \in Nat, NEW w \in Nat, NEW rows \in Nat, w <= A,
         NEW a \in [Grid(A, D) -> RealBlocks \cup {Padding}]
  PROVE  Swapped(MirroredRows(a, w, rows), a, A, D, w, rows)
<1> DEFINE m == MirroredRows(a, w, rows)
           G == Grid(A, D)
<1>1. DOMAIN a = G /\ DOMAIN m = G
  BY DEF MirroredRows
<1>2. ASSUME NEW x \in 0 .. A - 1, NEW y \in 0 .. D - 1
      PROVE  /\ <<x, y>> \in G
             /\ y < rows /\ x < w =>
                  /\ <<w - 1 - x, y>> \in G
                  /\ m[<<x, y>>] = MirroredBlock(a[<<w - 1 - x, y>>])
             /\ ~(y < rows /\ x < w) => m[<<x, y>>] = a[<<x, y>>]
  <2>1. <<x, y>> \in G
    BY DEF Grid
  <2>2. CASE y < rows /\ x < w
    <3> DEFINE z == w - x - 1
    <3>1. z \in 0 .. A - 1 /\ z = w - 1 - x
      BY <2>2
    <3>2. <<z, y>> \in G
      BY <3>1 DEF Grid
    <3>3. m[<<x, y>>] = Fetch(a, Cell(z, y, FALSE, TRUE, FALSE))
      BY <1>1, <2>1, <2>2 DEF MirroredRows
    <3> HIDE DEF z, G
    <3>4. Fetch(a, Cell(z, y, FALSE, TRUE, FALSE)) = MirroredBlock(a[<<z, y>>])
      BY <1>1, <3>2 DEF Fetch, Cell, MirroredBlock
    <3>5. QED
      BY <2>1, <2>2, <3>1, <3>2, <3>3, <3>4
  <2>3. CASE ~(y < rows /\ x < w)
    BY <1>1, <2>1, <2>3 DEF MirroredRows
  <2>4. QED
    BY <2>1, <2>2, <2>3
<1>3. ASSUME NEW q \in G PROVE m[q] \in RealBlocks \cup {Padding}
  <2>1. PICK x \in 0 .. A - 1, y \in 0 .. D - 1 : q = <<x, y>>
    BY <1>3 DEF Grid
  <2>2. CASE y < rows /\ x < w
    <3> DEFINE b == a[<<w - 1 - x, y>>]
    <3>1. m[q] = MirroredBlock(b) /\ <<w - 1 - x, y>> \in G
      BY <1>2, <2>1, <2>2
    <3>2. b \in RealBlocks \cup {Padding}
      BY <3>1
    <3> HIDE DEF b
    <3>3. CASE b \in RealBlocks
      <4>1. MirroredBlock(b) \in RealBlocks
        BY <3>3, MovedBlock DEF MirroredBlock
      <4>2. QED
        BY <3>1, <4>1
    <3>4. CASE b = Padding
      BY <3>1, <3>4 DEF MirroredBlock, Moved, Padding
    <3>5. QED
      BY <3>2, <3>3, <3>4
  <2>3. CASE ~(y < rows /\ x < w)
    <3>1. m[q] = a[q]
      BY <1>2, <2>1, <2>3
    <3>2. QED
      BY <1>3, <3>1
  <2>4. QED
    BY <2>2, <2>3
<1>4. m \in [G -> RealBlocks \cup {Padding}]
  BY <1>1, <1>3 DEF MirroredRows
<1>5. QED
  BY <1>2, <1>4 DEF Swapped

\* Mirrored in place, and moved to the left.
LEMMA FlippedInPlace ==
  ASSUME NEW s, NEW o, NEW d, IsPicture(s), Workable(s, o, d), NEW c \in DOMAIN d.comps,
         o.transform = "flip_h", ~NeedsWorkspace(o, InfoOf(s, o))
  PROVE  Sound(Transformed(s, d, o, InfoOf(s, o), c), s, o, d, c)
<1> DEFINE i == InfoOf(s, o)
           fr == Frame(s, o)
           a == s.coefs[c]
           A == RoundUp(WidthInBlocks(s, c), s.comps[c].h)
           D == RoundUp(HeightInBlocks(s, c), s.comps[c].v)
           G == Grid(A, D)
           h == d.comps[c].h
           area == AreaOf(s, d, o, i, c)
           w == area.w
           at == area.x
           rows == RoundUp(HeightInBlocks(d, c), area.v)
           m == MirroredRows(a, w, rows)
           W == WidthInBlocks(d, c)
           T == Transformed(s, d, o, i, c)
<1>1. T = IF at = 0 THEN m
          ELSE [p \in DOMAIN a |-> IF p[2] < rows /\ p[1] < W
                                     THEN Fetch(m, Cell(p[1] + at, p[2], FALSE, FALSE, FALSE)) ELSE m[p]]
  BY DEF Transformed, InPlace, MirroredRows
<1>2. i.y = 0 /\ o.transform \notin Turning /\ MirrorsX(o.transform) = TRUE /\ MirrorsY(o.transform) = FALSE
  BY DEF NeedsWorkspace, Turning, MirrorsX, MirrorsY
<1>3. c \in DOMAIN s.comps /\ IsHeader(s)
  BY Geometry DEF Workable, Granted
<1>4. /\ a \in [G -> RealBlocks \cup {Padding}]
      /\ \A q \in Visible(s, c) : a[q] \in RealBlocks
      /\ Visible(s, c) \subseteq G
      /\ WidthInBlocks(s, c) \in Nat /\ HeightInBlocks(s, c) \in Nat
  <2>1. Visible(s, c) \subseteq ArrayOf(s, c) /\ WidthInBlocks(s, c) \in Nat /\ HeightInBlocks(s, c) \in Nat
    BY <1>3, ShownInArray
  <2>2. QED
    BY <1>3, <2>1 DEF IsPicture, ArrayOf
<1>5. A \in Nat /\ D \in Nat /\ WidthInBlocks(s, c) <= A
  <2>1. s.comps[c].h \in 1 .. 4 /\ s.comps[c].v \in 1 .. 4
    BY <1>3, Sampling DEF IsHeader
  <2>2. s.comps[c].h \in Nat \ {0} /\ s.comps[c].v \in Nat \ {0}
    BY <2>1
  <2>3. QED
    BY <1>4, <2>2, RoundedUp
<1>6. /\ Fits(fr.width, i.width, i.x, i.imcuW, h)
      /\ WidthInBlocks(s, c) = All(fr.width, i.imcuW, h)
      /\ W = Kept(i.width, i.imcuW, h)
      /\ area.v = d.comps[c].v /\ at = i.x * h /\ w = Whole(fr.width, i.imcuW, h)
      /\ d.comps[c].v \in Nat
  <2>1. Fits(fr.width, i.width, i.x, i.imcuW, h) /\ d.comps[c].v \in Nat
    BY AxesFit
  <2>2. Across(s, o, c) = All(fr.width, i.imcuW, h) /\ i.imcuW = MaxH(d) * BlockSize
    BY Geometry DEF Workable, Granted
  <2>3. Across(s, o, c) = WidthInBlocks(s, c) /\ fr.width = s.width
    BY <1>2 DEF Across, Frame
  <2>4. W = Kept(i.width, i.imcuW, h)
    BY SizeInBlocks
  <2> HIDE DEF i, fr
  <2>5. area.v = d.comps[c].v /\ at = i.x * h /\ w = Whole(fr.width, i.imcuW, h)
    BY <1>2, <2>2, <2>3 DEF AreaOf, Whole
  <2>6. QED
    BY <2>1, <2>2, <2>3, <2>4, <2>5
<1>7. at \in Nat /\ w \in Nat /\ w <= WidthInBlocks(s, c)
  <2> HIDE DEF i, fr, at, w
  <2>1. at \in Nat
    BY <1>6 DEF Fits
  <2>2. w \in Nat /\ w <= WidthInBlocks(s, c)
    BY <1>6, OppositeInside
  <2>3. QED
    BY <2>1, <2>2
<1>8. ASSUME NEW x \in Nat, x < W PROVE at + x \in Nat /\ at + x < WidthInBlocks(s, c)
  <2> HIDE DEF i, fr, at, w, W
  <2>1. QED
    BY <1>6, <1>7, <1>8, AreaInside
<1>9. rows \in Nat /\ HeightInBlocks(d, c) <= rows /\ W \in Nat /\ HeightInBlocks(d, c) \in Nat
  <2>1. /\ W \in Nat /\ HeightInBlocks(d, c) \in Nat
        /\ RoundUp(HeightInBlocks(d, c), d.comps[c].v) \in Nat /\ d.comps[c].v \in Nat \ {0}
    BY WrittenInWorkspace, AxesFit
  <2>2. HeightInBlocks(d, c) <= RoundUp(HeightInBlocks(d, c), d.comps[c].v)
    BY <2>1, RoundedUp
  <2>3. QED
    BY <1>6, <2>1, <2>2
<1> HIDE DEF i, fr, area, at, w, a, rows, A, D, W, m, T, h
<1>10. /\ m \in [G -> RealBlocks \cup {Padding}]
       /\ \A x \in 0 .. A - 1, y \in 0 .. D - 1 :
            /\ y < rows /\ x < w =>
                 /\ <<w - 1 - x, y>> \in Grid(A, D)
                 /\ m[<<x, y>>] = MirroredBlock(a[<<w - 1 - x, y>>])
            /\ ~(y < rows /\ x < w) => m[<<x, y>>] = a[<<x, y>>]
  <2>1. w <= A
    BY <1>4, <1>5, <1>7
  <2>2. Swapped(m, a, A, D, w, rows)
    BY <1>4, <1>5, <1>7, <1>9, <2>1, RowsAreSwapped, Zenon DEF m
  <2>3. QED
    BY <2>2, Zenon DEF Swapped
<1>11. /\ DOMAIN a = G /\ DOMAIN m = G /\ DOMAIN T = G
       /\ at = 0 => T = m
       /\ at # 0 => \A q \in G : T[q] = IF q[2] < rows /\ q[1] < W
                                          THEN Fetch(m, Cell(q[1] + at, q[2], FALSE, FALSE, FALSE))
                                          ELSE m[q]
  <2>1. DOMAIN a = G /\ DOMAIN m = G
    BY <1>4, <1>10
  <2> HIDE DEF G
  <2>2. CASE at = 0
    BY <1>1, <2>1, <2>2
  <2>3. CASE at # 0
    BY <1>1, <2>1, <2>3
  <2>4. QED
    BY <2>2, <2>3
<1>12. ASSUME NEW x \in Nat, NEW y \in Nat, x < W, y < rows, y < D, at # 0
       PROVE  /\ <<at + x, y>> \in G
              /\ T[<<x, y>>] = Moved(m[<<at + x, y>>], FALSE, FALSE, FALSE)
  <2>1. x + at = at + x /\ x \in 0 .. A - 1 /\ at + x \in 0 .. A - 1
    BY <1>4, <1>5, <1>7, <1>8, <1>12
  <2>2. <<x, y>> \in G /\ <<at + x, y>> \in G
    BY <1>5, <1>12, <2>1 DEF Grid
  <2> DEFINE k == at + x
  <2> HIDE DEF G, k
  <2>3. T[<<x, y>>] = Fetch(m, Cell(x + at, y, FALSE, FALSE, FALSE))
    BY <1>11, <1>12, <2>2
  <2>4. T[<<x, y>>] = Fetch(m, Cell(k, y, FALSE, FALSE, FALSE))
    BY <2>1, <2>3 DEF k
  <2>5. Fetch(m, Cell(k, y, FALSE, FALSE, FALSE)) = Moved(m[<<k, y>>], FALSE, FALSE, FALSE)
    BY <1>11, <2>2 DEF Fetch, Cell, k
  <2>6. QED
    BY <2>2, <2>4, <2>5 DEF k
<1>13. ASSUME NEW q \in DOMAIN T PROVE T[q].kind # "outside"
  <2>1. PICK x \in 0 .. A - 1, y \in 0 .. D - 1 : q = <<x, y>>
    BY <1>11, <1>13 DEF Grid
  <2>2. ASSUME NEW b \in RealBlocks \cup {Padding}
        PROVE  b.kind # "outside" /\ Moved(b, FALSE, FALSE, FALSE).kind # "outside"
    <3>1. CASE b \in RealBlocks
      BY <3>1, NotMoved DEF RealBlocks
    <3>2. CASE b = Padding
      BY <3>2 DEF Moved, Padding
    <3>3. QED
      BY <3>1, <3>2
  <2>3. x \in Nat /\ y \in Nat /\ y < D /\ q \in G
    BY <1>5, <1>11, <1>13, <2>1
  <2> HIDE DEF G
  <2>4. CASE at # 0 /\ y < rows /\ x < W
    <3>1. T[q] = Moved(m[<<at + x, y>>], FALSE, FALSE, FALSE) /\ <<at + x, y>> \in G
      BY <1>12, <2>1, <2>3, <2>4
    <3>2. m[<<at + x, y>>] \in RealBlocks \cup {Padding}
      BY <1>10, <3>1 DEF G
    <3>3. QED
      BY <2>2, <3>1, <3>2
  <2>5. CASE ~(at # 0 /\ y < rows /\ x < W)
    <3>1. T[q] = m[q]
      BY <1>11, <2>1, <2>3, <2>5
    <3>2. m[q] \in RealBlocks \cup {Padding}
      BY <1>10, <2>3 DEF G
    <3>3. QED
      BY <2>2, <3>1, <3>2
  <2>6. QED
    BY <2>4, <2>5
<1>14. ASSUME NEW q \in Visible(d, c)
       PROVE  q \in DOMAIN T /\ T[q] = PlaceBlock(s, o, d, c, q[1], q[2])
  <2> DEFINE x == q[1]
             y == q[2]
             k == at + x
             X == FromEnd(k, w)
             cell == PlaceOf(s, o, d, c, x, y)
             place == PlaceBlock(s, o, d, c, x, y)
  <2>1. x \in Nat /\ x < W /\ y \in Nat /\ y < HeightInBlocks(d, c) /\ q = <<x, y>>
    BY <1>9, <1>14 DEF Visible, Grid, W
  <2>2. i.y * d.comps[c].v + y = y
    <3> HIDE DEF y
    <3>1. QED
      BY <1>2, <1>6, <2>1 DEF i
  <2>3. PlaceY(s, o, d, c, y) = y /\ PlaceX(s, o, d, c, x) = X
    BY <1>2, <1>6, <2>2 DEF PlaceX, PlaceY, Opposite, FromEnd, i, fr, h, at, w
  <2>4. /\ MirroredY(s, o, d, c, y) = FALSE
        /\ MirroredX(s, o, d, c, x) <=> k < w
        /\ MirroredX(s, o, d, c, x) \in BOOLEAN
    BY <1>2, <1>6 DEF MirroredX, MirroredY, i, fr, h, at, w
  <2>5. /\ cell.x = X /\ cell.y = y /\ cell.turn = FALSE /\ cell.rows = FALSE
        /\ cell.cols = MirroredX(s, o, d, c, x)
    BY <1>2, <2>3, <2>4 DEF PlaceOf, Cell
  <2>6. <<X, y>> \in Visible(s, c)
    <3>1. <<cell.x, cell.y>> \in Visible(s, c)
      BY <2>1, PlaceInside DEF W
    <3> HIDE DEF X, y, cell
    <3>2. QED
      BY <2>5, <3>1
  <2>7. place \in RealBlocks
    BY <2>1, PlaceBlockIsReal DEF W
  <2>8. place = Moved(a[<<X, y>>], FALSE, MirroredX(s, o, d, c, x), FALSE)
    <3>1. place = Moved(a[<<cell.x, cell.y>>], cell.turn, cell.cols, cell.rows)
      BY DEF PlaceBlock, a
    <3> HIDE DEF X, y, cell, place
    <3>2. QED
      BY <2>5, <3>1
  <2>9. x \in 0 .. A - 1 /\ y \in 0 .. D - 1 /\ k \in 0 .. A - 1 /\ y < rows
    <3>1. <<X, y>> \in Grid(A, D)
      BY <1>4, <2>6
    <3>2. y \in 0 .. D - 1
      BY <1>5, <3>1 DEF Grid
    <3>3. k \in Nat /\ k < WidthInBlocks(s, c)
      BY <1>8, <2>1
    <3> HIDE DEF x, y
    <3>4. QED
      BY <1>4, <1>5, <1>7, <1>9, <2>1, <3>2, <3>3
  <2> HIDE DEF x, y, X, cell, place
  <2>10. m[<<k, y>>] = place
    <3>1. CASE k < w
      <4>1. X = w - 1 - k /\ MirroredX(s, o, d, c, x) = TRUE
        BY <2>4, <3>1 DEF FromEnd, X
      <4>2. m[<<k, y>>] = MirroredBlock(a[<<w - 1 - k, y>>])
        BY <1>10, <2>9, <3>1
      <4>3. QED
        BY <2>8, <4>1, <4>2 DEF MirroredBlock
    <3>2. CASE ~(k < w)
      <4>1. X = k /\ MirroredX(s, o, d, c, x) = FALSE
        BY <2>4, <3>2 DEF FromEnd, X
      <4>2. m[<<k, y>>] = a[<<k, y>>]
        BY <1>10, <2>9, <3>2
      <4>3. place = Moved(a[<<k, y>>], FALSE, FALSE, FALSE)
        BY <2>8, <4>1
      <4>4. a[<<k, y>>] \in RealBlocks
        BY <1>4, <2>6, <4>1
      <4>5. QED
        BY <4>2, <4>3, <4>4, NotMoved
    <3>3. QED
      BY <3>1, <3>2
  <2>11. q \in DOMAIN T
    BY <1>11, <2>1, <2>9 DEF Grid
  <2>12. CASE at = 0
    <3>1. k = x
      BY <2>1, <2>12
    <3>2. QED
      BY <1>11, <2>1, <2>10, <2>11, <2>12, <3>1 DEF place, x, y
  <2>13. CASE at # 0
    <3>1. T[q] = Moved(m[<<k, y>>], FALSE, FALSE, FALSE)
      <4>1. x \in Nat /\ y \in Nat /\ x < W /\ y < rows /\ y < D
        BY <1>5, <2>1, <2>9
      <4>2. T[<<x, y>>] = Moved(m[<<at + x, y>>], FALSE, FALSE, FALSE)
        BY <1>12, <2>13, <4>1
      <4>3. QED
        BY <2>1, <4>2
    <3>2. T[q] = place
      BY <2>7, <2>10, <3>1, NotMoved
    <3>3. QED
      BY <2>11, <3>2 DEF place, x, y
  <2>14. QED
    BY <2>12, <2>13
<1>15. QED
  BY <1>13, <1>14, Zenon DEF Sound, T, i

\* The three ways to make the destination's arrays agree on what they hold.
LEMMA ArraysAreSound ==
  ASSUME NEW s, NEW o, NEW d, IsPicture(s), Workable(s, o, d), NEW c \in DOMAIN d.comps
  PROVE  Sound(Transformed(s, d, o, InfoOf(s, o), c), s, o, d, c)
<1>1. CASE NeedsWorkspace(o, InfoOf(s, o))
  BY <1>1, WorkspaceIsSound
<1>2. CASE ~NeedsWorkspace(o, InfoOf(s, o))
  <2>1. o.transform \in {"none", "flip_h"}
    BY <1>2 DEF NeedsWorkspace
  <2>2. QED
    BY <1>2, <2>1, OwnArrayIsSound, FlippedInPlace
<1>3. QED
  BY <1>1, <1>2

-----------------------------------------------------------------------------
(* The inductive invariant *)

Requested == stage \in {"requested", "adjusted"} \/ Done
Answered == stage = "adjusted" \/ Done

\* What is read is a picture, whatever was done to it before.
Pictured == IsPicture(file) /\ IsPicture(source)

\* While a run works, the file is still what it reads.
Reading == stage \in {"requested", "adjusted"} => source = file

\* The workspace was requested for this picture and these switches, and granted.
Asked ==
  Requested => /\ options \in Options /\ info = InfoOf(source, options)
               /\ options.perfect => PerfectTransform(source, options)
               /\ CropValid(options, Frame(source, options))

\* The destination's header is the one that was asked for.
Headed ==
  Answered => /\ options.gray => CanBeGray(source)
              /\ HeaderOf(dst, source, options) /\ IsHeader(dst)
              /\ dst.turned = DstTurned(source, options)

\* What was written last is what the run made of its source.
AsMade ==
  Done => /\ file.width = dst.width /\ file.height = dst.height /\ file.comps = dst.comps
          /\ file.coefs = [c \in DOMAIN dst.comps |->
                             Encoded(dst, Transformed(source, dst, options, info, c), c)]

TransformInv ==
  /\ stage \in {"file", "requested", "adjusted", "refused", "failed"} /\ runs \in 0 .. Runs
  /\ Pictured /\ Reading /\ Asked /\ Headed /\ AsMade

LEMMA OptionsAreSwitches ==
  ASSUME NEW o \in Options
  PROVE  IsSwitches(o)
<1>1. /\ o.transform \in Transforms /\ {o.trim, o.perfect, o.gray, o.crop.on} \subseteq BOOLEAN
      /\ {o.crop.width, o.crop.height} \subseteq Nat \cup {Unset}
      /\ {o.crop.x, o.crop.y} \subseteq Nat
  BY TransformAssumption
<1>2. QED
  BY <1>1 DEF IsSwitches

LEMMA PicturesHaveHeaders ==
  ASSUME NEW p \in Pictures
  PROVE  IsHeader(p)
BY TransformAssumption DEF IsHeader, Factors

\* The blocks of a picture depend on its header only.
LEMMA SameHeader ==
  ASSUME NEW p, NEW q, p.width = q.width, p.height = q.height, p.comps = q.comps
  PROVE  \A c : Visible(p, c) = Visible(q, c) /\ ArrayOf(p, c) = ArrayOf(q, c)
<1>1. MaxH(p) = MaxH(q) /\ MaxV(p) = MaxV(q)
  BY DEF MaxH, MaxV
<1>2. TAKE c
<1>3. WidthInBlocks(p, c) = WidthInBlocks(q, c) /\ HeightInBlocks(p, c) = HeightInBlocks(q, c)
  BY <1>1 DEF WidthInBlocks, HeightInBlocks
<1>4. QED
  BY <1>3 DEF Visible, ArrayOf

\* The header of the destination is one that the next run can read.
LEMMA HeaderIsHeader ==
  ASSUME NEW p, NEW o, NEW d, Workable(p, o, d), d.space = IF o.gray THEN "gray" ELSE p.space
  PROVE  IsHeader(d)
<1> DEFINE i == InfoOf(p, o)
<1>1. IsHeader(p) /\ IsSwitches(o) /\ CropValid(o, Frame(p, o)) /\ (o.gray => CanBeGray(p))
  BY DEF Workable, Granted
<1>2. d.comps \in Seq(Factors) /\ d.comps # <<>>
  BY Geometry DEF Workable, Granted
<1>3. d.width \in Nat \ {0} /\ d.height \in Nat \ {0}
  <2>1. i.width \in Nat \ {0} /\ i.height \in Nat \ {0}
    BY <1>1, CropFits DEF Fits
  <2>2. QED
    BY <2>1 DEF Workable, HeaderOf
<1>4. DOMAIN p.comps = 1 .. Len(p.comps) /\ Len(p.comps) \in Nat \ {0}
  BY <1>1, Sampling DEF IsHeader
<1>5. DOMAIN d.comps = 1 .. Len(d.comps) /\ Len(d.comps) \in Nat \ {0}
  BY <1>2, Sampling
<1>6. DOMAIN d.comps = 1 .. NumComponents(p, o) /\ NumComponents(p, o) \in Nat
  <2> DEFINE one == [h |-> 1, v |-> 1]
             kept == IF i.comps = 1 THEN <<one>> ELSE p.comps
  <2>1. i.comps = NumComponents(p, o)
    BY DEF InfoOf
  <2>2. DOMAIN d.comps = DOMAIN kept
    <3>1. d.comps = DstComps(p, o, i)
      BY DEF Workable, HeaderOf
    <3> HIDE DEF i
    <3>2. QED
      BY <3>1 DEF DstComps
  <2>3. NumComponents(p, o) # 1 => NumComponents(p, o) = Len(p.comps)
    BY DEF NumComponents
  <2>4. DOMAIN <<one>> = 1 .. 1
    OBVIOUS
  <2> HIDE DEF i
  <2>5. CASE NumComponents(p, o) = 1
    <3>1. DOMAIN d.comps = 1 .. 1
      BY <2>1, <2>2, <2>4, <2>5
    <3>2. QED
      BY <2>5, <3>1
  <2>6. CASE NumComponents(p, o) # 1
    BY <1>4, <2>1, <2>2, <2>3, <2>6
  <2>7. QED
    BY <2>5, <2>6
<1>7. Len(d.comps) = NumComponents(p, o)
  <2> DEFINE m == Len(d.comps)
             n == NumComponents(p, o)
  <2>1. 1 .. m = 1 .. n /\ m \in Nat /\ n \in Nat
    BY <1>5, <1>6
  <2> HIDE DEF m, n
  <2>2. QED
    BY <2>1 DEF m, n
<1>8. d.space = "gray" <=> Len(d.comps) = 1
  <2>1. CASE o.gray
    <3>1. NumComponents(p, o) = 1
      BY <1>1, <2>1 DEF CanBeGray, NumComponents, IsHeader
    <3>2. QED
      BY <1>7, <2>1, <3>1
  <2>2. CASE ~o.gray
    <3>1. NumComponents(p, o) = Len(p.comps) /\ d.space = p.space
      BY <2>2 DEF NumComponents
    <3>2. QED
      BY <1>1, <1>7, <3>1 DEF IsHeader
  <2>3. QED
    BY <2>1, <2>2
<1>9. QED
  BY <1>2, <1>3, <1>8 DEF IsHeader

LEMMA InitInv ==
  Init => TransformInv
<1> SUFFICES ASSUME Init PROVE TransformInv
  OBVIOUS
<1>1. PICK p \in Pictures :
        file = [width |-> p.width, height |-> p.height, space |-> p.space, comps |-> p.comps,
                turned |-> FALSE, markers |-> p.markers,
                exif |-> IF Contains(p.markers, "Exif") THEN <<p.width, p.height>> ELSE <<>>,
                coefs |-> [c \in DOMAIN p.comps |->
                             [q \in ArrayOf(p, c) |->
                                IF q \in Visible(p, c) THEN Block(q[1], q[2]) ELSE Padding]]]
  BY DEF Init
<1>2. /\ file.width = p.width /\ file.height = p.height /\ file.space = p.space
      /\ file.comps = p.comps /\ file.turned = FALSE
      /\ file.coefs = [c \in DOMAIN p.comps |->
                         [q \in ArrayOf(p, c) |->
                            IF q \in Visible(p, c) THEN Block(q[1], q[2]) ELSE Padding]]
  BY <1>1
<1>3. IsHeader(file) /\ IsHeader(p)
  BY <1>2, PicturesHaveHeaders DEF IsHeader
<1>4. ASSUME NEW c \in DOMAIN file.comps
      PROVE  /\ file.coefs[c] \in [ArrayOf(file, c) -> RealBlocks \cup {Padding}]
             /\ \A q \in Visible(file, c) :
                  file.coefs[c][q] \in RealBlocks /\ file.coefs[c][q].turned = FALSE
  <2>1. Visible(file, c) = Visible(p, c) /\ ArrayOf(file, c) = ArrayOf(p, c)
    BY <1>2, SameHeader
  <2>2. Visible(p, c) \subseteq ArrayOf(p, c) /\ WidthInBlocks(p, c) \in Nat /\ HeightInBlocks(p, c) \in Nat
    BY <1>2, <1>3, <1>4, ShownInArray
  <2>3. file.coefs[c] = [q \in ArrayOf(p, c) |->
                           IF q \in Visible(p, c) THEN Block(q[1], q[2]) ELSE Padding]
    BY <1>2, <1>4
  <2>4. ASSUME NEW q \in Visible(p, c)
        PROVE  Block(q[1], q[2]) \in RealBlocks /\ Block(q[1], q[2]).turned = FALSE
    <3>1. q[1] \in Nat /\ q[2] \in Nat
      BY <2>2, <2>4 DEF Visible, Grid
    <3>2. QED
      BY <3>1 DEF Block, RealBlocks
  <2>5. QED
    BY <2>1, <2>2, <2>3, <2>4
<1>5. IsPicture(file)
  <2>1. DOMAIN file.coefs = DOMAIN file.comps
    BY <1>2
  <2>2. QED
    BY <1>2, <1>3, <1>4, <2>1 DEF IsPicture
<1>6. stage = "file" /\ runs = 0 /\ source = file /\ Runs \in Nat
  BY TransformAssumption DEF Init
<1>7. QED
  BY <1>5, <1>6 DEF TransformInv, Pictured, Reading, Asked, Headed, AsMade, Requested, Answered, Done

LEMMA RequestStep ==
  TransformInv /\ Request => TransformInv'
<1> SUFFICES ASSUME TransformInv, Request PROVE TransformInv'
  OBVIOUS
<1>1. stage = "file" /\ runs < Runs /\ runs \in Nat /\ Runs \in Nat
  BY TransformAssumption DEF TransformInv, Request
<1>2. file' = file /\ source' = file /\ runs' = runs + 1 /\ stage' \in {"refused", "failed", "requested"}
  BY DEF Request
<1>3. Pictured'
  BY <1>2 DEF TransformInv, Pictured
<1>4. Asked'
  <2>1. SUFFICES ASSUME stage' = "requested"
                 PROVE  /\ options' \in Options /\ info' = InfoOf(source', options')
                        /\ options'.perfect => PerfectTransform(source', options')
                        /\ CropValid(options', Frame(source', options'))
    BY <1>2 DEF Asked, Requested, Done
  <2>2. options' \in Options
    BY TransformAssumption DEF Request
  <2>3. QED
    BY <1>2, <2>1, <2>2 DEF Request
<1>5. (Reading /\ Headed /\ AsMade)'
  BY <1>2 DEF Reading, Headed, AsMade, Answered, Done
<1>6. QED
  BY <1>1, <1>2, <1>3, <1>4, <1>5 DEF TransformInv

LEMMA AdjustStep ==
  TransformInv /\ Adjust => TransformInv'
<1> SUFFICES ASSUME TransformInv, Adjust PROVE TransformInv'
  OBVIOUS
<1>1. stage = "requested" /\ UNCHANGED <<file, source, options, info, runs>>
  BY DEF Adjust
<1>2. Pictured' /\ source' = file'
  BY <1>1 DEF TransformInv, Pictured, Reading
<1>3. /\ options \in Options /\ info = InfoOf(source, options)
      /\ options.perfect => PerfectTransform(source, options)
      /\ CropValid(options, Frame(source, options))
  BY <1>1 DEF TransformInv, Asked, Requested
<1>4. Asked'
  BY <1>1, <1>3 DEF Asked
<1>5. CASE stage' = "failed"
  BY <1>1, <1>2, <1>4, <1>5 DEF TransformInv, Reading, Headed, AsMade, Answered, Done
<1>6. CASE /\ options.gray => CanBeGray(source)
           /\ stage' = "adjusted"
           /\ dst'.width = info.width /\ dst'.height = info.height
           /\ dst'.space = (IF options.gray THEN "gray" ELSE source.space)
           /\ dst'.comps = DstComps(source, options, info)
           /\ dst'.turned = DstTurned(source, options)
  <2>1. HeaderOf(dst', source, options)
    BY <1>3, <1>6 DEF HeaderOf
  <2>2. IsHeader(source) /\ IsSwitches(options)
    BY <1>3, OptionsAreSwitches DEF TransformInv, Pictured, IsPicture
  <2>3. Workable(source, options, dst')
    BY <1>3, <1>6, <2>1, <2>2 DEF Workable, Granted
  <2>4. IsHeader(dst')
    BY <1>6, <2>3, HeaderIsHeader
  <2>5. Headed'
    BY <1>1, <1>6, <2>1, <2>4 DEF Headed
  <2>6. (Reading /\ AsMade)'
    BY <1>2, <1>6 DEF Reading, AsMade, Done
  <2>7. QED
    BY <1>1, <1>2, <1>4, <1>6, <2>5, <2>6 DEF TransformInv
<1>7. QED
  <2>1. \/ stage' = "failed"
        \/ /\ options.gray => CanBeGray(source)
           /\ stage' = "adjusted"
           /\ LET space == IF options.gray THEN "gray" ELSE source.space
              IN  dst' = [width |-> info.width, height |-> info.height, space |-> space,
                          comps |-> DstComps(source, options, info),
                          turned |-> DstTurned(source, options),
                          jfif |-> space # "RGB" /\ ~ExifFirst(source, options),
                          adobe |-> space = "RGB",
                          exif |-> NewExif(source, options, info)]
    BY DEF Adjust
  <2>2. QED
    BY <1>5, <1>6, <2>1

\* What is written shows the blocks of the source, each at its place.
LEMMA EncodedShows ==
  ASSUME NEW s, NEW o, NEW d, IsPicture(s), Workable(s, o, d), NEW c \in DOMAIN d.comps
  PROVE  LET e == Encoded(d, Transformed(s, d, o, InfoOf(s, o), c), c)
         IN  /\ e \in [ArrayOf(d, c) -> RealBlocks \cup {Padding}]
             /\ Visible(d, c) \subseteq ArrayOf(d, c)
             /\ \A q \in Visible(d, c) :
                  /\ q[1] \in Nat /\ q[2] \in Nat /\ q[1] < WidthInBlocks(d, c) /\ q[2] < HeightInBlocks(d, c)
                  /\ e[q] = PlaceBlock(s, o, d, c, q[1], q[2])
                  /\ e[q] \in RealBlocks /\ e[q].turned = DstTurned(s, o)
<1> DEFINE T == Transformed(s, d, o, InfoOf(s, o), c)
           e == Encoded(d, T, c)
<1>1. Sound(T, s, o, d, c)
  BY ArraysAreSound
<1>2. /\ Visible(d, c) \subseteq ArrayOf(d, c)
      /\ WidthInBlocks(d, c) \in Nat /\ HeightInBlocks(d, c) \in Nat
  BY WrittenInWorkspace
<1> HIDE DEF T
<1>3. /\ e = [p \in ArrayOf(d, c) |-> IF p \notin Visible(d, c) THEN Padding
                                      ELSE IF p \in DOMAIN T THEN T[p] ELSE Outside]
  BY DEF Encoded
<1>4. ASSUME NEW q \in Visible(d, c)
      PROVE  /\ q[1] \in Nat /\ q[2] \in Nat /\ q[1] < WidthInBlocks(d, c) /\ q[2] < HeightInBlocks(d, c)
             /\ e[q] = PlaceBlock(s, o, d, c, q[1], q[2])
             /\ e[q] \in RealBlocks /\ e[q].turned = DstTurned(s, o)
  <2>1. q[1] \in Nat /\ q[2] \in Nat /\ q[1] < WidthInBlocks(d, c) /\ q[2] < HeightInBlocks(d, c)
    BY <1>2, <1>4 DEF Visible, Grid
  <2>2. e[q] = T[q] /\ T[q] = PlaceBlock(s, o, d, c, q[1], q[2])
    BY <1>1, <1>2, <1>3, <1>4 DEF Sound
  <2>3. /\ PlaceBlock(s, o, d, c, q[1], q[2]) \in RealBlocks
        /\ PlaceBlock(s, o, d, c, q[1], q[2]).turned = DstTurned(s, o)
    BY <2>1, PlaceBlockIsReal
  <2>4. QED
    BY <2>1, <2>2, <2>3
<1> HIDE DEF e
<1>5. \A q \in ArrayOf(d, c) \ Visible(d, c) : e[q] = Padding
  BY <1>3
<1>6. e \in [ArrayOf(d, c) -> RealBlocks \cup {Padding}]
  <2>1. DOMAIN e = ArrayOf(d, c)
    BY <1>3
  <2>2. \A q \in ArrayOf(d, c) : e[q] \in RealBlocks \cup {Padding}
    BY <1>4, <1>5
  <2>3. e = [q \in ArrayOf(d, c) |-> e[q]]
    BY <1>3, <2>1
  <2>4. QED
    BY <2>2, <2>3
<1>7. QED
  BY <1>2, <1>4, <1>6 DEF e, T

\* What the invariant says of a run whose destination has its header.
LEMMA RunsAreWorkable ==
  ASSUME TransformInv, Answered
  PROVE  /\ IsPicture(source) /\ Workable(source, options, dst) /\ IsHeader(dst)
         /\ info = InfoOf(source, options) /\ options \in Options
         /\ dst.turned = DstTurned(source, options)
<1>1. Requested /\ IsPicture(source) /\ IsHeader(source)
  BY DEF Requested, Answered, TransformInv, Pictured, IsPicture
<1>2. /\ options \in Options /\ info = InfoOf(source, options)
      /\ options.perfect => PerfectTransform(source, options)
      /\ CropValid(options, Frame(source, options))
  BY <1>1 DEF TransformInv, Asked
<1>3. /\ options.gray => CanBeGray(source)
      /\ HeaderOf(dst, source, options) /\ IsHeader(dst)
      /\ dst.turned = DstTurned(source, options)
  BY DEF TransformInv, Headed
<1>4. QED
  BY <1>1, <1>2, <1>3, OptionsAreSwitches DEF Workable, Granted

LEMMA ExecuteStep ==
  TransformInv /\ Execute => TransformInv'
<1> SUFFICES ASSUME TransformInv, Execute PROVE TransformInv'
  OBVIOUS
<1> DEFINE e(c) == Encoded(dst, Transformed(source, dst, options, info, c), c)
<1>1. /\ stage = "adjusted" /\ stage' = "file"
      /\ UNCHANGED <<source, options, info, dst, runs>>
      /\ file'.width = dst.width /\ file'.height = dst.height /\ file'.space = dst.space
      /\ file'.comps = dst.comps /\ file'.turned = dst.turned
      /\ file'.coefs = [c \in DOMAIN dst.comps |-> e(c)]
  BY DEF Execute
<1>2. /\ IsPicture(source) /\ Workable(source, options, dst) /\ IsHeader(dst)
      /\ info = InfoOf(source, options) /\ options \in Options
      /\ dst.turned = DstTurned(source, options)
  BY <1>1, RunsAreWorkable DEF Answered
<1>3. IsPicture(file')
  <2>1. IsHeader(file')
    BY <1>1, <1>2 DEF IsHeader
  <2>2. \A c : Visible(file', c) = Visible(dst, c) /\ ArrayOf(file', c) = ArrayOf(dst, c)
    BY <1>1, SameHeader
  <2>3. ASSUME NEW c \in DOMAIN dst.comps
        PROVE  /\ e(c) \in [ArrayOf(dst, c) -> RealBlocks \cup {Padding}]
               /\ \A q \in Visible(dst, c) : e(c)[q] \in RealBlocks /\ e(c)[q].turned = dst.turned
    BY <1>2, EncodedShows
  <2>4. file'.turned \in BOOLEAN
    BY <1>1, <1>2 DEF DstTurned
  <2> HIDE DEF e
  <2>5. DOMAIN file'.coefs = DOMAIN file'.comps
    BY <1>1
  <2>6. ASSUME NEW c \in DOMAIN file'.comps
        PROVE  /\ file'.coefs[c] \in [ArrayOf(file', c) -> RealBlocks \cup {Padding}]
               /\ \A q \in Visible(file', c) :
                    file'.coefs[c][q] \in RealBlocks /\ file'.coefs[c][q].turned = file'.turned
    <3>1. file'.coefs[c] = e(c) /\ c \in DOMAIN dst.comps
      BY <1>1, <2>6
    <3>2. QED
      BY <1>1, <2>2, <2>3, <3>1
  <2>7. QED
    BY <2>1, <2>4, <2>5, <2>6 DEF IsPicture
<1>4. (Pictured /\ Reading)'
  BY <1>1, <1>2, <1>3 DEF Pictured, Reading
<1>5. (Asked /\ Headed)'
  BY <1>1 DEF TransformInv, Asked, Headed, Requested, Answered
<1>6. AsMade'
  BY <1>1 DEF AsMade
<1>7. QED
  BY <1>1, <1>4, <1>5, <1>6 DEF TransformInv

\* The pictures that are read and written are pictures, made as their headers say.
THEOREM Invariance == Spec => []TransformInv
<1>1. TransformInv /\ UNCHANGED vars => TransformInv'
  BY DEF vars, TransformInv, Pictured, Reading, Asked, Headed, AsMade, Requested, Answered, Done
<1>2. TransformInv /\ [Next]_vars => TransformInv'
  BY <1>1, RequestStep, AdjustStep, ExecuteStep DEF Next
<1>3. QED
  BY <1>2, InitInv, PTL DEF Spec

-----------------------------------------------------------------------------
(* What follows *)

LEMMA InvShowsOnlyThePicture ==
  TransformInv => OnlyThePicture
<1> SUFFICES ASSUME TransformInv PROVE OnlyThePicture
  OBVIOUS
<1>1. IsPicture(file)
  BY DEF TransformInv, Pictured
<1>2. TypeOK
  <2>1. file.width \in Nat \ {0} /\ file.height \in Nat \ {0}
    BY <1>1 DEF IsPicture, IsHeader
  <2>2. ASSUME NEW c \in DOMAIN file.comps
        PROVE  /\ DOMAIN file.coefs[c] = ArrayOf(file, c)
               /\ \A p \in DOMAIN file.coefs[c] : file.coefs[c][p].kind \in Kinds
    <3>1. file.coefs[c] \in [ArrayOf(file, c) -> RealBlocks \cup {Padding}]
      BY <1>1, <2>2 DEF IsPicture
    <3>2. \A b \in RealBlocks \cup {Padding} : b.kind \in Kinds
      BY DEF RealBlocks, Padding, Kinds
    <3>3. QED
      BY <3>1, <3>2
  <2>3. QED
    BY <2>1, <2>2 DEF TypeOK, TransformInv
<1>3. StaysInArrays
  <2>1. SUFFICES ASSUME stage = "adjusted", NEW c \in DOMAIN dst.comps
                 PROVE  /\ NeedsWorkspace(options, info)
                             => Written(dst, options, c) \subseteq WorkspaceOf(source, options, info, c)
                        /\ \A p \in DOMAIN Transformed(source, dst, options, info, c) :
                             Transformed(source, dst, options, info, c)[p].kind # "outside"
    BY DEF StaysInArrays
  <2>2. IsPicture(source) /\ Workable(source, options, dst) /\ info = InfoOf(source, options)
    BY <2>1, RunsAreWorkable DEF Answered
  <2>3. Written(dst, options, c) \subseteq WorkspaceOf(source, options, info, c)
    BY <2>1, <2>2, WrittenInWorkspace
  <2>4. Sound(Transformed(source, dst, options, info, c), source, options, dst, c)
    BY <2>1, <2>2, ArraysAreSound
  <2>5. QED
    BY <2>3, <2>4 DEF Sound
<1>4. ShowsThePicture
  BY <1>1 DEF ShowsThePicture, IsPicture, RealBlocks
<1>5. QED
  BY <1>2, <1>3, <1>4 DEF OnlyThePicture

\* No routine reads beyond the source's arrays or writes beyond its workspace, and every
\* block a file shows is one of the first picture (do_flip_h_no_crop to do_transverse,
\* jtransform_request_workspace, compress_output).
THEOREM ShowsOnlyThePicture == Spec => []OnlyThePicture
BY Invariance, InvShowsOnlyThePicture, PTL

\* Blocks and quantization tables are transposed together (transpose_critical_parameters).
THEOREM TablesAreTransposedToo == Spec => []TablesFollowBlocks
<1>1. TransformInv => TablesFollowBlocks
  BY DEF TransformInv, Pictured, IsPicture, TablesFollowBlocks
<1>2. QED
  BY <1>1, Invariance, PTL

-----------------------------------------------------------------------------
(* The edges *)

\* What a perfect or trimmed transform leaves ends with a whole iMCU.
LEMMA TrimmedEnd ==
  ASSUME NEW full, NEW extent, NEW at, NEW imcu, NEW f, Fits(full, extent, at, imcu, f)
  PROVE  LET kept == Trimmed(extent, at, imcu, full)
         IN  kept >= imcu => at * imcu + kept <= (full \div imcu) * imcu
<1> DEFINE kept == Trimmed(extent, at, imcu, full)
           n == extent \div imcu
           r == extent % imcu
           q == full \div imcu
           t == full % imcu
<1>1. /\ n \in Int /\ r \in 0 .. imcu - 1 /\ extent = n * imcu + r
      /\ q \in Int /\ t \in 0 .. imcu - 1 /\ full = q * imcu + t
  BY Divided DEF Fits
<1>2. kept = IF n > 0 /\ at + n = q THEN n * imcu ELSE extent
  BY DEF Trimmed
<1> SUFFICES kept >= imcu => at * imcu + kept <= q * imcu
  OBVIOUS
<1> HIDE DEF n, r, q, t, kept
<1>3. (at + n) * imcu <= at * imcu + extent /\ (at + n) * imcu = at * imcu + n * imcu
  BY <1>1 DEF Fits
<1>4. (at + n) * imcu < (q + 1) * imcu
  <2>1. at * imcu \in Int /\ n * imcu \in Int /\ q * imcu \in Int /\ (q + 1) * imcu = q * imcu + imcu
    BY <1>1 DEF Fits
  <2>2. QED
    BY <1>1, <1>3, <2>1 DEF Fits
<1>5. at + n < q + 1
  BY <1>1, <1>4, LeastFactor DEF Fits
<1>6. CASE n > 0 /\ at + n = q
  <2>1. (at + n) * imcu = q * imcu /\ kept = n * imcu
    BY <1>2, <1>6
  <2>2. at * imcu \in Int /\ n * imcu \in Int /\ q * imcu \in Int
    BY <1>1 DEF Fits
  <2>3. QED
    BY <1>3, <2>1, <2>2
<1>7. CASE n > 0 /\ at + n # q
  <2>1. at + n + 1 <= q
    BY <1>1, <1>5, <1>7 DEF Fits
  <2>2. (at + n + 1) * imcu <= q * imcu
    BY <1>1, <2>1, Products DEF Fits
  <2>3. (at + n + 1) * imcu = at * imcu + n * imcu + imcu
    BY <1>1 DEF Fits
  <2>4. at * imcu \in Int /\ n * imcu \in Int /\ q * imcu \in Int
    BY <1>1 DEF Fits
  <2>5. at * imcu + extent <= q * imcu
    BY <1>1, <2>2, <2>3, <2>4 DEF Fits
  <2>6. QED
    BY <1>2, <1>7, <2>5
<1>8. CASE ~(n > 0)
  <2>1. n * imcu <= 0 * imcu
    BY <1>1, <1>8, Products DEF Fits
  <2>2. n * imcu \in Int /\ 0 * imcu = 0
    BY <1>1 DEF Fits
  <2>3. extent < imcu
    BY <1>1, <2>1, <2>2 DEF Fits
  <2>4. QED
    BY <1>2, <1>8, <2>3 DEF Fits
<1>9. QED
  BY <1>6, <1>7, <1>8

\* A perfect transform mirrors whole iMCUs only (jtransform_perfect_transform).
LEMMA PerfectIsWhole ==
  ASSUME NEW p, NEW o, IsSwitches(o), PerfectTransform(p, o)
  PROVE  /\ MirrorsX(o.transform) => Frame(p, o).width % Frame(p, o).imcuW = 0
         /\ MirrorsY(o.transform) => Frame(p, o).height % Frame(p, o).imcuH = 0
<1>1. CASE o.transform \in Turning
  <2>1. /\ Frame(p, o).width = p.height /\ Frame(p, o).imcuW = ImcuHeight(p, o)
        /\ Frame(p, o).height = p.width /\ Frame(p, o).imcuH = ImcuWidth(p, o)
    BY <1>1 DEF Frame
  <2>2. QED
    BY <1>1, <2>1 DEF PerfectTransform, MirrorsX, MirrorsY, Turning
<1>2. CASE o.transform \notin Turning
  <2>1. /\ Frame(p, o).width = p.width /\ Frame(p, o).imcuW = ImcuWidth(p, o)
        /\ Frame(p, o).height = p.height /\ Frame(p, o).imcuH = ImcuHeight(p, o)
    BY <1>2 DEF Frame
  <2>2. QED
    BY <1>2, <2>1 DEF PerfectTransform, MirrorsX, MirrorsY, Turning
<1>3. QED
  BY <1>1, <1>2

\* No block that is left at an axis stays behind while the others are mirrored.
Seamless(perfect, at, extent, imcu, full) ==
  perfect \/ extent >= imcu => at * imcu + extent <= (full \div imcu) * imcu

LEMMA WholeAxis ==
  ASSUME NEW full, NEW extent, NEW at, NEW imcu, Fits(full, extent, at, imcu, 1), full % imcu = 0
  PROVE  at * imcu + extent <= (full \div imcu) * imcu
<1>1. full \div imcu \in Int /\ full = (full \div imcu) * imcu + (full % imcu)
  BY Divided DEF Fits
<1> DEFINE q == (full \div imcu) * imcu
<1>2. full = q
  BY <1>1 DEF Fits
<1> HIDE DEF q
<1>3. at * imcu + extent <= q
  BY <1>2 DEF Fits
<1>4. QED
  BY <1>3 DEF q

LEMMA InvNoSeam ==
  TransformInv => NoSeam
<1> DEFINE fr == Frame(source, options)
           i == InfoOf(source, options)
           cr == Cropped(options, fr)
<1> SUFFICES ASSUME TransformInv, Done, options.perfect \/ options.trim
             PROVE  /\ MirrorsX(options.transform) =>
                         Seamless(options.perfect, info.x, file.width, info.imcuW, fr.width)
                    /\ MirrorsY(options.transform) =>
                         Seamless(options.perfect, info.y, file.height, info.imcuH, fr.height)
  BY DEF NoSeam, Seamless
<1>1. /\ IsHeader(source) /\ IsSwitches(options) /\ CropValid(options, fr)
      /\ options.perfect => PerfectTransform(source, options)
      /\ info = i /\ HeaderOf(dst, source, options)
  BY RunsAreWorkable DEF Answered, Workable, Granted
<1>2. file.width = info.width /\ file.height = info.height
  BY <1>1 DEF TransformInv, AsMade, HeaderOf
<1>3. /\ info.x = cr.x /\ info.y = cr.y /\ info.imcuW = fr.imcuW /\ info.imcuH = fr.imcuH
      /\ info.width = IF options.trim /\ options.transform \in TrimsRight
                        THEN Trimmed(cr.width, cr.x, fr.imcuW, fr.width) ELSE cr.width
      /\ info.height = IF options.trim /\ options.transform \in TrimsBottom
                         THEN Trimmed(cr.height, cr.y, fr.imcuH, fr.height) ELSE cr.height
  BY <1>1 DEF InfoOf
<1>4. Fits(fr.width, cr.width, cr.x, fr.imcuW, 1) /\ Fits(fr.height, cr.height, cr.y, fr.imcuH, 1)
  BY <1>1, CroppedFits
<1>5. Fits(fr.width, info.width, info.x, info.imcuW, 1) /\ Fits(fr.height, info.height, info.y, info.imcuH, 1)
  BY <1>1, CropFits
<1> HIDE DEF fr, i, cr
<1>6. ASSUME MirrorsX(options.transform)
      PROVE  Seamless(options.perfect, info.x, file.width, info.imcuW, fr.width)
  <2>1. CASE options.perfect
    <3>1. fr.width % info.imcuW = 0
      BY <1>1, <1>3, <1>6, <2>1, PerfectIsWhole DEF fr
    <3>2. QED
      BY <1>2, <1>5, <2>1, <3>1, WholeAxis DEF Seamless
  <2>2. CASE ~options.perfect
    <3>1. info.width = Trimmed(cr.width, cr.x, fr.imcuW, fr.width)
      BY <1>3, <1>6, <2>2 DEF MirrorsX, TrimsRight
    <3>2. QED
      BY <1>2, <1>3, <1>4, <2>2, <3>1, TrimmedEnd DEF Seamless
  <2>3. QED
    BY <2>1, <2>2
<1>7. ASSUME MirrorsY(options.transform)
      PROVE  Seamless(options.perfect, info.y, file.height, info.imcuH, fr.height)
  <2>1. CASE options.perfect
    <3>1. fr.height % info.imcuH = 0
      BY <1>1, <1>3, <1>7, <2>1, PerfectIsWhole DEF fr
    <3>2. QED
      BY <1>2, <1>5, <2>1, <3>1, WholeAxis DEF Seamless
  <2>2. CASE ~options.perfect
    <3>1. info.height = Trimmed(cr.height, cr.y, fr.imcuH, fr.height)
      BY <1>3, <1>7, <2>2 DEF MirrorsY, TrimsBottom
    <3>2. QED
      BY <1>2, <1>3, <1>4, <2>2, <3>1, TrimmedEnd DEF Seamless
  <2>3. QED
    BY <2>1, <2>2
<1>8. QED
  BY <1>6, <1>7

\* Along one axis, what was asked for is kept.
KeepsAxis(asked, offset, sign, at, extent, imcu, full) ==
  LET start == at * imcu
      from == IF sign = "unset" THEN 0 ELSE offset
  IN  /\ IF sign = "neg" THEN full - (start + extent) = from
                        ELSE from - start \in 0 .. imcu - 1
      /\ IF asked = Unset THEN extent >= full - from
                          ELSE extent - asked \in 0 .. imcu - 1

LEMMA CropAxisKeeps ==
  ASSUME NEW asked \in Nat \cup {Unset}, NEW offset \in Nat, NEW sign, NEW full \in Nat \ {0},
         NEW imcu \in Nat \ {0}, CropAxis(asked, offset, sign, full).valid
  PROVE  LET a == CropAxis(asked, offset, sign, full)
         IN  KeepsAxis(asked, offset, sign, a.start \div imcu, a.size + (a.start % imcu), imcu, full)
<1> DEFINE a == CropAxis(asked, offset, sign, full)
           from == IF sign = "unset" THEN 0 ELSE offset
           start == a.start
           size == a.size
           r == start % imcu
           q == (start \div imcu) * imcu
<1>1. /\ size = IF asked = Unset THEN full - from ELSE asked
      /\ start = IF sign = "neg" THEN full - size - from ELSE from
  BY DEF CropAxis
<1>2. start \in Nat /\ size \in Nat \ {0} /\ start + size <= full
  <2>1. 1 \in Nat \ {0}
    OBVIOUS
  <2>2. QED
    BY <2>1, CropAxisFits
<1>3. r \in 0 .. imcu - 1 /\ q \in Nat /\ q = start - r
  <2> HIDE DEF start
  <2>1. QED
    BY <1>2, MovedToImcu
<1>4. from \in Nat
  OBVIOUS
<1> SUFFICES /\ IF sign = "neg" THEN full - (q + (size + r)) = from
                               ELSE from - q \in 0 .. imcu - 1
             /\ IF asked = Unset THEN size + r >= full - from
                                 ELSE (size + r) - asked \in 0 .. imcu - 1
  BY Zenon DEF KeepsAxis
<1> HIDE DEF a, from, start, size, r, q
<1>5. full - (q + (size + r)) = full - (start + size)
  BY <1>2, <1>3
<1>6. (size + r) - size = r
  BY <1>2, <1>3
<1>7. QED
  BY <1>1, <1>2, <1>3, <1>4, <1>5, <1>6

LEMMA InvKeepsTheCrop ==
  TransformInv => KeepsTheCrop
<1> DEFINE fr == Frame(source, options)
           cr == Cropped(options, fr)
           o == options.crop
<1> SUFFICES ASSUME TransformInv, Done, options.crop.on, ~options.trim
             PROVE  /\ KeepsAxis(o.width, o.x, o.xSign, info.x, file.width, info.imcuW, fr.width)
                    /\ KeepsAxis(o.height, o.y, o.ySign, info.y, file.height, info.imcuH, fr.height)
  BY DEF KeepsTheCrop, KeepsAxis
<1>1. /\ IsHeader(source) /\ IsSwitches(options) /\ CropValid(options, fr)
      /\ info = InfoOf(source, options) /\ HeaderOf(dst, source, options)
  BY RunsAreWorkable DEF Answered, Workable, Granted
<1>2. /\ info.x = cr.x /\ info.y = cr.y /\ info.imcuW = fr.imcuW /\ info.imcuH = fr.imcuH
      /\ info.width = cr.width /\ info.height = cr.height
  BY <1>1 DEF InfoOf
<1>3. file.width = cr.width /\ file.height = cr.height
  BY <1>1, <1>2 DEF TransformInv, AsMade, HeaderOf
<1>4. /\ fr.width \in Nat \ {0} /\ fr.imcuW \in Nat \ {0}
      /\ fr.height \in Nat \ {0} /\ fr.imcuH \in Nat \ {0}
  <2>1. 1 \in Nat \ {0}
    OBVIOUS
  <2>2. QED
    BY <1>1, <2>1, CroppedFits DEF Fits
<1>5. /\ o.width \in Nat \cup {Unset} /\ o.x \in Nat
      /\ o.height \in Nat \cup {Unset} /\ o.y \in Nat
  BY <1>1 DEF IsSwitches
<1>6. CropX(options, fr).valid /\ CropY(options, fr).valid
  BY <1>1 DEF CropValid
<1>7. /\ cr.width = CropX(options, fr).size + (CropX(options, fr).start % fr.imcuW)
      /\ cr.x = CropX(options, fr).start \div fr.imcuW
      /\ cr.height = CropY(options, fr).size + (CropY(options, fr).start % fr.imcuH)
      /\ cr.y = CropY(options, fr).start \div fr.imcuH
  BY DEF Cropped
<1> HIDE DEF fr, cr
<1>8. KeepsAxis(o.width, o.x, o.xSign, cr.x, cr.width, fr.imcuW, fr.width)
  <2> DEFINE a == CropX(options, fr)
  <2>1. KeepsAxis(o.width, o.x, o.xSign, a.start \div fr.imcuW, a.size + (a.start % fr.imcuW), fr.imcuW, fr.width)
    BY <1>4, <1>5, <1>6, CropAxisKeeps, Zenon DEF CropX
  <2>2. QED
    BY <1>7, <2>1, Zenon
<1>9. KeepsAxis(o.height, o.y, o.ySign, cr.y, cr.height, fr.imcuH, fr.height)
  <2> DEFINE a == CropY(options, fr)
  <2>1. KeepsAxis(o.height, o.y, o.ySign, a.start \div fr.imcuH, a.size + (a.start % fr.imcuH), fr.imcuH, fr.height)
    BY <1>4, <1>5, <1>6, CropAxisKeeps, Zenon DEF CropY
  <2>2. QED
    BY <1>7, <2>1, Zenon
<1>10. QED
  BY <1>2, <1>3, <1>8, <1>9

\* Edges are where the switches put them: a perfect or trimmed transform leaves no seam,
\* and a crop keeps what was asked for (jtransform_request_workspace, trim_right_edge,
\* trim_bottom_edge, jtransform_perfect_transform).
THEOREM EdgesAreAsAsked == Spec => []EdgesAsAsked
<1>1. TransformInv => EdgesAsAsked
  BY InvNoSeam, InvKeepsTheCrop DEF EdgesAsAsked
<1>2. QED
  BY <1>1, Invariance, PTL

-----------------------------------------------------------------------------
(* Single samples *)

\* Counted from the other end of a block.
Flip(flipped, r) == IF flipped THEN BlockSize - 1 - r ELSE r

\* The sample of the first picture that is at column i and row j of a block.
SampleIn(b, i, j) ==
  IF b.turned THEN <<b.x * BlockSize + Flip(b.rows, j), b.y * BlockSize + Flip(b.cols, i)>>
              ELSE <<b.x * BlockSize + Flip(b.cols, i), b.y * BlockSize + Flip(b.rows, j)>>

LEMMA SampleOfBlock ==
  ASSUME NEW coefs, NEW x, NEW y
  PROVE  SampleOf(coefs, x, y)
           = SampleIn(coefs[<<x \div BlockSize, y \div BlockSize>>], x % BlockSize, y % BlockSize)
BY DEF SampleOf, SampleIn, Flip

LEMMA FlippedTwice ==
  ASSUME NEW a \in BOOLEAN, NEW b \in BOOLEAN, NEW r \in 0 .. BlockSize - 1
  PROVE  /\ Flip(a # b, r) = Flip(a, Flip(b, r)) /\ Flip(b, r) \in 0 .. BlockSize - 1
<1>1. BlockSize \in Nat \ {0}
  BY TransformAssumption
<1>2. BlockSize - 1 - (BlockSize - 1 - r) = r
  BY <1>1
<1>3. CASE a = TRUE /\ b = TRUE
  BY <1>1, <1>2, <1>3 DEF Flip
<1>4. CASE a = TRUE /\ b = FALSE
  BY <1>1, <1>4 DEF Flip
<1>5. CASE a = FALSE /\ b = TRUE
  <2>1. (a # b) = TRUE
    BY <1>5
  <2>2. Flip(a # b, r) = BlockSize - 1 - r /\ Flip(b, r) = BlockSize - 1 - r
    BY <1>5, <2>1 DEF Flip
  <2>3. Flip(a, Flip(b, r)) = Flip(b, r)
    BY <1>5 DEF Flip
  <2>4. QED
    BY <1>1, <2>2, <2>3
<1>6. CASE a = FALSE /\ b = FALSE
  BY <1>1, <1>6 DEF Flip
<1>7. QED
  BY <1>3, <1>4, <1>5, <1>6

\* Moving a block moves its samples, as the transform of a picture would.
LEMMA MovedSamples ==
  ASSUME NEW b \in RealBlocks, NEW turn \in BOOLEAN, NEW cols \in BOOLEAN, NEW rows \in BOOLEAN,
         NEW i \in 0 .. BlockSize - 1, NEW j \in 0 .. BlockSize - 1
  PROVE  SampleIn(Moved(b, turn, cols, rows), i, j)
           = IF turn THEN SampleIn(b, Flip(rows, j), Flip(cols, i))
                     ELSE SampleIn(b, Flip(cols, i), Flip(rows, j))
<1> DEFINE m == Moved(b, turn, cols, rows)
<1>1. /\ m.x = b.x /\ m.y = b.y /\ m.turned = (b.turned # turn)
      /\ m.cols = ((IF turn THEN b.rows ELSE b.cols) # cols)
      /\ m.rows = ((IF turn THEN b.cols ELSE b.rows) # rows)
  BY MovedBlock
<1>2. b.turned \in BOOLEAN /\ b.cols \in BOOLEAN /\ b.rows \in BOOLEAN
  BY DEF RealBlocks
<1> HIDE DEF m
<1>3. CASE turn = TRUE
  <2>1. m.turned = ~b.turned /\ m.cols = (b.rows # cols) /\ m.rows = (b.cols # rows)
    BY <1>1, <1>2, <1>3
  <2>2. Flip(m.cols, i) = Flip(b.rows, Flip(cols, i)) /\ Flip(m.rows, j) = Flip(b.cols, Flip(rows, j))
    BY <1>2, <2>1, FlippedTwice
  <2>3. CASE b.turned = TRUE
    BY <1>1, <1>3, <2>1, <2>2, <2>3 DEF SampleIn, m
  <2>4. CASE b.turned = FALSE
    BY <1>1, <1>3, <2>1, <2>2, <2>4 DEF SampleIn, m
  <2>5. QED
    BY <1>2, <2>3, <2>4
<1>4. CASE turn = FALSE
  <2>1. m.turned = b.turned /\ m.cols = (b.cols # cols) /\ m.rows = (b.rows # rows)
    BY <1>1, <1>2, <1>4
  <2>2. Flip(m.cols, i) = Flip(b.cols, Flip(cols, i)) /\ Flip(m.rows, j) = Flip(b.rows, Flip(rows, j))
    BY <1>2, <2>1, FlippedTwice
  <2>3. CASE b.turned = TRUE
    BY <1>1, <1>4, <2>1, <2>2, <2>3 DEF SampleIn, m
  <2>4. CASE b.turned = FALSE
    BY <1>1, <1>4, <2>1, <2>2, <2>4 DEF SampleIn, m
  <2>5. QED
    BY <1>2, <2>3, <2>4
<1>5. QED
  BY <1>3, <1>4

\* Mirroring samples mirrors blocks, and the samples in each.
LEMMA OppositeSample ==
  ASSUME NEW K \in Nat, NEW r \in 0 .. BlockSize - 1, NEW n \in Nat, NEW mirrored \in BOOLEAN
  PROVE  LET X == Opposite(K * BlockSize + r, n * BlockSize, mirrored)
         IN  /\ X \div BlockSize = Opposite(K, n, mirrored)
             /\ X % BlockSize = Flip(mirrored /\ K < n, r)
<1> DEFINE B == BlockSize
           k == K * B + r
<1>1. B \in Nat \ {0}
  BY TransformAssumption
<1> HIDE DEF B
<1>2. k \in Nat /\ n * B \in Nat
  BY <1>1 DEF B
<1>3. CASE K < n
  <2>1. (K + 1) * B <= n * B
    BY <1>1, <1>3, Products
  <2>2. k < n * B
    BY <1>1, <2>1 DEF B
  <2>3. n * B - 1 - k = (n - 1 - K) * B + (B - 1 - r)
    BY <1>1 DEF B
  <2>4. n - 1 - K \in Int /\ B - 1 - r \in 0 .. B - 1
    BY <1>1 DEF B
  <2> DEFINE q == n - 1 - K
             t == B - 1 - r
  <2> HIDE DEF q, t
  <2>5. (q * B + t) \div B = q /\ (q * B + t) % B = t
    BY <1>1, <2>4, DividedBy DEF q, t
  <2>6. (K * B + r) \div B = K /\ (K * B + r) % B = r
    BY <1>1, DividedBy DEF B
  <2>7. CASE mirrored
    <3>1. Opposite(k, n * B, mirrored) = q * B + t
      BY <2>2, <2>3, <2>7 DEF Opposite, q, t
    <3>2. Opposite(K, n, mirrored) = q
      BY <1>3, <2>7 DEF Opposite, q
    <3>3. Flip(mirrored /\ K < n, r) = t
      BY <1>3, <2>7 DEF Flip, t, B
    <3>4. QED
      BY <2>5, <3>1, <3>2, <3>3, Zenon DEF B
  <2>8. CASE ~mirrored
    <3>1. Opposite(k, n * B, mirrored) = K * B + r
      BY <2>8 DEF Opposite
    <3>2. Opposite(K, n, mirrored) = K
      BY <2>8 DEF Opposite
    <3>3. Flip(mirrored /\ K < n, r) = r
      BY <2>8 DEF Flip
    <3>4. QED
      BY <2>6, <3>1, <3>2, <3>3, Zenon DEF B
  <2>9. QED
    BY <2>7, <2>8
<1>4. CASE ~(K < n)
  <2>1. n * B <= K * B
    BY <1>1, <1>4, Products
  <2>2. ~(k < n * B)
    BY <1>1, <1>2, <2>1 DEF B
  <2>3. (K * B + r) \div B = K /\ (K * B + r) % B = r
    BY <1>1, DividedBy DEF B
  <2>4. Opposite(k, n * B, mirrored) = K * B + r /\ Opposite(K, n, mirrored) = K
    BY <1>4, <2>2 DEF Opposite
  <2>5. Flip(mirrored /\ K < n, r) = r
    BY <1>4 DEF Flip
  <2>6. QED
    BY <2>3, <2>4, <2>5, Zenon DEF B
<1>5. QED
  BY <1>3, <1>4

\* Sample <<x, y>> of array e is the one of array a that transform t puts there.
AsPlaced(e, a, h, v, t, i, fr, x, y) ==
  LET X == Opposite(i.x * h * BlockSize + x, (fr.width \div i.imcuW) * h * BlockSize, MirrorsX(t))
      Y == Opposite(i.y * v * BlockSize + y, (fr.height \div i.imcuH) * v * BlockSize, MirrorsY(t))
  IN  SampleOf(e, x, y) = IF t \in Turning THEN SampleOf(a, Y, X) ELSE SampleOf(a, X, Y)

\* A sample of the destination is the sample of the source the transform puts there.
LEMMA SamplesAreMoved ==
  ASSUME NEW s, NEW o, NEW d, IsPicture(s), Workable(s, o, d), NEW c \in DOMAIN d.comps,
         NEW x \in 0 .. WidthInBlocks(d, c) * BlockSize - 1,
         NEW y \in 0 .. HeightInBlocks(d, c) * BlockSize - 1
  PROVE  AsPlaced(Encoded(d, Transformed(s, d, o, InfoOf(s, o), c), c), s.coefs[c],
                  d.comps[c].h, d.comps[c].v, o.transform, InfoOf(s, o), Frame(s, o), x, y)
<1> DEFINE B == BlockSize
           i == InfoOf(s, o)
           fr == Frame(s, o)
           h == d.comps[c].h
           v == d.comps[c].v
           W == WidthInBlocks(d, c)
           H == HeightInBlocks(d, c)
           bx == x \div B
           by == y \div B
           rx == x % B
           ry == y % B
           e == Encoded(d, Transformed(s, d, o, i, c), c)
           X == Opposite(i.x * h * B + x, (fr.width \div i.imcuW) * h * B, MirrorsX(o.transform))
           Y == Opposite(i.y * v * B + y, (fr.height \div i.imcuH) * v * B, MirrorsY(o.transform))
           px == PlaceX(s, o, d, c, bx)
           py == PlaceY(s, o, d, c, by)
           mx == MirroredX(s, o, d, c, bx)
           my == MirroredY(s, o, d, c, by)
           cell == PlaceOf(s, o, d, c, bx, by)
           b == s.coefs[c][<<cell.x, cell.y>>]
<1>1. B \in Nat \ {0} /\ W \in Nat /\ H \in Nat
  BY TransformAssumption, WrittenInWorkspace
<1>2. /\ bx \in Int /\ rx \in 0 .. B - 1 /\ x = bx * B + rx
      /\ by \in Int /\ ry \in 0 .. B - 1 /\ y = by * B + ry
  <2>1. x \in Int /\ y \in Int
    OBVIOUS
  <2>2. QED
    BY <1>1, <2>1, Divided
<1>3. x \in Nat /\ x < W * B /\ y \in Nat /\ y < H * B
  <2>1. W * B \in Int /\ H * B \in Int
    BY <1>1
  <2>2. x \in 0 .. W * B - 1 /\ y \in 0 .. H * B - 1
    OBVIOUS
  <2> HIDE DEF W, H, B
  <2>3. QED
    BY <2>1, <2>2
<1> HIDE DEF B, bx, by, rx, ry, W, H
<1>4. bx \in Nat /\ bx < W /\ by \in Nat /\ by < H
  <2>1. bx * B \in Int /\ by * B \in Int /\ W * B \in Int /\ H * B \in Int
    BY <1>1, <1>2
  <2>2. bx * B < W * B /\ by * B < H * B
    BY <1>2, <1>3, <2>1
  <2>3. (bx + 1) * B = bx * B + B /\ (by + 1) * B = by * B + B /\ 0 * B = 0
    BY <1>1, <1>2
  <2>4. 0 * B < (bx + 1) * B /\ 0 * B < (by + 1) * B
    BY <1>1, <1>2, <1>3, <2>1, <2>3
  <2>5. bx < W /\ by < H
    BY <1>1, <1>2, <2>2, LeastFactor
  <2>6. 0 < bx + 1 /\ 0 < by + 1
    BY <1>1, <1>2, <2>4, LeastFactor
  <2>7. QED
    BY <1>2, <2>5, <2>6
<1>5. /\ Fits(fr.width, i.width, i.x, i.imcuW, h)
      /\ Fits(fr.height, i.height, i.y, i.imcuH, v)
  BY AxesFit
<1>6. mx \in BOOLEAN /\ my \in BOOLEAN
  BY DEF MirroredX, MirroredY
<1>7. X \div B = px /\ X % B = Flip(mx, rx)
  <2> DEFINE K == i.x * h + bx
             n == Whole(fr.width, i.imcuW, h)
             mirrors == MirrorsX(o.transform)
  <2>1. px = Opposite(K, n, mirrors)
    BY Zenon DEF PlaceX
  <2>2. (mirrors /\ K < n) = mx
    BY Zenon DEF MirroredX
  <2>3. n \in Nat /\ n = (fr.width \div i.imcuW) * h
    <3> HIDE DEF i, fr, h
    <3>1. n \in Nat
      BY <1>5, <1>6, OppositeInside
    <3>2. QED
      BY <3>1 DEF Whole
  <2> HIDE DEF i, fr, h
  <2>4. K \in Nat /\ i.x * h * B + x = K * B + rx
    <3> DEFINE g == i.x * h
    <3>1. g \in Nat
      BY <1>5 DEF Fits
    <3> HIDE DEF g
    <3>2. (g + bx) * B = g * B + bx * B /\ g * B \in Int /\ bx * B \in Int
      BY <1>1, <1>4, <3>1
    <3>3. g * B + x = (g + bx) * B + rx /\ g + bx \in Nat
      BY <1>2, <1>4, <3>1, <3>2
    <3>4. QED
      BY <3>3 DEF g
  <2>5. X = Opposite(K * B + rx, n * B, mirrors)
    BY <2>3, <2>4
  <2>6. mirrors \in BOOLEAN
    BY DEF MirrorsX
  <2> HIDE DEF K, n, mirrors, X, px, mx
  <2>7. /\ Opposite(K * B + rx, n * B, mirrors) \div B = Opposite(K, n, mirrors)
        /\ Opposite(K * B + rx, n * B, mirrors) % B = Flip(mirrors /\ K < n, rx)
    BY <1>2, <2>3, <2>4, <2>6, OppositeSample DEF B
  <2>8. QED
    BY <2>1, <2>2, <2>5, <2>7
<1>8. Y \div B = py /\ Y % B = Flip(my, ry)
  <2> DEFINE K == i.y * v + by
             n == Whole(fr.height, i.imcuH, v)
             mirrors == MirrorsY(o.transform)
  <2>1. py = Opposite(K, n, mirrors)
    BY Zenon DEF PlaceY
  <2>2. (mirrors /\ K < n) = my
    BY Zenon DEF MirroredY
  <2>3. n \in Nat /\ n = (fr.height \div i.imcuH) * v
    <3> HIDE DEF i, fr, v
    <3>1. n \in Nat
      BY <1>5, <1>6, OppositeInside
    <3>2. QED
      BY <3>1 DEF Whole
  <2> HIDE DEF i, fr, v
  <2>4. K \in Nat /\ i.y * v * B + y = K * B + ry
    <3> DEFINE g == i.y * v
    <3>1. g \in Nat
      BY <1>5 DEF Fits
    <3> HIDE DEF g
    <3>2. (g + by) * B = g * B + by * B /\ g * B \in Int /\ by * B \in Int
      BY <1>1, <1>4, <3>1
    <3>3. g * B + y = (g + by) * B + ry /\ g + by \in Nat
      BY <1>2, <1>4, <3>1, <3>2
    <3>4. QED
      BY <3>3 DEF g
  <2>5. Y = Opposite(K * B + ry, n * B, mirrors)
    BY <2>3, <2>4
  <2>6. mirrors \in BOOLEAN
    BY DEF MirrorsY
  <2> HIDE DEF K, n, mirrors, Y, py, my
  <2>7. /\ Opposite(K * B + ry, n * B, mirrors) \div B = Opposite(K, n, mirrors)
        /\ Opposite(K * B + ry, n * B, mirrors) % B = Flip(mirrors /\ K < n, ry)
    BY <1>2, <2>3, <2>4, <2>6, OppositeSample DEF B
  <2>8. QED
    BY <2>1, <2>2, <2>5, <2>7
<1>9. cell = IF o.transform \in Turning THEN Cell(py, px, TRUE, mx, my) ELSE Cell(px, py, FALSE, mx, my)
  BY DEF PlaceOf
<1>10. b \in RealBlocks /\ e[<<bx, by>>] = Moved(b, cell.turn, cell.cols, cell.rows)
  <2>1. <<cell.x, cell.y>> \in Visible(s, c)
    BY <1>4, PlaceInside DEF W, H
  <2>2. c \in DOMAIN s.comps
    BY Geometry DEF Workable, Granted
  <2>3. b \in RealBlocks
    BY <2>1, <2>2 DEF IsPicture
  <2>4. <<bx, by>> \in Visible(d, c)
    BY <1>1, <1>4 DEF Visible, Grid, W, H
  <2>5. e[<<bx, by>>] = PlaceBlock(s, o, d, c, bx, by)
    BY <2>4, EncodedShows
  <2>6. QED
    BY <2>3, <2>5 DEF PlaceBlock
<1> HIDE DEF i, fr, h, v, e, X, Y, px, py, mx, my
<1>11. SampleOf(e, x, y) = SampleIn(e[<<bx, by>>], rx, ry)
  BY SampleOfBlock DEF B, bx, by, rx, ry
<1>12. /\ SampleOf(s.coefs[c], Y, X) = SampleIn(s.coefs[c][<<py, px>>], Flip(my, ry), Flip(mx, rx))
       /\ SampleOf(s.coefs[c], X, Y) = SampleIn(s.coefs[c][<<px, py>>], Flip(mx, rx), Flip(my, ry))
  BY <1>7, <1>8, SampleOfBlock DEF B
<1>13. SampleOf(e, x, y) = IF o.transform \in Turning THEN SampleOf(s.coefs[c], Y, X)
                                                       ELSE SampleOf(s.coefs[c], X, Y)
  <2>1. CASE o.transform \in Turning
    <3>1. cell.x = py /\ cell.y = px /\ cell.turn = TRUE /\ cell.cols = mx /\ cell.rows = my
      BY <1>9, <2>1 DEF Cell
    <3> HIDE DEF cell
    <3>2. b = s.coefs[c][<<py, px>>] /\ e[<<bx, by>>] = Moved(b, TRUE, mx, my)
      BY <1>10, <3>1
    <3> HIDE DEF b
    <3>3. SampleIn(Moved(b, TRUE, mx, my), rx, ry) = SampleIn(b, Flip(my, ry), Flip(mx, rx))
      <4> DEFINE turn == TRUE
      <4>1. turn \in BOOLEAN
        OBVIOUS
      <4> HIDE DEF turn
      <4>2. SampleIn(Moved(b, turn, mx, my), rx, ry)
              = IF turn THEN SampleIn(b, Flip(my, ry), Flip(mx, rx))
                        ELSE SampleIn(b, Flip(mx, rx), Flip(my, ry))
        BY <1>2, <1>6, <1>10, <4>1, MovedSamples DEF B
      <4>3. QED
        BY <4>2 DEF turn
    <3>4. QED
      BY <1>11, <1>12, <2>1, <3>2, <3>3
  <2>2. CASE o.transform \notin Turning
    <3>1. cell.x = px /\ cell.y = py /\ cell.turn = FALSE /\ cell.cols = mx /\ cell.rows = my
      BY <1>9, <2>2 DEF Cell
    <3> HIDE DEF cell
    <3>2. b = s.coefs[c][<<px, py>>] /\ e[<<bx, by>>] = Moved(b, FALSE, mx, my)
      BY <1>10, <3>1
    <3> HIDE DEF b
    <3>3. SampleIn(Moved(b, FALSE, mx, my), rx, ry) = SampleIn(b, Flip(mx, rx), Flip(my, ry))
      <4> DEFINE turn == FALSE
      <4>1. turn \in BOOLEAN
        OBVIOUS
      <4> HIDE DEF turn
      <4>2. SampleIn(Moved(b, turn, mx, my), rx, ry)
              = IF turn THEN SampleIn(b, Flip(my, ry), Flip(mx, rx))
                        ELSE SampleIn(b, Flip(mx, rx), Flip(my, ry))
        BY <1>2, <1>6, <1>10, <4>1, MovedSamples DEF B
      <4>3. QED
        BY <4>2 DEF turn
    <3>4. QED
      BY <1>11, <1>12, <2>2, <3>2, <3>3
  <2>3. QED
    BY <2>1, <2>2
<1>14. QED
  BY <1>13, Zenon DEF AsPlaced, e, X, Y, i, fr, h, v, B

LEMMA InvMovesAsAPicture ==
  TransformInv => MovesAsAPicture
<1> SUFFICES ASSUME TransformInv, Done, NEW c \in DOMAIN file.comps,
                    NEW x \in 0 .. WidthInBlocks(file, c) * BlockSize - 1,
                    NEW y \in 0 .. HeightInBlocks(file, c) * BlockSize - 1
             PROVE  AsPlaced(file.coefs[c], source.coefs[c], file.comps[c].h, file.comps[c].v,
                             options.transform, info, Frame(source, options), x, y)
  BY Zenon DEF MovesAsAPicture, AsPlaced
<1>1. /\ IsPicture(source) /\ Workable(source, options, dst) /\ info = InfoOf(source, options)
  BY RunsAreWorkable DEF Answered
<1>2. /\ file.width = dst.width /\ file.height = dst.height /\ file.comps = dst.comps
      /\ file.coefs = [k \in DOMAIN dst.comps |->
                         Encoded(dst, Transformed(source, dst, options, info, k), k)]
  BY DEF TransformInv, AsMade
<1>3. file.coefs[c] = Encoded(dst, Transformed(source, dst, options, info, c), c) /\ c \in DOMAIN dst.comps
  BY <1>2
<1>4. WidthInBlocks(file, c) = WidthInBlocks(dst, c) /\ HeightInBlocks(file, c) = HeightInBlocks(dst, c)
  <2>1. MaxH(file) = MaxH(dst) /\ MaxV(file) = MaxV(dst)
    BY <1>2 DEF MaxH, MaxV
  <2>2. QED
    BY <1>2, <2>1 DEF WidthInBlocks, HeightInBlocks
<1>5. AsPlaced(Encoded(dst, Transformed(source, dst, options, InfoOf(source, options), c), c),
               source.coefs[c], dst.comps[c].h, dst.comps[c].v, options.transform,
               InfoOf(source, options), Frame(source, options), x, y)
  <2>1. /\ x \in 0 .. WidthInBlocks(dst, c) * BlockSize - 1
        /\ y \in 0 .. HeightInBlocks(dst, c) * BlockSize - 1
    BY <1>4
  <2>2. QED
    BY <1>1, <1>3, <2>1, SamplesAreMoved
<1>6. QED
  BY <1>1, <1>2, <1>3, <1>5

\* Every sample of the file is the sample that turning, mirroring and cropping the source
\* would put there, in every component and at whole and partial iMCUs alike.
THEOREM MovesLikeAPicture == Spec => []MovesAsAPicture
BY Invariance, InvMovesAsAPicture, PTL
-----------------------------------------------------------------------------
(* Markers *)

\* A set of numbers has a least one, by the library's well-founded order.
LEMMA LeastNatural ==
  ASSUME NEW S \in SUBSET Nat, S # {}
  PROVE  \E x \in S : \A y \in S : x <= y
<1>1. IsWellFoundedOn(OpToRel(<, Nat), Nat)
  BY NatLessThanWellFounded
<1>2. PICK x \in S : \A y \in S : ~(<<y, x>> \in OpToRel(<, Nat))
  BY <1>1, WFMin
<1>3. ASSUME NEW y \in S, y < x PROVE FALSE
  <2>1. <<y, x>> \in OpToRel(<, Nat)
    BY <1>3 DEF OpToRel
  <2>2. QED
    BY <1>2, <2>1
<1>4. QED
  BY <1>3

KeptStep(f, markers, S, n) ==
  IF n = 0 THEN <<>> ELSE IF markers[n] \in S THEN Append(f[n - 1], markers[n]) ELSE f[n - 1]

\* A number up to which something fails has a first one.
LEMMA FirstFailure ==
  ASSUME NEW N \in Nat, NEW P \in [0 .. N -> BOOLEAN], P[0],
         \A n \in 1 .. N : P[n - 1] => P[n]
  PROVE  P[N]
<1> DEFINE S == {n \in 0 .. N : ~P[n]}
<1>1. SUFFICES ASSUME S # {} PROVE FALSE
  OBVIOUS
<1>2. PICK x \in S : \A y \in S : x <= y
  <2>1. S \in SUBSET Nat
    OBVIOUS
  <2> HIDE DEF S
  <2>2. QED
    BY <1>1, <2>1, LeastNatural
<1>3. x \in 1 .. N /\ ~P[x]
  OBVIOUS
<1>4. P[x - 1]
  BY <1>2, <1>3
<1>5. QED
  BY <1>3, <1>4

\* The recursive definition of OfKinds defines a function.
LEMMA KeptDefined ==
  ASSUME NEW K, NEW markers \in Seq(K), NEW S
  PROVE  \E f : f = [n \in 0 .. Len(markers) |-> KeptStep(f, markers, S, n)]
<1> DEFINE Has(m) == \E f : f = [n \in 0 .. m |-> KeptStep(f, markers, S, n)]
           P == [m \in 0 .. Len(markers) |-> Has(m)]
<1>1. Len(markers) \in Nat
  OBVIOUS
<1>2. Has(0)
  <2> DEFINE f == [n \in 0 .. 0 |-> <<>>]
  <2>1. f = [n \in 0 .. 0 |-> KeptStep(f, markers, S, n)]
    BY DEF KeptStep
  <2>2. QED
    BY <2>1
<1>3. ASSUME NEW m \in 1 .. Len(markers), Has(m - 1) PROVE Has(m)
  <2>1. PICK f : f = [n \in 0 .. m - 1 |-> KeptStep(f, markers, S, n)]
    BY <1>3
  <2> DEFINE g == [n \in 0 .. m |-> IF n = m THEN KeptStep(f, markers, S, m) ELSE f[n]]
  <2>2. \A n \in 0 .. m - 1 : g[n] = f[n] /\ f[n] = KeptStep(f, markers, S, n)
    BY <2>1
  <2>3. \A n \in 0 .. m : n # 0 => g[n - 1] = f[n - 1]
    <3>1. \A n \in 0 .. m : n # 0 => n - 1 \in 0 .. m - 1
      BY <1>1
    <3> HIDE DEF g
    <3>2. QED
      BY <2>2, <3>1
  <2>4. \A n \in 0 .. m : g[n] = KeptStep(f, markers, S, n)
    <3>1. \A n \in 0 .. m : n = m \/ n \in 0 .. m - 1
      BY <1>1
    <3>2. m \in 0 .. m
      BY <1>1
    <3>3. g[m] = KeptStep(f, markers, S, m)
      BY <3>2
    <3> HIDE DEF g
    <3>4. QED
      BY <2>2, <3>1, <3>3
  <2> HIDE DEF g
  <2>5. \A n \in 0 .. m : KeptStep(f, markers, S, n) = KeptStep(g, markers, S, n)
    BY <2>3 DEF KeptStep
  <2>6. g = [n \in 0 .. m |-> g[n]]
    BY DEF g
  <2>7. g = [n \in 0 .. m |-> KeptStep(g, markers, S, n)]
    BY <2>4, <2>5, <2>6
  <2>8. QED
    BY <2>7, Zenon
<1> HIDE DEF Has
<1>4. P \in [0 .. Len(markers) -> BOOLEAN] /\ P[0] /\ \A n \in 1 .. Len(markers) : P[n - 1] => P[n]
  <2>1. \A n \in 0 .. Len(markers) : Has(n) \in BOOLEAN
    BY DEF Has
  <2>2. QED
    BY <1>1, <1>2, <1>3, <2>1
<1>5. P[Len(markers)]
  BY <1>1, <1>4, FirstFailure, Zenon
<1>6. QED
  BY <1>1, <1>5 DEF Has

\* What is kept are markers of the sequence, each of them once, and all of them if none is left out.
LEMMA KeptMarkers ==
  ASSUME NEW K, NEW markers \in Seq(K), NEW S
  PROVE  /\ OfKinds(markers, S) \in Seq(K \cap S)
         /\ \E g \in [DOMAIN OfKinds(markers, S) -> DOMAIN markers] :
              /\ \A i \in DOMAIN OfKinds(markers, S) : OfKinds(markers, S)[i] = markers[g[i]]
              /\ \A i, j \in DOMAIN OfKinds(markers, S) : g[i] = g[j] => i = j
         /\ K \subseteq S => OfKinds(markers, S) = markers
<1> DEFINE N == Len(markers)
           f == CHOOSE f : f = [n \in 0 .. N |-> KeptStep(f, markers, S, n)]
<1>1. OfKinds(markers, S) = f[N]
  BY DEF OfKinds, KeptStep
<1>2. N \in Nat /\ DOMAIN markers = 1 .. N
  OBVIOUS
<1>3. f = [n \in 0 .. N |-> KeptStep(f, markers, S, n)]
  BY KeptDefined
<1> HIDE DEF f, N
<1>4. f[0] = <<>>
  BY <1>2, <1>3 DEF KeptStep
<1>5. ASSUME NEW n \in 1 .. N
      PROVE  f[n] = IF markers[n] \in S THEN Append(f[n - 1], markers[n]) ELSE f[n - 1]
  <2>1. f[n] = KeptStep(f, markers, S, n)
    BY <1>2, <1>3
  <2>2. QED
    BY <1>2, <2>1 DEF KeptStep
<1> DEFINE Ok(n) == /\ f[n] \in Seq(K \cap S)
                    /\ \E g \in [1 .. Len(f[n]) -> 1 .. n] :
                         /\ \A i \in 1 .. Len(f[n]) : f[n][i] = markers[g[i]]
                         /\ \A i, j \in 1 .. Len(f[n]) : g[i] = g[j] => i = j
                    /\ K \subseteq S => Len(f[n]) = n /\ \A i \in 1 .. n : f[n][i] = markers[i]
           P == [n \in 0 .. N |-> Ok(n)]
<1>6. Ok(0)
  <2>1. f[0] \in Seq(K \cap S) /\ Len(f[0]) = 0
    BY <1>4, EmptySeq
  <2> DEFINE g == [i \in 1 .. 0 |-> i]
  <2>2. g \in [1 .. Len(f[0]) -> 1 .. 0]
    BY <2>1
  <2>3. \A i : i \notin 1 .. 0
    OBVIOUS
  <2>4. QED
    BY <2>1, <2>2, <2>3
<1>7. ASSUME NEW n \in 1 .. N, Ok(n - 1) PROVE Ok(n)
  <2> DEFINE a == f[n - 1]
             m == markers[n]
  <2>1. /\ a \in Seq(K \cap S) /\ Len(a) \in Nat /\ m \in K
        /\ f[n] = IF m \in S THEN Append(a, m) ELSE a
    BY <1>2, <1>5, <1>7
  <2>2. PICK g \in [1 .. Len(a) -> 1 .. n - 1] :
          /\ \A i \in 1 .. Len(a) : a[i] = markers[g[i]]
          /\ \A i, j \in 1 .. Len(a) : g[i] = g[j] => i = j
    BY <1>7
  <2>3. K \subseteq S => Len(a) = n - 1 /\ \A i \in 1 .. n - 1 : a[i] = markers[i]
    BY <1>7
  <2> HIDE DEF a, m
  <2>4. CASE m \in S
    <3> DEFINE b == Append(a, m)
               h == [i \in 1 .. Len(a) + 1 |-> IF i <= Len(a) THEN g[i] ELSE n]
    <3>1. f[n] = b /\ m \in K \cap S
      BY <2>1, <2>4
    <3>2. b \in Seq(K \cap S) /\ Len(b) = Len(a) + 1 /\ b[Len(a) + 1] = m
          /\ \A i \in 1 .. Len(a) : b[i] = a[i]
      BY <2>1, <3>1, AppendProperties
    <3> HIDE DEF b
    <3>3. h \in [1 .. Len(b) -> 1 .. n]
      BY <1>2, <2>1, <2>2, <3>2
    <3>4. \A i \in 1 .. Len(a) : h[i] = g[i] /\ h[i] \in 1 .. n - 1
      BY <2>1, <2>2
    <3>5. h[Len(a) + 1] = n
      BY <2>1
    <3> HIDE DEF h
    <3>6. \A i \in 1 .. Len(b) : i \in 1 .. Len(a) \/ i = Len(a) + 1
      BY <2>1, <3>2
    <3>7. \A i \in 1 .. Len(b) : b[i] = markers[h[i]]
      BY <2>2, <3>2, <3>4, <3>5, <3>6 DEF m
    <3>8. \A i, j \in 1 .. Len(b) : h[i] = h[j] => i = j
      BY <2>2, <3>4, <3>5, <3>6
    <3>9. K \subseteq S => Len(b) = n /\ \A i \in 1 .. n : b[i] = markers[i]
      BY <2>1, <2>3, <3>2, <3>6 DEF m
    <3>10. QED
      BY <3>1, <3>2, <3>3, <3>7, <3>8, <3>9
  <2>5. CASE m \notin S
    <3>1. f[n] = a /\ ~(K \subseteq S)
      BY <2>1, <2>5
    <3>2. g \in [1 .. Len(a) -> 1 .. n]
      BY <2>2
    <3>3. QED
      BY <2>1, <2>2, <3>1, <3>2
  <2>6. QED
    BY <2>4, <2>5
<1> HIDE DEF Ok
<1>8. P \in [0 .. N -> BOOLEAN] /\ P[0] /\ \A n \in 1 .. N : P[n - 1] => P[n]
  <2>1. \A n \in 0 .. N : Ok(n) \in BOOLEAN
    BY DEF Ok
  <2>2. QED
    BY <1>2, <1>6, <1>7, <2>1
<1>9. Ok(N)
  <2>1. P[N]
    BY <1>2, <1>8, FirstFailure, Zenon
  <2>2. QED
    BY <1>2, <2>1
<1>10. f[N] \in Seq(K \cap S) /\ DOMAIN f[N] = 1 .. Len(f[N])
  BY <1>9 DEF Ok
<1>11. K \subseteq S => f[N] = markers
  <2>1. SUFFICES ASSUME K \subseteq S PROVE f[N] = markers
    OBVIOUS
  <2>2. Len(f[N]) = N /\ \A i \in 1 .. N : f[N][i] = markers[i]
    BY <1>9, <2>1 DEF Ok
  <2>3. f[N] \in Seq(K) /\ markers \in Seq(K) /\ Len(markers) = N
    BY <1>10, <2>1 DEF N
  <2>4. QED
    BY <2>2, <2>3, SeqEqual
<1>12. PICK g \in [1 .. Len(f[N]) -> 1 .. N] :
         /\ \A i \in 1 .. Len(f[N]) : f[N][i] = markers[g[i]]
         /\ \A i, j \in 1 .. Len(f[N]) : g[i] = g[j] => i = j
  BY <1>9 DEF Ok
<1> DEFINE r == f[N]
<1>13. r = OfKinds(markers, S) /\ DOMAIN r = 1 .. Len(r) /\ DOMAIN markers = 1 .. N
  BY <1>1, <1>2, <1>10
<1>14. \E h \in [DOMAIN r -> DOMAIN markers] :
         /\ \A i \in DOMAIN r : r[i] = markers[h[i]]
         /\ \A i, j \in DOMAIN r : h[i] = h[j] => i = j
  <2>1. /\ g \in [1 .. Len(r) -> 1 .. N]
        /\ \A i \in 1 .. Len(r) : r[i] = markers[g[i]]
        /\ \A i, j \in 1 .. Len(r) : g[i] = g[j] => i = j
    BY <1>12
  <2> HIDE DEF r
  <2>2. g \in [DOMAIN r -> DOMAIN markers]
    BY <1>13, <2>1
  <2>3. \A i \in DOMAIN r : r[i] = markers[g[i]]
    BY <1>13, <2>1
  <2>4. \A i, j \in DOMAIN r : g[i] = g[j] => i = j
    BY <1>13, <2>1
  <2>5. QED
    BY <2>2, <2>3, <2>4
<1>15. r \in Seq(K \cap S) /\ (K \subseteq S => r = markers)
  BY <1>10, <1>11
<1> HIDE DEF r
<1>16. QED
  BY <1>13, <1>14, <1>15

\* Of the markers an encoder writes itself there is one at most.
OneEach(markers) ==
  \A i, j \in DOMAIN markers : markers[i] = markers[j] /\ markers[i] \in {"JFIF", "Adobe"} => i = j

\* A header whose Exif marker comes first tells the size in it.
TellsItsSize(p) ==
  p.markers # <<>> /\ Head(p.markers) = "Exif" /\ p.exif # <<>> => p.exif = <<p.width, p.height>>

SoundMarkers(p) == p.markers \in Seq(MarkerKinds) /\ OneEach(p.markers) /\ TellsItsSize(p)

\* What the destination was given when its parameters were adjusted.
MarkersDecided ==
  stage = "adjusted" =>
    /\ options \in Options
    /\ dst.width = info.width /\ dst.height = info.height
    /\ dst.jfif = (dst.space # "RGB" /\ ~ExifFirst(source, options))
    /\ dst.adobe = (dst.space = "RGB")
    /\ dst.exif = NewExif(source, options, info)

MarkersInv == SoundMarkers(file) /\ SoundMarkers(source) /\ MarkersDecided

LEMMA KeptOnce ==
  ASSUME NEW markers \in Seq(MarkerKinds), OneEach(markers), NEW S
  PROVE  /\ OfKinds(markers, S) \in Seq(MarkerKinds) /\ OneEach(OfKinds(markers, S))
         /\ \A i \in DOMAIN OfKinds(markers, S) : OfKinds(markers, S)[i] \in S
<1> DEFINE r == OfKinds(markers, S)
<1>1. r \in Seq(MarkerKinds \cap S)
  BY KeptMarkers
<1>2. PICK g \in [DOMAIN r -> DOMAIN markers] :
        /\ \A i \in DOMAIN r : r[i] = markers[g[i]]
        /\ \A i, j \in DOMAIN r : g[i] = g[j] => i = j
  BY KeptMarkers
<1> HIDE DEF r
<1>3. OneEach(r)
  BY <1>2 DEF OneEach
<1>4. r \in Seq(MarkerKinds) /\ \A i \in DOMAIN r : r[i] \in S
  BY <1>1
<1>5. QED
  BY <1>3, <1>4 DEF r

\* The first marker that was saved is an Exif marker only if it is the first of the file.
LEMMA SavedMarkers ==
  ASSUME NEW p, p.markers \in Seq(MarkerKinds), OneEach(p.markers), NEW o \in Options
  PROVE  /\ Saved(p, o) \in Seq(MarkerKinds) /\ OneEach(Saved(p, o))
         /\ ExifFirst(p, o) => p.markers # <<>> /\ Head(p.markers) = "Exif"
<1> DEFINE kinds == CASE o.copy = "all" -> MarkerKinds [] o.copy = "comments" -> {"COM"} [] OTHER -> {}
           r == Saved(p, o)
<1>1. r = OfKinds(p.markers, kinds)
  BY DEF Saved
<1>2. kinds = MarkerKinds \/ "Exif" \notin kinds
  OBVIOUS
<1> HIDE DEF kinds
<1>3. r \in Seq(MarkerKinds) /\ OneEach(r) /\ \A i \in DOMAIN r : r[i] \in kinds
  BY <1>1, KeptOnce
<1>4. kinds = MarkerKinds => r = p.markers
  BY <1>1, KeptMarkers
<1>5. ASSUME ExifFirst(p, o) PROVE p.markers # <<>> /\ Head(p.markers) = "Exif"
  <2>1. r # <<>> /\ Head(r) = "Exif"
    BY <1>5 DEF ExifFirst
  <2> HIDE DEF r
  <2>2. 1 \in DOMAIN r /\ r[1] = "Exif"
    BY <1>3, <2>1
  <2>3. kinds = MarkerKinds
    BY <1>2, <1>3, <2>2
  <2>4. QED
    BY <1>4, <2>1, <2>3
<1>6. QED
  BY <1>3, <1>5

\* A file has the encoder's own markers first, and none of those again.
LEMMA WrittenAreSound ==
  ASSUME NEW s, SoundMarkers(s), NEW o \in Options, NEW d, NEW i,
         d.width = i.width, d.height = i.height,
         d.jfif = (d.space # "RGB" /\ ~ExifFirst(s, o)), d.adobe = (d.space = "RGB"),
         d.exif = NewExif(s, o, i)
  PROVE  SoundMarkers([markers |-> WrittenMarkers(s, d, o), exif |-> d.exif,
                       width |-> d.width, height |-> d.height])
<1> DEFINE own == (IF d.jfif THEN <<"JFIF">> ELSE <<>>) \o (IF d.adobe THEN <<"Adobe">> ELSE <<>>)
           r == OfKinds(Saved(s, o), MarkerKinds \ Range(own))
           w == own \o r
<1>1. WrittenMarkers(s, d, o) = w
  BY DEF WrittenMarkers
<1>2. /\ Saved(s, o) \in Seq(MarkerKinds) /\ OneEach(Saved(s, o))
      /\ ExifFirst(s, o) => s.markers # <<>> /\ Head(s.markers) = "Exif"
  BY SavedMarkers DEF SoundMarkers
<1>3. /\ own \in {<<>>, <<"JFIF">>, <<"Adobe">>}
      /\ own = <<>> => ExifFirst(s, o)
  <2>1. CASE d.space = "RGB"
    <3>1. d.jfif = FALSE /\ d.adobe = TRUE
      BY <2>1
    <3>2. own = <<>> \o <<"Adobe">>
      BY <3>1
    <3>3. QED
      BY <3>2
  <2>2. CASE d.space # "RGB" /\ ExifFirst(s, o)
    <3>1. d.jfif = FALSE /\ d.adobe = FALSE
      BY <2>2
    <3>2. own = <<>> \o <<>>
      BY <3>1
    <3>3. QED
      BY <2>2, <3>2
  <2>3. CASE d.space # "RGB" /\ ~ExifFirst(s, o)
    <3>1. d.jfif = TRUE /\ d.adobe = FALSE
      BY <2>3
    <3>2. own = <<"JFIF">> \o <<>>
      BY <3>1
    <3>3. QED
      BY <3>2
  <2>4. QED
    BY <2>1, <2>2, <2>3
<1>4. /\ r \in Seq(MarkerKinds) /\ OneEach(r)
      /\ \A k \in DOMAIN r : r[k] \in MarkerKinds \ Range(own)
  BY <1>2, KeptOnce
<1> HIDE DEF own, r
<1>5. /\ own \in Seq(MarkerKinds) /\ OneEach(own) /\ Len(own) \in Nat
      /\ Head(own) = "Exif" => own = <<>>
  <2>1. "JFIF" \in MarkerKinds /\ "Adobe" \in MarkerKinds
    BY DEF MarkerKinds
  <2>2. CASE own = <<>>
    BY <2>2 DEF OneEach
  <2>3. CASE own = <<"JFIF">>
    BY <2>1, <2>3 DEF OneEach
  <2>4. CASE own = <<"Adobe">>
    BY <2>1, <2>4 DEF OneEach
  <2>5. QED
    BY <1>3, <2>2, <2>3, <2>4
<1>6. /\ w \in Seq(MarkerKinds) /\ Len(w) = Len(own) + Len(r)
      /\ \A k \in 1 .. Len(w) : w[k] = IF k <= Len(own) THEN own[k] ELSE r[k - Len(own)]
  BY <1>4, <1>5, ConcatProperties
<1> HIDE DEF w
<1>7. OneEach(w)
  <2>1. SUFFICES ASSUME NEW j \in 1 .. Len(w), NEW k \in 1 .. Len(w), w[j] = w[k],
                        w[j] \in {"JFIF", "Adobe"}
                 PROVE  j = k
    BY <1>6 DEF OneEach
  <2>2. \A a \in 1 .. Len(own) : own[a] \in Range(own)
    BY <1>5 DEF Range
  <2>3. \A b \in 1 .. Len(r) : r[b] \notin Range(own)
    BY <1>4
  <2>4. Len(r) \in Nat /\ DOMAIN own = 1 .. Len(own) /\ DOMAIN r = 1 .. Len(r)
    BY <1>4, <1>5
  <2>5. CASE j <= Len(own) /\ k <= Len(own)
    <3>1. w[j] = own[j] /\ w[k] = own[k] /\ j \in DOMAIN own /\ k \in DOMAIN own
      BY <1>6, <2>4, <2>5
    <3>2. QED
      BY <1>5, <2>1, <3>1 DEF OneEach
  <2>6. CASE j > Len(own) /\ k > Len(own)
    <3>1. /\ w[j] = r[j - Len(own)] /\ w[k] = r[k - Len(own)]
          /\ j - Len(own) \in DOMAIN r /\ k - Len(own) \in DOMAIN r
      BY <1>5, <1>6, <2>4, <2>6
    <3>2. j - Len(own) = k - Len(own)
      BY <1>4, <2>1, <3>1 DEF OneEach
    <3>3. QED
      BY <1>5, <2>1, <2>6, <3>2
  <2>7. CASE j <= Len(own) /\ k > Len(own)
    <3>1. w[j] = own[j] /\ j \in 1 .. Len(own) /\ w[k] = r[k - Len(own)] /\ k - Len(own) \in 1 .. Len(r)
      BY <1>5, <1>6, <2>4, <2>7
    <3>2. QED
      BY <2>1, <2>2, <2>3, <3>1
  <2>8. CASE j > Len(own) /\ k <= Len(own)
    <3>1. w[k] = own[k] /\ k \in 1 .. Len(own) /\ w[j] = r[j - Len(own)] /\ j - Len(own) \in 1 .. Len(r)
      BY <1>5, <1>6, <2>4, <2>8
    <3>2. QED
      BY <2>1, <2>2, <2>3, <3>1
  <2>9. QED
    BY <1>5, <2>5, <2>6, <2>7, <2>8
<1>8. ASSUME w # <<>>, Head(w) = "Exif", d.exif # <<>>
      PROVE  d.exif = <<d.width, d.height>>
  <2>1. own = <<>>
    <3>1. SUFFICES ASSUME own # <<>> PROVE FALSE
      OBVIOUS
    <3>2. Len(own) >= 1 /\ Len(w) >= 1
      BY <1>4, <1>5, <1>6, <3>1
    <3>3. Head(w) = w[1] /\ w[1] = own[1] /\ own[1] = Head(own)
      BY <1>5, <1>6, <3>2
    <3>4. QED
      BY <1>5, <1>8, <3>1, <3>3
  <2>2. ExifFirst(s, o) /\ s.markers # <<>> /\ Head(s.markers) = "Exif"
    BY <1>2, <1>3, <2>1
  <2>3. s.exif # <<>> => s.exif = <<s.width, s.height>>
    BY <2>2 DEF SoundMarkers, TellsItsSize
  <2>4. QED
    BY <1>8, <2>2, <2>3 DEF NewExif
<1>9. QED
  BY <1>1, <1>6, <1>7, <1>8 DEF SoundMarkers, TellsItsSize

\* What the theorem asks of the files that are read: one JFIF and one Adobe marker at most, as
\* jcopy_markers_execute does not look for duplicates among those it copies.
OneHeaderFirst == \A p \in Pictures : OneEach(p.markers)

LEMMA InitMarkers ==
  ASSUME OneHeaderFirst, Init
  PROVE  MarkersInv
<1>1. PICK p \in Pictures :
        /\ file.markers = p.markers /\ file.width = p.width /\ file.height = p.height
        /\ file.exif = IF Contains(p.markers, "Exif") THEN <<p.width, p.height>> ELSE <<>>
  <2>1. PICK p \in Pictures :
          file = [width |-> p.width, height |-> p.height, space |-> p.space, comps |-> p.comps,
                  turned |-> FALSE, markers |-> p.markers,
                  exif |-> IF Contains(p.markers, "Exif") THEN <<p.width, p.height>> ELSE <<>>,
                  coefs |-> [c \in DOMAIN p.comps |->
                               [q \in ArrayOf(p, c) |->
                                  IF q \in Visible(p, c) THEN Block(q[1], q[2]) ELSE Padding]]]
    BY DEF Init
  <2>2. QED
    BY <2>1
<1>2. p.markers \in Seq(MarkerKinds) /\ OneEach(p.markers)
  BY TransformAssumption DEF OneHeaderFirst
<1>3. file.exif # <<>> => file.exif = <<file.width, file.height>>
  BY <1>1
<1>4. SoundMarkers(file)
  BY <1>1, <1>2, <1>3 DEF SoundMarkers, TellsItsSize
<1>5. source = file /\ stage = "file"
  BY DEF Init
<1>6. QED
  BY <1>4, <1>5 DEF MarkersInv, MarkersDecided

LEMMA NextMarkers ==
  ASSUME TransformInv, MarkersInv, [Next]_vars
  PROVE  MarkersInv'
<1>1. CASE Request
  <2>1. file' = file /\ source' = file /\ stage' # "adjusted"
    BY <1>1 DEF Request
  <2>2. QED
    BY <2>1 DEF MarkersInv, SoundMarkers, TellsItsSize, MarkersDecided
<1>2. CASE Adjust
  <2>1. UNCHANGED <<file, source, options, info>> /\ stage = "requested"
    BY <1>2 DEF Adjust
  <2>2. options \in Options
    BY <2>1 DEF TransformInv, Asked, Requested
  <2>3. ASSUME stage' = "adjusted"
        PROVE  /\ dst'.width = info.width /\ dst'.height = info.height
               /\ dst'.jfif = (dst'.space # "RGB" /\ ~ExifFirst(source, options))
               /\ dst'.adobe = (dst'.space = "RGB")
               /\ dst'.exif = NewExif(source, options, info)
    <3> DEFINE space == IF options.gray THEN "gray" ELSE source.space
               jfif == space # "RGB" /\ ~ExifFirst(source, options)
               adobe == space = "RGB"
    <3>1. dst' = [width |-> info.width, height |-> info.height, space |-> space,
                  comps |-> DstComps(source, options, info),
                  turned |-> DstTurned(source, options),
                  jfif |-> jfif, adobe |-> adobe,
                  exif |-> NewExif(source, options, info)]
      BY <1>2, <2>3 DEF Adjust
    <3> HIDE DEF space, jfif, adobe
    <3>2. /\ dst'.width = info.width /\ dst'.height = info.height /\ dst'.space = space
          /\ dst'.jfif = jfif /\ dst'.adobe = adobe /\ dst'.exif = NewExif(source, options, info)
      BY <3>1
    <3>3. QED
      BY <3>2, Zenon DEF jfif, adobe
  <2>4. MarkersDecided'
    BY <2>1, <2>2, <2>3, Zenon DEF MarkersDecided, ExifFirst, NewExif, Saved
  <2>5. QED
    BY <2>1, <2>4 DEF MarkersInv, SoundMarkers, TellsItsSize
<1>3. CASE Execute
  <2>1. /\ stage = "adjusted" /\ stage' = "file" /\ source' = source
        /\ file'.markers = WrittenMarkers(source, dst, options) /\ file'.exif = dst.exif
        /\ file'.width = dst.width /\ file'.height = dst.height
    BY <1>3 DEF Execute
  <2> DEFINE m == [markers |-> WrittenMarkers(source, dst, options), exif |-> dst.exif,
                   width |-> dst.width, height |-> dst.height]
  <2>2. SoundMarkers(m)
    BY <2>1, WrittenAreSound DEF MarkersInv, MarkersDecided
  <2>3. m.markers = file'.markers /\ m.exif = file'.exif /\ m.width = file'.width /\ m.height = file'.height
    BY <2>1
  <2> HIDE DEF m
  <2>4. SoundMarkers(file')
    BY <2>2, <2>3 DEF SoundMarkers, TellsItsSize
  <2>5. QED
    BY <2>1, <2>4 DEF MarkersInv, MarkersDecided, SoundMarkers, TellsItsSize
<1>4. CASE UNCHANGED vars
  BY <1>4 DEF vars, MarkersInv, MarkersDecided, SoundMarkers, TellsItsSize, ExifFirst, NewExif, Saved
<1>5. QED
  BY <1>1, <1>2, <1>3, <1>4 DEF Next

\* What the headers say stays true however often a picture is turned and cropped: the tables are
\* transposed with the blocks, an Exif marker in front tells the size, and the markers the encoder
\* writes itself are not copied as well (jtransform_adjust_parameters, jcopy_markers_execute).
THEOREM HeadersAlwaysAgree ==
  ASSUME OneHeaderFirst
  PROVE  Spec => []HeadersAgree
<1>1. Init => MarkersInv
  BY InitMarkers
<1>2. TransformInv /\ MarkersInv /\ [Next]_vars => MarkersInv'
  BY NextMarkers
<1>3. TransformInv /\ MarkersInv => HeadersAgree
  <2>1. TransformInv => TablesFollowBlocks
    BY DEF TransformInv, Pictured, IsPicture, TablesFollowBlocks
  <2>2. MarkersInv => ExifTellsTheSize /\ OneHeader
    BY DEF MarkersInv, SoundMarkers, TellsItsSize, ExifTellsTheSize, OneEach, OneHeader
  <2>3. QED
    BY <2>1, <2>2 DEF HeadersAgree
<1>4. Spec => []TransformInv
  BY Invariance
<1>5. QED
  BY <1>1, <1>2, <1>3, <1>4, PTL DEF Spec
=============================================================================
