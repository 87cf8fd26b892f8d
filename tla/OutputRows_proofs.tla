---------------------------- MODULE OutputRows_proofs ----------------------------
(***************************************************************************)
(* What the output side of the decompressor guarantees for pictures of any *)
(* height and sampling, at any scale, and for any requests of lines.       *)
(***************************************************************************)
EXTENDS OutputRows, SequenceTheorems, WellFoundedInduction, TLAPS

-----------------------------------------------------------------------------
(* Division *)

LEMMA Products ==
  ASSUME NEW a \in Int, NEW b \in Int, NEW c \in Nat, a <= b
  PROVE  a * c <= b * c /\ c * a <= c * b
OBVIOUS

LEMMA LeastFactor ==
  ASSUME NEW a \in Int, NEW b \in Int, NEW c \in Nat \ {0}, a * c < b * c
  PROVE  a < b
<1>1. SUFFICES ASSUME b <= a PROVE FALSE
  OBVIOUS
<1>2. QED
  BY <1>1, Products

\* Quotient and remainder are the only numbers that make up a number.
LEMMA Divided ==
  ASSUME NEW n \in Int, NEW b \in Nat \ {0}
  PROVE  /\ n \div b \in Int /\ n % b \in 0 .. b - 1
         /\ n = (n \div b) * b + (n % b)
OBVIOUS

LEMMA DividedBy ==
  ASSUME NEW b \in Nat \ {0}, NEW q \in Int, NEW r \in 0 .. b - 1
  PROVE  (q * b + r) \div b = q /\ (q * b + r) % b = r
<1> DEFINE n == q * b + r
           k == n \div b
           m == n % b
<1>1. n \in Int /\ k \in Int /\ m \in 0 .. b - 1 /\ n = k * b + m
  <2>1. n \in Int
    OBVIOUS
  <2> HIDE DEF n
  <2>2. QED
    BY <2>1, Divided
<1>2. n < q * b + b /\ q * b <= n /\ k * b <= n /\ n < k * b + b /\ q * b \in Int /\ k * b \in Int
  <2> HIDE DEF k, m
  <2>1. QED
    BY <1>1
<1> HIDE DEF k, n, m
<1>3. CASE k < q
  <2>1. (k + 1) * b <= q * b
    BY <1>1, <1>3, Products
  <2>2. QED
    BY <1>1, <1>2, <2>1
<1>4. CASE q < k
  <2>1. (q + 1) * b <= k * b
    BY <1>1, <1>4, Products
  <2>2. QED
    BY <1>1, <1>2, <2>1
<1>5. CASE k = q
  BY <1>1, <1>5 DEF k, m, n
<1>6. QED
  BY <1>1, <1>3, <1>4, <1>5

\* The quotient rounded up is the least number of parts that hold all.
LEMMA CeilBounds ==
  ASSUME NEW a \in Nat, NEW b \in Nat \ {0}
  PROVE  /\ Ceil(a, b) \in Nat
         /\ \A k \in Int : k < Ceil(a, b) <=> k * b < a
<1> DEFINE q == (a + b - 1) \div b
<1>1. q \in Int /\ q * b <= a + b - 1 /\ a + b - 1 < q * b + b
  OBVIOUS
<1>2. q \in Nat
  OBVIOUS
<1>3. ASSUME NEW k \in Int PROVE k < q <=> k * b < a
  <2> HIDE DEF q
  <2>1. CASE k < q
    <3>1. (k + 1) * b <= q * b
      BY <1>1, <2>1, Products
    <3>2. k * b + b <= q * b
      BY <1>1, <3>1
    <3>3. QED
      BY <1>1, <2>1, <3>2
  <2>2. CASE q <= k
    <3>1. q * b <= k * b
      BY <1>1, <2>2, Products
    <3>2. QED
      BY <1>1, <2>2, <3>1
  <2>3. QED
    BY <1>1, <2>1, <2>2
<1>4. QED
  BY <1>2, <1>3 DEF Ceil

\* Leaving out a common factor changes no quotient.
LEMMA CommonFactor ==
  ASSUME NEW a \in Nat, NEW b \in Nat \ {0}, NEW f \in Nat \ {0}
  PROVE  Ceil(a * f, f * b) = Ceil(a, b)
<1>1. a * f \in Nat /\ f * b \in Nat \ {0}
  OBVIOUS
<1>2. Ceil(a, b) \in Nat /\ \A k \in Int : k < Ceil(a, b) <=> k * b < a
  BY CeilBounds
<1>3. Ceil(a * f, f * b) \in Nat /\ \A k \in Int : k < Ceil(a * f, f * b) <=> k * (f * b) < a * f
  BY <1>1, CeilBounds
<1>4. ASSUME NEW k \in Int PROVE k * (f * b) < a * f <=> k * b < a
  <2>1. k * (f * b) = (k * b) * f
    OBVIOUS
  <2>2. k * b < a => (k * b) * f < a * f
    <3>1. SUFFICES ASSUME k * b < a PROVE (k * b) * f < a * f
      OBVIOUS
    <3>2. (k * b + 1) * f <= a * f
      BY <3>1, Products
    <3>3. QED
      BY <3>2
  <2>3. (k * b) * f < a * f => k * b < a
    BY LeastFactor
  <2>4. QED
    BY <2>1, <2>2, <2>3
<1>5. \A k \in Int : k < Ceil(a, b) <=> k < Ceil(a * f, f * b)
  BY <1>2, <1>3, <1>4
<1>6. QED
  BY <1>2, <1>3, <1>5

LEMMA SameOrder ==
  ASSUME NEW a \in Int, NEW b \in Int, NEW c \in Nat \ {0}
  PROVE  a * c < b * c <=> a < b
<1>1. a * c < b * c => a < b
  BY LeastFactor
<1>2. ASSUME a < b PROVE a * c < b * c
  <2>1. (a + 1) * c <= b * c
    BY <1>2, Products
  <2>2. QED
    BY <2>1
<1>3. QED
  BY <1>1, <1>2

LEMMA CommonDivisor ==
  ASSUME NEW a \in Nat, NEW b \in Nat \ {0}, NEW f \in Nat \ {0}
  PROVE  (a * f) \div (b * f) = a \div b
<1> DEFINE q == a \div b
           m == a % b
<1>1. q \in Int /\ m \in 0 .. b - 1 /\ a = q * b + m
  BY Divided
<1> HIDE DEF q, m
<1>2. b * f \in Nat \ {0} /\ m * f \in Nat /\ m * f < b * f
  BY <1>1, SameOrder
<1>3. a * f = q * (b * f) + m * f
  BY <1>1
<1>4. (q * (b * f) + m * f) \div (b * f) = q
  BY <1>1, <1>2, DividedBy
<1>5. QED
  BY <1>3, <1>4 DEF q

\* As many iMCU rows begin above the bottom of the scaled picture as of the picture.
LEMMA RowsBegin ==
  ASSUME NEW h \in Nat, NEW m \in Nat \ {0}, NEW v \in Nat \ {0}, NEW size \in Nat \ {0}, NEW k \in Nat
  PROVE  k < Ceil(h, v * size) <=> k * m * v < Ceil(h * m, size)
<1>1. v * size \in Nat \ {0} /\ h * m \in Nat /\ k * m * v \in Int /\ k * (v * size) \in Int
  OBVIOUS
<1>2. k < Ceil(h, v * size) <=> k * (v * size) < h
  BY <1>1, CeilBounds
<1>3. k * m * v < Ceil(h * m, size) <=> (k * m * v) * size < h * m
  BY <1>1, CeilBounds
<1>4. (k * m * v) * size = (k * (v * size)) * m
  OBVIOUS
<1>5. (k * (v * size)) * m < h * m <=> k * (v * size) < h
  BY <1>1, SameOrder
<1>6. QED
  BY <1>2, <1>3, <1>4, <1>5

\* A scanline of the scaled picture lies on a row of every component's plane.
LEMMA LiesInPlane ==
  ASSUME NEW h \in Nat, NEW m \in Nat \ {0}, NEW v \in Nat \ {0}, NEW size \in Nat \ {0},
         NEW n \in Nat \ {0}, NEW r \in Nat, r < Ceil(h * m, size)
  PROVE  (r * n) \div v \in Nat /\ (r * n) \div v < Ceil(h * (n * m), v * size)
<1> DEFINE q == (r * n) \div v
<1>1. v * size \in Nat \ {0} /\ h * m \in Nat /\ h * (n * m) \in Nat /\ r * n \in Nat /\ n * size \in Nat \ {0}
  OBVIOUS
<1>2. q \in Nat /\ q * v <= r * n
  <2> DEFINE x == r * n
  <2>1. x \div v \in Int /\ x % v \in 0 .. v - 1 /\ x = (x \div v) * v + (x % v)
    <3>1. x \in Int
      OBVIOUS
    <3> HIDE DEF x
    <3>2. QED
      BY <3>1, Divided
  <2>2. q >= 0
    BY <1>1
  <2>3. QED
    BY <2>1, <2>2
<1> HIDE DEF q
<1>3. r * size < h * m
  BY <1>1, CeilBounds
<1>4. (q * v) * size <= (r * n) * size
  BY <1>1, <1>2, Products
<1>5. (r * size) * n < (h * m) * n
  BY <1>1, <1>3, SameOrder
<1>6. (r * n) * size = (r * size) * n /\ (h * m) * n = h * (n * m) /\ q * (v * size) = (q * v) * size
  BY <1>2
<1>7. q * (v * size) < h * (n * m)
  BY <1>2, <1>4, <1>5, <1>6
<1>8. q < Ceil(h * (n * m), v * size)
  BY <1>1, <1>2, <1>7, CeilBounds
<1>9. QED
  BY <1>2, <1>8 DEF q

\* The rows a component has in the last iMCU row lie in its last block rows.
LEMMA LiesInBlocks ==
  ASSUME NEW hv \in Nat, NEW s \in Nat \ {0}, NEW d \in Nat \ {0}, NEW k \in Nat, NEW v \in Nat,
         NEW j \in Nat, k * (v * s) + j < Ceil(hv * s, d)
  PROVE  j < (Ceil(hv, d) - k * v) * s
<1> DEFINE x == k * (v * s) + j
           q == x \div s
           b == Ceil(hv, d)
<1>1. x \in Nat /\ hv * s \in Nat
  OBVIOUS
<1>2. x * d < hv * s
  BY <1>1, CeilBounds
<1>3. x = (k * v) * s + j
  OBVIOUS
<1> HIDE DEF x
<1>4. q \in Int /\ q * s <= x /\ x < q * s + s
  BY <1>1, Divided
<1> HIDE DEF q
<1>5. (q * d) * s < hv * s
  <2>1. (q * s) * d <= x * d
    BY <1>1, <1>4, Products
  <2>2. (q * s) * d = (q * d) * s
    BY <1>4
  <2>3. QED
    BY <1>1, <1>2, <1>4, <2>1, <2>2
<1>6. q * d < hv
  BY <1>4, <1>5, SameOrder
<1>7. b \in Nat /\ q < b
  BY <1>4, <1>6, CeilBounds
<1> HIDE DEF b
<1>8. (q + 1) * s <= b * s
  BY <1>4, <1>7, Products
<1>9. x < b * s
  BY <1>1, <1>4, <1>7, <1>8
<1>10. (b - k * v) * s = b * s - (k * v) * s
  BY <1>7
<1>11. QED
  BY <1>3, <1>7, <1>9, <1>10 DEF b

\* A row group of v lines takes n rows of a plane, each for v / n lines.
LEMMA RowOfGroup ==
  ASSUME NEW v \in 1 .. 4, NEW n \in 1 .. v, v % n = 0, NEW g \in Nat, NEW i \in 0 .. v - 1
  PROVE  ((g * v + i) * n) \div v = g * n + i \div (v \div n)
<1> DEFINE q == (i * n) \div v
           m == (i * n) % v
<1>1. q = i \div (v \div n)
  <2>1. CASE n = 1
    BY <2>1
  <2>2. CASE n = 2
    BY <2>2
  <2>3. CASE n = 3
    BY <2>3
  <2>4. CASE n = 4
    BY <2>4
  <2>5. QED
    BY <2>1, <2>2, <2>3, <2>4
<1>2. q \in Int /\ m \in 0 .. v - 1 /\ i * n = q * v + m
  BY Divided
<1> HIDE DEF q, m
<1>3. (g * v + i) * n = (g * n + q) * v + m
  BY <1>2
<1>4. ((g * n + q) * v + m) \div v = g * n + q
  BY <1>2, DividedBy
<1>5. QED
  BY <1>1, <1>3, <1>4

LEMMA FactorIsLess ==
  ASSUME NEW v \in 1 .. 4, NEW g \in Nat, g > 0, v % g = 0
  PROVE  g \in 1 .. v
<1>1. g > v => v % g = v
  OBVIOUS
<1>2. QED
  BY <1>1

LEMMA PositiveProduct ==
  ASSUME NEW a \in Nat \ {0}, NEW b \in Nat \ {0}
  PROVE  a * b \in Nat \ {0}
OBVIOUS

LEMMA CeilIsPositive ==
  ASSUME NEW a \in Nat \ {0}, NEW b \in Nat \ {0}
  PROVE  Ceil(a, b) \in Nat \ {0}
<1> DEFINE q == (a + b - 1) \div b
<1>1. q \in Int /\ b * q <= a + b - 1 /\ a + b - 1 < b * q + b
  OBVIOUS
<1>2. q >= 1
  <2> HIDE DEF q
  <2>1. SUFFICES ASSUME q <= 0 PROVE FALSE
    BY <1>1
  <2>2. b * q <= 0
    BY <1>1, <2>1
  <2>3. QED
    BY <1>1, <2>2
<1>3. QED
  BY <1>1, <1>2 DEF Ceil

LEMMA MaxOfFactors ==
  ASSUME NEW S \in SUBSET (1 .. 4), S # {}
  PROVE  Max(S) \in 1 .. 4
<1>1. \E x \in S : \A y \in S : x >= y
  <2>1. CASE 4 \in S
    BY <2>1
  <2>2. CASE 4 \notin S /\ 3 \in S
    BY <2>2
  <2>3. CASE 4 \notin S /\ 3 \notin S /\ 2 \in S
    BY <2>3
  <2>4. CASE 4 \notin S /\ 3 \notin S /\ 2 \notin S
    <3>1. PICK x \in S : TRUE
      OBVIOUS
    <3>2. \A y \in S : y = 1
      BY <2>4
    <3>3. QED
      BY <3>1, <3>2
  <2>5. QED
    BY <2>1, <2>2, <2>3, <2>4
<1>2. QED
  BY <1>1 DEF Max

LEMMA OfTwo ==
  ASSUME NEW a \in Int, NEW b \in Int
  PROVE  /\ Max({a, b}) = (IF a >= b THEN a ELSE b)
         /\ Min({a, b}) = (IF a <= b THEN a ELSE b)
<1>1. CASE a >= b
  BY <1>1 DEF Max, Min
<1>2. CASE a < b
  BY <1>2 DEF Max, Min
<1>3. QED
  BY <1>1, <1>2

-----------------------------------------------------------------------------
(* The geometry of a scaled picture *)

\* A picture of which at least one scanline is wanted.
Picture(p, q) ==
  /\ p.height \in Nat \ {0} /\ p.blockSize \in 1 .. 16
  /\ p.comps \in Seq([h : 1 .. 4, v : 1 .. 4]) /\ p.comps # <<>>
  /\ q.num \in Nat /\ q.denom \in Nat

LEMMA PictureSize ==
  ASSUME NEW p, NEW q, Picture(p, q)
  PROVE  p.height \in Nat \ {0} /\ p.blockSize \in Nat \ {0}
BY DEF Picture

LEMMA Sampling ==
  ASSUME NEW p, NEW q, Picture(p, q)
  PROVE  /\ Comps(p) = 1 .. Len(p.comps) /\ Len(p.comps) \in Nat \ {0}
         /\ \A c \in Comps(p) : p.comps[c] \in [h : 1 .. 4, v : 1 .. 4]
         /\ MaxH(p) \in 1 .. 4 /\ MaxV(p) \in 1 .. 4
<1>1. Comps(p) = 1 .. Len(p.comps) /\ Len(p.comps) \in Nat \ {0}
  BY EmptySeq DEF Picture, Comps
<1>2. \A c \in Comps(p) : p.comps[c] \in [h : 1 .. 4, v : 1 .. 4]
  BY <1>1, ElementOfSeq DEF Picture
<1> 1 \in Comps(p) /\ \A c \in Comps(p) : p.comps[c].h \in 1 .. 4 /\ p.comps[c].v \in 1 .. 4
  BY <1>1, <1>2
<1>3. MaxH(p) \in 1 .. 4
  <2> DEFINE S == {p.comps[c].h : c \in Comps(p)}
  <2>1. S \in SUBSET (1 .. 4) /\ S # {}
    BY <1>1, <1>2
  <2>2. QED
    BY <2>1, MaxOfFactors DEF MaxH
<1>4. MaxV(p) \in 1 .. 4
  <2> DEFINE S == {p.comps[c].v : c \in Comps(p)}
  <2>1. S \in SUBSET (1 .. 4) /\ S # {}
    BY <1>1, <1>2
  <2>2. QED
    BY <2>1, MaxOfFactors DEF MaxV
<1>5. QED
  BY <1>1, <1>2, <1>3, <1>4

\* A set of numbers has a least one, by the library's well-founded order.
LEMMA LeastNatural ==
  ASSUME NEW S \in SUBSET Nat, S # {}
  PROVE  Min(S) \in S /\ \A y \in S : Min(S) <= y
<1>1. IsWellFoundedOn(OpToRel(<, Nat), Nat)
  BY NatLessThanWellFounded
<1>2. PICK x \in S : \A y \in S : ~(<<y, x>> \in OpToRel(<, Nat))
  BY <1>1, WFMin
<1>3. ASSUME NEW y \in S, y < x PROVE FALSE
  <2>1. <<y, x>> \in OpToRel(<, Nat)
    BY <1>3 DEF OpToRel
  <2>2. QED
    BY <1>2, <2>1
<1>4. \A y \in S : x <= y
  BY <1>3
<1>5. QED
  BY <1>4 DEF Min

LEMMA ScaledSize ==
  ASSUME NEW p, NEW q, Picture(p, q)
  PROVE  MinScaledSize(p, q) \in 1 .. 16
<1> DEFINE S == {n \in 1 .. 16 : q.num * p.blockSize <= q.denom * n} \cup {16}
<1>1. S \in SUBSET Nat /\ S # {} /\ S \subseteq 1 .. 16
  OBVIOUS
<1> HIDE DEF S
<1>2. Min(S) \in S
  BY <1>1, LeastNatural
<1>3. Min(S) \in 1 .. 16
  BY <1>1, <1>2
<1>4. QED
  BY <1>3 DEF MinScaledSize, S

\* A block grows by a power of two, and to no more than 16 samples.
LEMMA GrownByTwos ==
  ASSUME NEW min \in 1 .. 16, NEW most \in 1 .. 4, NEW samp \in 1 .. 4, NEW q
  PROVE  \E s \in {1, 2, 4, 8} : Grown(min, most, samp, q) = min * s /\ min * s <= 16
<1> DEFINE S == {s \in {1, 2, 4, 8} : \A r \in {1, 2, 4} : r < s => Doubles(min * r, most, samp * r, q)}
<1>1. S \subseteq {1, 2, 4, 8} /\ 1 \in S
  OBVIOUS
<1>2. \A s \in S : min * s <= 16
  <2>1. SUFFICES ASSUME NEW s \in S PROVE min * s <= 16
    OBVIOUS
  <2>2. \A r \in {1, 2, 4} : r < s => min * r <= 8
    BY DEF Doubles, DCTSIZE
  <2>3. s \in {1, 2, 4, 8}
    OBVIOUS
  <2> HIDE DEF S
  <2>4. QED
    BY <2>2, <2>3
<1>3. Grown(min, most, samp, q) = min * Max(S)
  BY DEF Grown
<1> HIDE DEF S
<1>4. Max(S) \in S
  <2>1. \E x \in S : \A y \in S : x >= y
    <3>1. CASE 8 \in S
      BY <1>1, <3>1
    <3>2. CASE 8 \notin S /\ 4 \in S
      BY <1>1, <3>2
    <3>3. CASE 8 \notin S /\ 4 \notin S /\ 2 \in S
      BY <1>1, <3>3
    <3>4. CASE 8 \notin S /\ 4 \notin S /\ 2 \notin S
      BY <1>1, <3>4
    <3>5. QED
      BY <3>1, <3>2, <3>3, <3>4
  <2>2. QED
    BY <2>1 DEF Max
<1>5. QED
  BY <1>1, <1>2, <1>3, <1>4

\* The two sides of a block are equal, or one is twice the other.
LEMMA ScaledBlock ==
  ASSUME NEW p, NEW q, Picture(p, q), NEW c \in Comps(p)
  PROVE  /\ \E s \in {1, 2, 4, 8} : ScaledV(p, q, c) = MinScaledSize(p, q) * s
         /\ \E n \in 1 .. 16 : \/ ScaledH(p, q, c) = n /\ ScaledV(p, q, c) = n
                               \/ n <= 8 /\ ScaledH(p, q, c) = 2 * n /\ ScaledV(p, q, c) = n
                               \/ n <= 8 /\ ScaledH(p, q, c) = n /\ ScaledV(p, q, c) = 2 * n
<1> DEFINE m == MinScaledSize(p, q)
           a == Grown(m, MaxH(p), p.comps[c].h, q)
           b == Grown(m, MaxV(p), p.comps[c].v, q)
<1>1. /\ m \in 1 .. 16 /\ MaxH(p) \in 1 .. 4 /\ MaxV(p) \in 1 .. 4
      /\ p.comps[c].h \in 1 .. 4 /\ p.comps[c].v \in 1 .. 4
  BY ScaledSize, Sampling
<1>2. ScaledH(p, q, c) = Limited(a, b) /\ ScaledV(p, q, c) = Limited(b, a)
  BY DEF ScaledH, ScaledV
<1> HIDE DEF m
<1>3. PICK s \in {1, 2, 4, 8} : a = m * s /\ m * s <= 16
  BY <1>1, GrownByTwos
<1>4. PICK t \in {1, 2, 4, 8} : b = m * t /\ m * t <= 16
  BY <1>1, GrownByTwos
<1> HIDE DEF a, b
<1>5. CASE a > b * 2
  <2>1. Limited(a, b) = b * 2 /\ Limited(b, a) = b /\ b \in 1 .. 8 /\ b = m * t
    BY <1>1, <1>3, <1>4, <1>5 DEF Limited
  <2>2. QED
    BY <1>2, <2>1 DEF m
<1>6. CASE b > a * 2
  <2>1. Limited(a, b) = a /\ Limited(b, a) = a * 2 /\ a \in 1 .. 8 /\ a * 2 = m * (s * 2) /\ s # 8
    BY <1>1, <1>3, <1>4, <1>6 DEF Limited
  <2>2. QED
    BY <1>2, <2>1 DEF m
<1>7. CASE a <= b * 2 /\ b <= a * 2
  <2>1. Limited(a, b) = a /\ Limited(b, a) = b /\ a \in 1 .. 16 /\ b \in 1 .. 16
    BY <1>1, <1>3, <1>4, <1>7 DEF Limited
  <2>2. a = b \/ a = 2 * b \/ b = 2 * a
    BY <1>1, <1>3, <1>4, <1>7
  <2>3. \E n \in 1 .. 16 : \/ a = n /\ b = n
                           \/ n <= 8 /\ a = 2 * n /\ b = n
                           \/ n <= 8 /\ a = n /\ b = 2 * n
    BY <2>1, <2>2
  <2>4. QED
    BY <1>2, <1>4, <2>1, <2>3 DEF m
<1>8. a \in Int /\ b \in Int
  BY <1>1, <1>3, <1>4
<1>9. QED
  BY <1>5, <1>6, <1>7, <1>8

-----------------------------------------------------------------------------
(* The inductive invariant *)

RowSet == [Needed -> Nat]
Stored == RowSet \cup {NoRow}

\* The job in hand.
Described ==
  /\ \E job \in Jobs : pic = job.pic /\ req = job.req
  /\ cinfo = Dimensions(pic, req) /\ \A c \in Needed : CanUpsample(pic, req, c)

Types ==
  /\ TypeOK
  /\ master \in [dummy : BOOLEAN, cquantize : {"none", "1pass", "2pass"}, colormap : BOOLEAN]
  /\ main = [buffer |-> main.buffer, full |-> main.full, ctr |-> main.ctr]
  /\ upsample = [next |-> upsample.next, toGo |-> upsample.toGo, color |-> upsample.color,
                 spare |-> upsample.spare]
  /\ post \in [mode : {"upsample", "1pass", "prepass", "2pass"}, start : Nat, next : Nat,
               strip : Int, whole : [Saved -> Stored]]
  /\ output_iMCU_row \in 0 .. cinfo.total

\* The buffer holds the rows of iMCU row k that the picture has.
Holds(buffer, k) ==
  \A c \in Needed : \A j \in 0 .. PlaneRows(c) - 1 :
    k * PlaneRows(c) + j < cinfo.rows[c] => buffer[c][j] = k * PlaneRows(c) + j

\* How many lines of the row group ctr the upsampler has given.
Given(up) ==
  IF cinfo.merged THEN (IF up.spare = NoRow THEN 0 ELSE 1)
  ELSE IF up.next = VMax THEN 0 ELSE up.next

\* The row group to be given next, of the picture; k iMCU rows have been decoded.
Group(m, k) == IF m.full THEN (k - 1) * M + m.ctr ELSE k * M

\* The main buffer and the upsampler are where the next line is.
InStep(up, m, k, line) ==
  /\ m.full => k > 0 /\ Holds(m.buffer, k - 1)
  /\ ~m.full => m.ctr = 0
  /\ line = Group(m, k) * VMax + Given(up)
  /\ ~(cinfo.merged /\ VMax = 1) => up.toGo = Height - line
  /\ Given(up) > 0 => m.full
  /\ IF cinfo.merged
     THEN up.spare # NoRow => VMax = 2 /\ up.spare = MergedRow(m.buffer, m.ctr, 1)
     ELSE up.next < VMax =>
            m.full /\ up.color = [c \in Needed |-> Upsampled(c, m.ctr, m.buffer)]

Passing == global_state \in {"PRESCAN", "SCANNING"}

\* Lines flow through the stages at the pace of the application, or of the dummy pass.
Flowing ==
  Passing /\ post.mode # "2pass" => InStep(upsample, main, output_iMCU_row, output_scanline)

\* The strip a two-pass quantizer works on begins where the line before it ended.
Strips ==
  /\ post.mode \in {"prepass", "2pass"} => TwoPass
  /\ Passing /\ post.mode \in {"prepass", "2pass"} =>
       /\ post.start + post.next = output_scanline
       /\ post.next # 0 => post.strip = post.start
  /\ global_state = "PRESCAN" =>
       \A r \in Saved :
         /\ scanned[r] = IF r < output_scanline THEN 1 ELSE 0
         /\ r < output_scanline => post.whole[r] = Ideal(r)

\* After the dummy pass the whole picture is there, and its colours are chosen.
Quantized ==
  post.mode = "2pass" =>
    /\ output_iMCU_row = cinfo.total
    /\ \A r \in Saved : /\ scanned[r] = IF r < Height THEN 1 ELSE 0
                        /\ r < Height => post.whole[r] = Ideal(r)

\* What the application has, and how it counts.
Counted ==
  /\ global_state = "READY" => passes = 0 /\ post.mode = "upsample"
  /\ global_state = "PRESCAN" =>
       ~req.raw /\ post.mode = "prepass" /\ output_scanline < Height /\ delivered = <<>>
  /\ global_state = "SCANNING" =>
       ~req.raw /\ post.mode # "prepass" /\ Len(delivered) = output_scanline
  /\ global_state = "RAW_OK" =>
       /\ req.raw /\ Len(delivered) = output_iMCU_row
       /\ output_scanline = output_iMCU_row * VMax * M
  /\ EndsAtTheBottom
  /\ IF req.raw THEN delivered \in Seq(Nat) ELSE delivered \in Seq(RowSet) /\ Len(delivered) <= Height
  /\ \A i \in 1 .. Len(delivered) : delivered[i] = IF req.raw THEN i - 1 ELSE Ideal(i - 1)

RowsInv == Described /\ Types /\ Flowing /\ Strips /\ Quantized /\ Counted
\* There is a routine for every square block, and for every block twice as long as wide or high.
LEMMA InverseOfEverySize ==
  ASSUME NEW n \in 1 .. 16
  PROVE  /\ Idct!HasInverseMethod(n, n)
         /\ n <= 8 => Idct!HasInverseMethod(2 * n, n) /\ Idct!HasInverseMethod(n, 2 * n)
<1>1. /\ Idct!Idct_1x1.w = 1 /\ Idct!Idct_1x1.h = 1
      /\ Idct!Idct_2x2.w = 2 /\ Idct!Idct_2x2.h = 2
      /\ Idct!Idct_3x3.w = 3 /\ Idct!Idct_3x3.h = 3
      /\ Idct!Idct_4x4.w = 4 /\ Idct!Idct_4x4.h = 4
      /\ Idct!Idct_5x5.w = 5 /\ Idct!Idct_5x5.h = 5
      /\ Idct!Idct_6x6.w = 6 /\ Idct!Idct_6x6.h = 6
      /\ Idct!Idct_7x7.w = 7 /\ Idct!Idct_7x7.h = 7
      /\ Idct!Idct_islow.w = 8 /\ Idct!Idct_islow.h = 8
      /\ Idct!Idct_9x9.w = 9 /\ Idct!Idct_9x9.h = 9
      /\ Idct!Idct_10x10.w = 10 /\ Idct!Idct_10x10.h = 10
      /\ Idct!Idct_11x11.w = 11 /\ Idct!Idct_11x11.h = 11
      /\ Idct!Idct_12x12.w = 12 /\ Idct!Idct_12x12.h = 12
      /\ Idct!Idct_13x13.w = 13 /\ Idct!Idct_13x13.h = 13
      /\ Idct!Idct_14x14.w = 14 /\ Idct!Idct_14x14.h = 14
      /\ Idct!Idct_15x15.w = 15 /\ Idct!Idct_15x15.h = 15
      /\ Idct!Idct_16x16.w = 16 /\ Idct!Idct_16x16.h = 16
  BY DEF Idct!Idct_1x1, Idct!Idct_2x2, Idct!Idct_3x3, Idct!Idct_4x4, Idct!Idct_5x5, Idct!Idct_6x6,
         Idct!Idct_7x7, Idct!Idct_islow, Idct!Idct_9x9, Idct!Idct_10x10, Idct!Idct_11x11,
         Idct!Idct_12x12, Idct!Idct_13x13, Idct!Idct_14x14, Idct!Idct_15x15, Idct!Idct_16x16,
         Idct!Islow
<1>2. /\ Idct!Idct_2x1.w = 2 /\ Idct!Idct_2x1.h = 1
      /\ Idct!Idct_4x2.w = 4 /\ Idct!Idct_4x2.h = 2
      /\ Idct!Idct_6x3.w = 6 /\ Idct!Idct_6x3.h = 3
      /\ Idct!Idct_8x4.w = 8 /\ Idct!Idct_8x4.h = 4
      /\ Idct!Idct_10x5.w = 10 /\ Idct!Idct_10x5.h = 5
      /\ Idct!Idct_12x6.w = 12 /\ Idct!Idct_12x6.h = 6
      /\ Idct!Idct_14x7.w = 14 /\ Idct!Idct_14x7.h = 7
      /\ Idct!Idct_16x8.w = 16 /\ Idct!Idct_16x8.h = 8
  BY DEF Idct!Idct_2x1, Idct!Idct_4x2, Idct!Idct_6x3, Idct!Idct_8x4, Idct!Idct_10x5,
         Idct!Idct_12x6, Idct!Idct_14x7, Idct!Idct_16x8,
         Idct!Islow
<1>3. /\ Idct!Idct_1x2.w = 1 /\ Idct!Idct_1x2.h = 2
      /\ Idct!Idct_2x4.w = 2 /\ Idct!Idct_2x4.h = 4
      /\ Idct!Idct_3x6.w = 3 /\ Idct!Idct_3x6.h = 6
      /\ Idct!Idct_4x8.w = 4 /\ Idct!Idct_4x8.h = 8
      /\ Idct!Idct_5x10.w = 5 /\ Idct!Idct_5x10.h = 10
      /\ Idct!Idct_6x12.w = 6 /\ Idct!Idct_6x12.h = 12
      /\ Idct!Idct_7x14.w = 7 /\ Idct!Idct_7x14.h = 14
      /\ Idct!Idct_8x16.w = 8 /\ Idct!Idct_8x16.h = 16
  BY DEF Idct!Idct_1x2, Idct!Idct_2x4, Idct!Idct_3x6, Idct!Idct_4x8, Idct!Idct_5x10,
         Idct!Idct_6x12, Idct!Idct_7x14, Idct!Idct_8x16,
         Idct!Islow
<1>4. {Idct!Idct_1x1, Idct!Idct_2x2, Idct!Idct_3x3, Idct!Idct_4x4, Idct!Idct_5x5, Idct!Idct_6x6,
         Idct!Idct_7x7, Idct!Idct_islow, Idct!Idct_9x9, Idct!Idct_10x10, Idct!Idct_11x11,
         Idct!Idct_12x12, Idct!Idct_13x13, Idct!Idct_14x14, Idct!Idct_15x15, Idct!Idct_16x16,
         Idct!Idct_2x1, Idct!Idct_4x2, Idct!Idct_6x3, Idct!Idct_8x4, Idct!Idct_10x5,
         Idct!Idct_12x6, Idct!Idct_14x7, Idct!Idct_16x8,
         Idct!Idct_1x2, Idct!Idct_2x4, Idct!Idct_3x6, Idct!Idct_4x8, Idct!Idct_5x10,
         Idct!Idct_6x12, Idct!Idct_7x14, Idct!Idct_8x16}
        \subseteq Idct!InverseMethods
  BY DEF Idct!InverseMethods
<1>5. \A w, h \in Int : Idct!HasInverseMethod(w, h) <=> \E m \in Idct!InverseMethods : m.w = w /\ m.h = h
  BY DEF Idct!HasInverseMethod
<1>6. Idct!HasInverseMethod(n, n)
  BY <1>1, <1>4, <1>5
<1>7. n <= 8 => Idct!HasInverseMethod(2 * n, n)
  BY <1>2, <1>4, <1>5
<1>8. n <= 8 => Idct!HasInverseMethod(n, 2 * n)
  BY <1>3, <1>4, <1>5
<1>9. QED
  BY <1>6, <1>7, <1>8


-----------------------------------------------------------------------------
(* What the invariant says of the picture's parts *)

Geometry ==
  /\ Picture(pic, req) /\ Needed \subseteq Comps(pic) /\ 1 \in Needed
  /\ M \in 1 .. 16 /\ VMax \in 1 .. 4 /\ Height \in Nat \ {0} /\ cinfo.total \in Nat \ {0}
  /\ Saved \subseteq Nat /\ 0 .. Height - 1 \subseteq Saved
  /\ \A c \in Needed : /\ cinfo.inRows[c] \in 1 .. VMax /\ VMax % cinfo.inRows[c] = 0
                       /\ PlaneRows(c) = cinfo.inRows[c] * M /\ cinfo.rows[c] \in Nat
                       /\ cinfo.fullSize[c] => cinfo.inRows[c] = VMax
  /\ \A k \in Nat : k < cinfo.total <=> k * M * VMax < Height
  /\ cinfo.merged => /\ Needed = 1 .. 3 /\ VMax \in {1, 2} /\ cinfo.inRows[1] = VMax
                     /\ cinfo.inRows[2] = 1 /\ cinfo.inRows[3] = 1

\* The dimensions of a component.
LEMMA Component ==
  ASSUME Picture(pic, req), cinfo = Dimensions(pic, req), Needed \subseteq Comps(pic),
         NEW c \in Needed, CanUpsample(pic, req, c)
  PROVE  /\ cinfo.inRows[c] \in 1 .. VMax /\ VMax % cinfo.inRows[c] = 0
         /\ PlaneRows(c) = cinfo.inRows[c] * M
         /\ \E s \in {1, 2, 4, 8} : /\ cinfo.scaledV[c] = M * s
                                    /\ cinfo.inRows[c] = pic.comps[c].v * s
         /\ cinfo.fullSize[c] => cinfo.inRows[c] = VMax
<1>1. /\ M = MinScaledSize(pic, req) /\ M \in 1 .. 16 /\ VMax = MaxV(pic) /\ VMax \in 1 .. 4
      /\ pic.comps[c].v \in 1 .. 4
  BY ScaledSize, Sampling DEF M, VMax, Dimensions
<1>2. /\ cinfo.scaledV[c] = ScaledV(pic, req, c) /\ cinfo.inRows[c] = InGroupV(pic, req, c)
      /\ cinfo.fullSize[c] = (InGroupV(pic, req, c) = MaxV(pic) /\ InGroupH(pic, req, c) = MaxH(pic))
  BY DEF Dimensions, Needed
<1>3. PICK s \in {1, 2, 4, 8} : ScaledV(pic, req, c) = M * s
  BY <1>1, ScaledBlock
<1>4. InGroupV(pic, req, c) = pic.comps[c].v * s
  <2> DEFINE v == pic.comps[c].v
             x == v * (M * s)
  <2>1. x = (v * s) * M
    BY <1>1
  <2>2. ((v * s) * M) \div (1 * M) = (v * s) \div 1
    BY <1>1, CommonDivisor
  <2>3. InGroupV(pic, req, c) = x \div M
    BY <1>1, <1>3 DEF InGroupV
  <2>4. QED
    BY <1>1, <2>1, <2>2, <2>3
<1>5. InGroupV(pic, req, c) > 0 /\ VMax % InGroupV(pic, req, c) = 0
  BY <1>1 DEF CanUpsample
<1>6. InGroupV(pic, req, c) \in 1 .. VMax
  <2>1. pic.comps[c].v * s \in Nat
    BY <1>1
  <2>2. QED
    BY <1>1, <1>4, <1>5, <2>1, FactorIsLess
<1>7. PlaneRows(c) = cinfo.inRows[c] * M
  BY <1>1, <1>2, <1>3, <1>4 DEF PlaneRows
<1>8. QED
  BY <1>1, <1>2, <1>3, <1>4, <1>5, <1>6, <1>7

LEMMA DescribedGeometry ==
  ASSUME Described
  PROVE  Geometry
<1>1. PICK job \in Jobs : pic = job.pic /\ req = job.req
  BY DEF Described
<1>2. Picture(pic, req)
  BY <1>1, OutputAssumption DEF Picture
<1>3. /\ cinfo = Dimensions(pic, req) /\ \A c \in Needed : CanUpsample(pic, req, c)
  BY DEF Described
<1>4. /\ Comps(pic) = 1 .. Len(pic.comps) /\ Len(pic.comps) \in Nat \ {0} /\ MaxV(pic) \in 1 .. 4
      /\ \A c \in Comps(pic) : pic.comps[c].v \in 1 .. 4
  BY <1>2, Sampling
<1>5. Needed = (IF req.space = "gray" THEN {1} ELSE Comps(pic))
  BY <1>3 DEF Dimensions, Needed
<1>6. Needed \subseteq Comps(pic) /\ 1 \in Needed
  BY <1>4, <1>5
<1>7. /\ M = MinScaledSize(pic, req) /\ M \in 1 .. 16 /\ VMax = MaxV(pic) /\ VMax \in 1 .. 4
      /\ Height = Ceil(pic.height * M, pic.blockSize) /\ cinfo.total = Ceil(pic.height, VMax * pic.blockSize)
      /\ Saved = 0 .. Ceil(Height, VMax) * VMax - 1
      /\ pic.height \in Nat \ {0} /\ pic.blockSize \in Nat \ {0}
  <2>1. M = MinScaledSize(pic, req) /\ VMax = MaxV(pic) /\ Height = OutputHeight(pic, req)
        /\ cinfo.total = TotalRows(pic) /\ Saved = 0 .. Ceil(OutputHeight(pic, req), MaxV(pic)) * MaxV(pic) - 1
    BY <1>3 DEF M, VMax, Height, Saved, Dimensions
  <2>2. M \in 1 .. 16
    BY <1>2, <2>1, ScaledSize
  <2>3. pic.height \in Nat \ {0} /\ pic.blockSize \in Nat \ {0}
    BY <1>2, PictureSize
  <2>4. QED
    BY <1>4, <2>1, <2>2, <2>3 DEF OutputHeight, TotalRows
<1>7a. M \in Nat \ {0} /\ VMax \in Nat \ {0} /\ pic.height \in Nat \ {0} /\ pic.blockSize \in Nat \ {0}
  BY <1>7
<1>8. Height \in Nat \ {0} /\ cinfo.total \in Nat \ {0}
  <2>1. pic.height * M \in Nat \ {0} /\ VMax * pic.blockSize \in Nat \ {0}
    BY <1>7a, PositiveProduct
  <2>2. Ceil(pic.height * M, pic.blockSize) \in Nat \ {0}
    BY <1>7a, <2>1, CeilIsPositive
  <2>3. Ceil(pic.height, VMax * pic.blockSize) \in Nat \ {0}
    BY <1>7a, <2>1, CeilIsPositive
  <2>4. QED
    BY <1>7, <2>2, <2>3
<1>9. Saved \subseteq Nat /\ 0 .. Height - 1 \subseteq Saved
  <2> DEFINE q == Ceil(Height, VMax)
  <2>1. q \in Nat /\ \A k \in Int : k < q <=> k * VMax < Height
    BY <1>7a, <1>8, CeilBounds
  <2> HIDE DEF q
  <2>2. Height <= q * VMax
    <3>1. ~(q * VMax < Height)
      BY <2>1
    <3>2. QED
      BY <1>7a, <1>8, <2>1, <3>1
  <2>3. QED
    <3> DEFINE n == q * VMax
    <3>1. n \in Nat
      BY <1>7a, <2>1
    <3>2. Height <= n
      BY <2>2
    <3>3. Saved = 0 .. n - 1
      BY <1>7 DEF q
    <3> HIDE DEF n
    <3>4. QED
      BY <1>8, <3>1, <3>2, <3>3
<1>10. ASSUME NEW c \in Needed
       PROVE  /\ cinfo.inRows[c] \in 1 .. VMax /\ VMax % cinfo.inRows[c] = 0
              /\ PlaneRows(c) = cinfo.inRows[c] * M /\ cinfo.rows[c] \in Nat
              /\ cinfo.fullSize[c] => cinfo.inRows[c] = VMax
  <2>1. PICK s \in {1, 2, 4, 8} : cinfo.scaledV[c] = M * s
    BY <1>2, <1>3, <1>6, Component
  <2>2. /\ pic.comps[c].v \in 1 .. 4
        /\ cinfo.rows[c] = Ceil(pic.height * pic.comps[c].v * cinfo.scaledV[c], VMax * pic.blockSize)
    BY <1>3, <1>4, <1>6, <1>7 DEF Dimensions, Needed, DownsampledHeight
  <2>3. pic.height * pic.comps[c].v * cinfo.scaledV[c] \in Nat /\ VMax * pic.blockSize \in Nat \ {0}
    <3>1. cinfo.scaledV[c] \in Nat \ {0} /\ pic.comps[c].v \in Nat \ {0}
      BY <1>7a, <2>1, <2>2, PositiveProduct
    <3>2. pic.height * pic.comps[c].v \in Nat \ {0} /\ VMax * pic.blockSize \in Nat \ {0}
      BY <1>7a, <3>1, PositiveProduct
    <3>3. QED
      BY <3>1, <3>2, PositiveProduct
  <2>4. cinfo.rows[c] \in Nat
    BY <2>2, <2>3, CeilBounds
  <2>5. QED
    BY <1>2, <1>3, <1>6, <2>4, Component
<1>11. \A k \in Nat : k < cinfo.total <=> k * M * VMax < Height
  <2>1. pic.height \in Nat /\ \A k \in Nat : k < Ceil(pic.height, VMax * pic.blockSize)
                                           <=> k * M * VMax < Ceil(pic.height * M, pic.blockSize)
    BY <1>7a, RowsBegin
  <2>2. QED
    BY <1>7, <2>1
<1>12. ASSUME cinfo.merged
       PROVE  /\ Needed = 1 .. 3 /\ VMax \in {1, 2} /\ cinfo.inRows[1] = VMax
              /\ cinfo.inRows[2] = 1 /\ cinfo.inRows[3] = 1
  <2>1. UseMergedUpsample(pic, req)
    BY <1>3, <1>12 DEF Dimensions
  <2>2. /\ req.space = "RGB" /\ Len(pic.comps) = 3 /\ pic.comps[1].v <= 2
        /\ pic.comps[2].v = 1 /\ pic.comps[3].v = 1
        /\ \A c \in Comps(pic) : ScaledV(pic, req, c) = M
    BY <1>7, <2>1 DEF UseMergedUpsample
  <2>3. Needed = 1 .. 3 /\ Comps(pic) = 1 .. 3
    BY <1>4, <1>5, <2>2
  <2>4. \A c \in 1 .. 3 : cinfo.inRows[c] = pic.comps[c].v
    <3>1. SUFFICES ASSUME NEW c \in 1 .. 3 PROVE cinfo.inRows[c] = pic.comps[c].v
      OBVIOUS
    <3>2. PICK s \in {1, 2, 4, 8} : cinfo.scaledV[c] = M * s /\ cinfo.inRows[c] = pic.comps[c].v * s
      BY <1>2, <1>3, <1>6, <2>3, Component
    <3>3. cinfo.scaledV[c] = M
      BY <1>3, <2>2, <2>3 DEF Dimensions, Needed
    <3>4. s = 1
      BY <1>7, <3>2, <3>3
    <3>5. QED
      BY <1>4, <2>3, <3>2, <3>4
  <2>5. VMax = pic.comps[1].v
    <3> DEFINE S == {pic.comps[c].v : c \in Comps(pic)}
               v == pic.comps[1].v
    <3>1. v \in 1 .. 2 /\ S = {v, 1}
      BY <1>4, <2>2, <2>3
    <3>2. Max({v, 1}) = v
      BY <3>1, OfTwo
    <3>3. QED
      BY <1>7, <3>1, <3>2 DEF MaxV
  <2>6. QED
    BY <1>4, <2>2, <2>3, <2>4, <2>5
<1>13. QED
  BY <1>2, <1>6, <1>7, <1>8, <1>9, <1>10, <1>11, <1>12 DEF Geometry

\* The rows a line of the picture is made of lie in their planes.
LEMMA IdealRows ==
  ASSUME Described, NEW r \in Nat, r < Height
  PROVE  /\ Ideal(r) \in RowSet
         /\ \A c \in Needed : Ideal(r)[c] < cinfo.rows[c]
<1>1. Geometry
  BY DescribedGeometry
<1>2. ASSUME NEW c \in Needed
      PROVE  (r * PlaneRows(c)) \div (VMax * M) \in Nat
             /\ (r * PlaneRows(c)) \div (VMax * M) < cinfo.rows[c]
  <2>1. /\ cinfo = Dimensions(pic, req) /\ CanUpsample(pic, req, c) /\ Picture(pic, req)
        /\ Needed \subseteq Comps(pic)
    BY <1>1 DEF Described, Geometry
  <2> DEFINE n == cinfo.inRows[c]
  <2>2. /\ n \in 1 .. VMax /\ PlaneRows(c) = n * M /\ VMax \in 1 .. 4 /\ M \in 1 .. 16
        /\ pic.height \in Nat /\ pic.blockSize \in Nat \ {0}
    <3>1. n \in 1 .. VMax /\ PlaneRows(c) = n * M /\ VMax \in 1 .. 4 /\ M \in 1 .. 16
      BY <1>1 DEF Geometry
    <3>2. pic.height \in Nat /\ pic.blockSize \in Nat \ {0}
      BY <2>1, PictureSize
    <3>3. QED
      BY <3>1, <3>2
  <2>3. /\ Height = Ceil(pic.height * M, pic.blockSize)
        /\ cinfo.rows[c] = Ceil(pic.height * pic.comps[c].v * cinfo.scaledV[c], VMax * pic.blockSize)
    BY <2>1 DEF M, VMax, Height, Dimensions, OutputHeight, Needed, DownsampledHeight
  <2>4. PICK s \in {1, 2, 4, 8} : cinfo.scaledV[c] = M * s /\ n = pic.comps[c].v * s
    BY <2>1, Component
  <2>5. pic.comps[c].v \in 1 .. 4
    BY <2>1, Sampling
  <2>6. pic.height * pic.comps[c].v * cinfo.scaledV[c] = pic.height * (n * M)
    BY <2>2, <2>4, <2>5
  <2> HIDE DEF n
  <2>7. (r * n) \div VMax \in Nat /\ (r * n) \div VMax < Ceil(pic.height * (n * M), VMax * pic.blockSize)
    <3>1. n \in Nat \ {0} /\ M \in Nat \ {0} /\ VMax \in Nat \ {0} /\ r < Ceil(pic.height * M, pic.blockSize)
      BY <2>2, <2>3
    <3>2. QED
      BY <2>2, <3>1, LiesInPlane
  <2>8. (r * PlaneRows(c)) \div (VMax * M) = (r * n) \div VMax
    <3>1. r * PlaneRows(c) = (r * n) * M /\ r * n \in Nat
      BY <2>2
    <3>2. ((r * n) * M) \div (VMax * M) = (r * n) \div VMax
      BY <2>2, <3>1, CommonDivisor
    <3>3. QED
      BY <3>1, <3>2
  <2>9. QED
    BY <2>3, <2>6, <2>7, <2>8
<1>3. QED
  BY <1>2 DEF Ideal, RowSet

\* Ideal, in the rows of a row group.
LEMMA IdealAt ==
  ASSUME Described, NEW r \in Nat, NEW c \in Needed
  PROVE  Ideal(r)[c] = (r * cinfo.inRows[c]) \div VMax
<1> DEFINE n == cinfo.inRows[c]
<1>1. n \in 1 .. VMax /\ PlaneRows(c) = n * M /\ VMax \in 1 .. 4 /\ M \in 1 .. 16
  BY DescribedGeometry DEF Geometry
<1> HIDE DEF n
<1>2. r * PlaneRows(c) = (r * n) * M /\ r * n \in Nat
  BY <1>1
<1>3. ((r * n) * M) \div (VMax * M) = (r * n) \div VMax
  BY <1>1, <1>2, CommonDivisor
<1>4. QED
  BY <1>2, <1>3 DEF Ideal, n

-----------------------------------------------------------------------------
(* Decoding an iMCU row *)

\* What decompress_data leaves in the buffer is the iMCU row, as far as the picture has it.
LEMMA FilledHolds ==
  ASSUME Described, NEW buffer, NEW k \in Nat, k < cinfo.total
  PROVE  Holds(Filled(buffer, k), k)
<1>1. SUFFICES ASSUME NEW c \in Needed, NEW j \in 0 .. PlaneRows(c) - 1,
                      k * PlaneRows(c) + j < cinfo.rows[c]
               PROVE  Filled(buffer, k)[c][j] = k * PlaneRows(c) + j
  BY DEF Holds
<1> DEFINE v == pic.comps[c].v
           s == cinfo.scaledV[c]
           blocks == IF k < cinfo.total - 1 THEN v ELSE cinfo.blockRows[c] - k * v
<1>2. Geometry /\ Picture(pic, req) /\ cinfo = Dimensions(pic, req) /\ CanUpsample(pic, req, c)
      /\ Needed \subseteq Comps(pic)
  BY DescribedGeometry DEF Described, Geometry
<1>3. v \in 1 .. 4 /\ VMax \in 1 .. 4 /\ M \in 1 .. 16 /\ VMax = MaxV(pic)
      /\ pic.height \in Nat /\ pic.blockSize \in Nat \ {0}
  <2>1. v \in 1 .. 4
    BY <1>2, Sampling
  <2>2. VMax \in 1 .. 4 /\ M \in 1 .. 16
    BY <1>2 DEF Geometry
  <2>3. VMax = MaxV(pic)
    BY <1>2 DEF VMax, Dimensions
  <2>4. QED
    BY <1>2, <2>1, <2>2, <2>3, PictureSize
<1>4. s \in Nat \ {0} /\ PlaneRows(c) = v * s
  <2>1. PICK t \in {1, 2, 4, 8} : s = M * t
    BY <1>2, Component
  <2>2. QED
    BY <1>3, <2>1 DEF PlaneRows
<1>5. /\ cinfo.rows[c] = Ceil(pic.height * v * s, VMax * pic.blockSize)
      /\ cinfo.blockRows[c] = Ceil(pic.height * v, VMax * pic.blockSize)
  <2>1. cinfo.rows[c] = Ceil(pic.height * v * ScaledV(pic, req, c), VMax * pic.blockSize)
    BY <1>2, <1>3 DEF Dimensions, Needed, DownsampledHeight
  <2>2. s = ScaledV(pic, req, c)
    BY <1>2 DEF Dimensions, Needed
  <2>3. cinfo.blockRows[c] = Ceil(pic.height * v, VMax * pic.blockSize)
    BY <1>2, <1>3 DEF Dimensions, Needed, HeightInBlocks
  <2>4. QED
    BY <2>1, <2>2, <2>3
<1> HIDE DEF v, s
<1>6. j < blocks * s
  <2>1. CASE k < cinfo.total - 1
    BY <1>3, <1>4, <2>1
  <2>2. CASE ~(k < cinfo.total - 1)
    <3>1. pic.height * v \in Nat /\ VMax * pic.blockSize \in Nat \ {0}
      BY <1>3, PositiveProduct
    <3>2. k * (v * s) + j < Ceil((pic.height * v) * s, VMax * pic.blockSize)
      BY <1>1, <1>4, <1>5
    <3>3. j < (Ceil(pic.height * v, VMax * pic.blockSize) - k * v) * s
      <4>1. j \in Nat /\ v \in Nat
        BY <1>3
      <4>2. QED
        BY <1>4, <3>1, <3>2, <4>1, LiesInBlocks
    <3>4. QED
      BY <1>5, <2>2, <3>3
  <2>3. QED
    BY <2>1, <2>2
<1>7. Filled(buffer, k)[c][j] = IF j < blocks * s THEN k * PlaneRows(c) + j ELSE buffer[c][j]
  BY DEF Filled, v, s
<1>8. QED
  BY <1>6, <1>7

\* Where the row group ctr of a buffer has its row for line i of the group.
LEMMA BufferRow ==
  ASSUME Described, NEW buffer, NEW k \in Nat, Holds(buffer, k), NEW ctr \in 0 .. M - 1,
         NEW i \in 0 .. VMax - 1, (k * M + ctr) * VMax + i < Height, NEW c \in Needed
  PROVE  buffer[c][ctr * cinfo.inRows[c] + i \div (VMax \div cinfo.inRows[c])]
           = Ideal((k * M + ctr) * VMax + i)[c]
<1> DEFINE n == cinfo.inRows[c]
           d == i \div (VMax \div n)
           g == k * M + ctr
           j == ctr * n + d
<1>1. n \in 1 .. VMax /\ VMax % n = 0 /\ PlaneRows(c) = n * M /\ VMax \in 1 .. 4 /\ M \in 1 .. 16
  BY DescribedGeometry DEF Geometry
<1> HIDE DEF n
<1>2. d \in 0 .. n - 1
  <2>1. CASE n = 1
    BY <1>1, <2>1
  <2>2. CASE n = 2
    BY <1>1, <2>2
  <2>3. CASE n = 3
    BY <1>1, <2>3
  <2>4. CASE n = 4
    BY <1>1, <2>4
  <2>5. QED
    BY <1>1, <2>1, <2>2, <2>3, <2>4
<1>3. g \in Nat
  BY <1>1
<1>4. g * VMax + i \in Nat
  BY <1>1, <1>3
<1>5. Ideal(g * VMax + i)[c] = g * n + d
  <2>1. ((g * VMax + i) * n) \div VMax = g * n + d
    <3> HIDE DEF g
    <3>1. QED
      BY <1>1, <1>3, RowOfGroup
  <2>2. Ideal(g * VMax + i)[c] = ((g * VMax + i) * n) \div VMax
    <3> HIDE DEF g
    <3>1. QED
      BY <1>4, IdealAt DEF n
  <2>3. QED
    BY <2>1, <2>2
<1>6. g * n + d < cinfo.rows[c]
  <2>1. Ideal(g * VMax + i)[c] < cinfo.rows[c]
    BY <1>4, IdealRows
  <2>2. QED
    BY <1>5, <2>1
<1> HIDE DEF d
<1>7. k * PlaneRows(c) + j = g * n + d
  BY <1>1, <1>2
<1>8. j \in 0 .. PlaneRows(c) - 1
  <2>1. (ctr + 1) * n <= M * n
    BY <1>1, Products
  <2>2. QED
    BY <1>1, <1>2, <2>1
<1>9. buffer[c][j] = k * PlaneRows(c) + j
  <2> HIDE DEF j, g
  <2>1. QED
    BY <1>6, <1>7, <1>8 DEF Holds
<1>10. QED
  BY <1>5, <1>7, <1>9 DEF d, n

-----------------------------------------------------------------------------
(* Upsampling *)

UpType(up) ==
  /\ up = [next |-> up.next, toGo |-> up.toGo, color |-> up.color, spare |-> up.spare]
  /\ up.next \in 0 .. VMax /\ up.toGo \in 0 .. Height

MainType(m) ==
  /\ m = [buffer |-> m.buffer, full |-> m.full, ctr |-> m.ctr]
  /\ m.full \in BOOLEAN /\ m.ctr \in 0 .. M - 1

\* An iMCU row is in the buffer, and there is a line to be made.
Ready(up, m, k, line) ==
  /\ UpType(up) /\ MainType(m) /\ m.full /\ k \in 1 .. cinfo.total
  /\ line \in Nat /\ line < Height /\ InStep(up, m, k, line)

\* What an upsampler's answer u must be, when it is asked for the lines from line on.
Answers(u, m, k, line, room) ==
  /\ u.rows \in Seq(RowSet) /\ Len(u.rows) \in 1 .. VMax
  /\ Len(u.rows) <= room /\ line + Len(u.rows) <= Height
  /\ \A i \in 1 .. Len(u.rows) : u.rows[i] = Ideal(line + i - 1)
  /\ UpType(u.up) /\ MainType(Drained(m, u.ctr))
  /\ InStep(u.up, Drained(m, u.ctr), k, line + Len(u.rows))

\* The upsampler stays at a row group, or has used it up.
LEMMA StayInGroup ==
  ASSUME NEW m, MainType(m), Described
  PROVE  Drained(m, m.ctr) = m
<1>1. M \in 1 .. 16
  BY DescribedGeometry DEF Geometry
<1>2. m.ctr \in 0 .. M - 1 /\ m = [buffer |-> m.buffer, full |-> m.full, ctr |-> m.ctr]
  BY DEF MainType
<1>3. [m EXCEPT !.ctr = m.ctr] = m
  BY <1>2
<1>4. ~(m.ctr >= M)
  BY <1>1, <1>2
<1>5. QED
  BY <1>3, <1>4 DEF Drained

LEMMA NextGroup ==
  ASSUME Described, post.mode # "2pass", NEW m, MainType(m), m.full,
         NEW k \in 1 .. cinfo.total, Holds(m.buffer, k - 1), NEW up, NEW line,
         line = ((k - 1) * M + m.ctr + 1) * VMax, Given(up) = 0,
         ~(cinfo.merged /\ VMax = 1) => up.toGo = Height - line,
         IF cinfo.merged THEN up.spare = NoRow ELSE up.next = VMax
  PROVE  /\ MainType(Drained(m, m.ctr + 1))
         /\ InStep(up, Drained(m, m.ctr + 1), k, line)
<1>1. /\ M \in 1 .. 16 /\ VMax \in 1 .. 4 /\ cinfo.total \in Nat
  BY DescribedGeometry DEF Geometry
<1> DEFINE d == Drained(m, m.ctr + 1)
<1>2. CASE m.ctr + 1 >= M
  <2>1. d = [buffer |-> m.buffer, full |-> FALSE, ctr |-> 0]
    BY <1>2 DEF Drained, MainType
  <2>2. Group(d, k) = k * M
    BY <2>1 DEF Group
  <2>3. m.ctr + 1 = M /\ (k - 1) * M + m.ctr + 1 = k * M
    BY <1>1, <1>2 DEF MainType
  <2>4. line = Group(d, k) * VMax + Given(up)
    BY <1>1, <2>2, <2>3
  <2>5. 0 \in 0 .. M - 1 /\ FALSE \in BOOLEAN
    BY <1>1
  <2>6. d.full = FALSE /\ d.ctr = 0 /\ d = [buffer |-> d.buffer, full |-> d.full, ctr |-> d.ctr]
    BY <2>1
  <2> HIDE DEF d
  <2>7. MainType(d)
    BY <2>5, <2>6 DEF MainType
  <2>8. InStep(up, d, k, line)
    <3>1. ~(Given(up) > 0)
      OBVIOUS
    <3>2. ~cinfo.merged => ~(up.next < VMax)
      BY <1>1
    <3>3. QED
      BY <2>4, <2>6, <3>1, <3>2 DEF InStep
  <2>9. QED
    BY <2>7, <2>8 DEF d
<1>3. CASE ~(m.ctr + 1 >= M)
  <2>1. d = [buffer |-> m.buffer, full |-> m.full, ctr |-> m.ctr + 1]
    BY <1>3 DEF Drained, MainType
  <2>2. /\ d.full = m.full /\ d.buffer = m.buffer /\ d.ctr = m.ctr + 1
        /\ d = [buffer |-> d.buffer, full |-> d.full, ctr |-> d.ctr]
    <3>1. d.full = m.full
      <4> DEFINE x == [buffer |-> m.buffer, full |-> m.full, ctr |-> m.ctr + 1]
      <4>1. x.full = m.full
        OBVIOUS
      <4> HIDE DEF d, x
      <4>2. QED
        BY <2>1, <4>1, Zenon DEF x
    <3>2. d.buffer = m.buffer /\ d.ctr = m.ctr + 1
      BY <2>1
    <3> HIDE DEF d
    <3>3. QED
      BY <2>1, <3>1, <3>2, Zenon
  <2>3. m.ctr \in 0 .. M - 1 /\ m.full \in BOOLEAN
    BY DEF MainType
  <2> HIDE DEF d
  <2>4. Group(d, k) = (k - 1) * M + (m.ctr + 1)
    BY <2>2 DEF Group
  <2>5. (k - 1) * M \in Int
    BY <1>1
  <2>6. line = Group(d, k) * VMax + Given(up)
    <3> DEFINE x == (k - 1) * M
    <3> HIDE DEF x
    <3>1. ((x + m.ctr) + 1) = x + (m.ctr + 1)
      BY <2>3, <2>5, <1>1 DEF x
    <3>2. line = ((x + m.ctr) + 1) * VMax
      BY DEF x
    <3>3. ((x + m.ctr) + 1) * VMax \in Int
      BY <1>1, <2>3, <2>5 DEF x
    <3>4. QED
      BY <2>4, <3>1, <3>2, <3>3 DEF x
  <2>7. m.ctr + 1 \in 0 .. M - 1
    BY <1>1, <1>3, <2>3
  <2>8. MainType(d)
    BY <2>2, <2>3, <2>7 DEF MainType
  <2>9. InStep(up, d, k, line)
    <3>1. ~(Given(up) > 0)
      OBVIOUS
    <3>2. ~cinfo.merged => ~(up.next < VMax)
      BY <1>1
    <3>3. k > 0 /\ d.full
      BY <1>1, <2>2
    <3>4. QED
      BY <2>2, <2>6, <3>1, <3>2, <3>3 DEF InStep
  <2>10. QED
    BY <2>8, <2>9 DEF d
<1>4. QED
  BY <1>2, <1>3

LEMMA OfThree ==
  ASSUME NEW a \in Int, NEW b \in Int, NEW c \in Int
  PROVE  /\ Min({a, b, c}) \in {a, b, c}
         /\ Min({a, b, c}) <= a /\ Min({a, b, c}) <= b /\ Min({a, b, c}) <= c
<1>1. \E x \in {a, b, c} : \A y \in {a, b, c} : x <= y
  <2>1. CASE a <= b /\ a <= c
    BY <2>1
  <2>2. CASE b <= a /\ b <= c
    BY <2>2
  <2>3. CASE c <= a /\ c <= b
    BY <2>3
  <2>4. QED
    BY <2>1, <2>2, <2>3
<1>2. QED
  BY <1>1 DEF Min

\* Each component on its own, sep_upsample.
LEMMA SepUpsampleStep ==
  ASSUME Described, post.mode # "2pass", NEW up, NEW m, NEW k, NEW line, Ready(up, m, k, line),
         NEW room \in Nat \ {0}, ~cinfo.merged
  PROVE  Answers(SepUpsample(up, m.buffer, m.ctr, room), m, k, line, room)
<1> DEFINE f == Given(up)
           color == [c \in Needed |-> Upsampled(c, m.ctr, m.buffer)]
           g == (k - 1) * M + m.ctr
           n == Min({VMax - f, Height - line, room})
           u == SepUpsample(up, m.buffer, m.ctr, room)
<1>1. /\ M \in 1 .. 16 /\ VMax \in 1 .. 4 /\ cinfo.total \in Nat /\ Height \in Nat
      /\ \A c \in Needed : cinfo.inRows[c] \in 1 .. VMax /\ (cinfo.fullSize[c] => cinfo.inRows[c] = VMax)
  BY DescribedGeometry DEF Geometry
<1>2. /\ UpType(up) /\ MainType(m) /\ m.full /\ k \in 1 .. cinfo.total
      /\ line \in Nat /\ line < Height /\ InStep(up, m, k, line)
  BY DEF Ready
<1>3. /\ Holds(m.buffer, k - 1) /\ line = g * VMax + f /\ up.toGo = Height - line
      /\ up.next < VMax => up.color = color
  BY <1>2 DEF InStep, Group
<1>4. f \in 0 .. VMax - 1 /\ m.ctr \in 0 .. M - 1 /\ g \in Nat
      /\ f = IF up.next >= VMax THEN 0 ELSE up.next
  BY <1>1, <1>2 DEF Given, UpType, MainType
<1> HIDE DEF f, color, g
<1>5. n \in 1 .. VMax - f /\ n <= Height - line /\ n <= room
  <2> DEFINE a == VMax - f
             b == Height - line
  <2>1. a \in Nat \ {0} /\ b \in Nat \ {0} /\ room \in Nat \ {0}
    BY <1>1, <1>2, <1>4
  <2> HIDE DEF a, b
  <2>2. Min({a, b, room}) \in {a, b, room} /\ Min({a, b, room}) <= a /\ Min({a, b, room}) <= b
        /\ Min({a, b, room}) <= room
    <3>1. a \in Int /\ b \in Int /\ room \in Int
      BY <2>1
    <3>2. QED
      BY <3>1, OfThree, Zenon
  <2>3. QED
    BY <2>1, <2>2 DEF a, b
<1>6. (IF up.next >= VMax THEN [up EXCEPT !.color = color, !.next = 0] ELSE up)
        = [next |-> f, toGo |-> Height - line, color |-> color, spare |-> up.spare]
  <2>1. up = [next |-> up.next, toGo |-> up.toGo, color |-> up.color, spare |-> up.spare]
        /\ up.next \in 0 .. VMax /\ up.toGo = Height - line
    BY <1>2, <1>3 DEF UpType
  <2>2. CASE up.next >= VMax
    <3>1. f = 0
      BY <1>4, <2>2
    <3>2. QED
      BY <2>1, <2>2, <3>1
  <2>3. CASE ~(up.next >= VMax)
    <3>1. f = up.next /\ up.color = color
      BY <1>1, <1>3, <1>4, <2>1, <2>3
    <3>2. QED
      BY <2>1, <2>3, <3>1
  <2>4. QED
    BY <2>2, <2>3
<1> HIDE DEF n
<1>7. u = [rows |-> [i \in 1 .. n |-> [c \in Needed |-> ColorRow(color, c, f + i - 1, m.buffer)]],
           up   |-> [next |-> f + n, toGo |-> Height - line - n, color |-> color, spare |-> up.spare],
           ctr  |-> IF f + n >= VMax THEN m.ctr + 1 ELSE m.ctr]
  <2> DEFINE filled == [next |-> f, toGo |-> Height - line, color |-> color, spare |-> up.spare]
  <2>0. filled.toGo = Height - line
    OBVIOUS
  <2>1. u = [rows |-> [i \in 1 .. n |-> [c \in Needed |-> ColorRow(filled.color, c, filled.next + i - 1, m.buffer)]],
             up   |-> [filled EXCEPT !.toGo = @ - n, !.next = @ + n],
             ctr  |-> IF filled.next + n >= VMax THEN m.ctr + 1 ELSE m.ctr]
    <3>1. filled = IF up.next >= VMax
                   THEN [up EXCEPT !.color = [c \in Needed |-> Upsampled(c, m.ctr, m.buffer)], !.next = 0]
                   ELSE up
      BY <1>6 DEF color
    <3>2. n = Min({VMax - filled.next, filled.toGo, room})
      BY DEF n
    <3> HIDE DEF filled, n
    <3>3. QED
      BY <3>1, <3>2 DEF SepUpsample, u
  <2>2. filled.color = color /\ filled.next = f
    OBVIOUS
  <2>3. [filled EXCEPT !.toGo = @ - n, !.next = @ + n]
             = [next |-> f + n, toGo |-> Height - line - n, color |-> color, spare |-> up.spare]
    <3> DEFINE x == f + n
               y == (Height - line) - n
               s == [next |-> f, toGo |-> y, color |-> color, spare |-> up.spare]
    <3>1. filled.next = f /\ filled.toGo = Height - line
      OBVIOUS
    <3> HIDE DEF x, y
    <3>2. [filled EXCEPT !.toGo = y] = s
      OBVIOUS
    <3>3. [s EXCEPT !.next = x] = [next |-> x, toGo |-> y, color |-> color, spare |-> up.spare]
      OBVIOUS
    <3>4. [filled EXCEPT !.toGo = y, !.next = x] = [[filled EXCEPT !.toGo = y] EXCEPT !.next = x]
      OBVIOUS
    <3>5. [filled EXCEPT !.toGo = y, !.next = x]
            = [next |-> x, toGo |-> y, color |-> color, spare |-> up.spare]
      <4> HIDE DEF filled, s
      <4>1. QED
        BY <3>2, <3>3, <3>4
    <3>6. [filled EXCEPT !.toGo = @ - n, !.next = @ + n] = [filled EXCEPT !.toGo = y, !.next = x]
      <4> HIDE DEF filled, s
      <4>1. QED
        BY <3>1 DEF x, y
    <3>7. QED
      BY <3>5, <3>6 DEF x, y
  <2> HIDE DEF filled, u
  <2>4. QED
    BY <2>1, <2>2, <2>3
<1> HIDE DEF u
<1>8. ASSUME NEW i \in 1 .. n
      PROVE  [c \in Needed |-> ColorRow(color, c, f + i - 1, m.buffer)] = Ideal(line + i - 1)
             /\ Ideal(line + i - 1) \in RowSet
  <2> DEFINE r == f + i - 1
  <2>1. r \in 0 .. VMax - 1 /\ line + i - 1 = g * VMax + r /\ line + i - 1 \in Nat /\ line + i - 1 < Height
    BY <1>1, <1>2, <1>3, <1>4, <1>5
  <2> HIDE DEF r
  <2>2. ASSUME NEW c \in Needed PROVE ColorRow(color, c, r, m.buffer) = Ideal(g * VMax + r)[c]
    <3>1. m.buffer[c][m.ctr * cinfo.inRows[c] + r \div (VMax \div cinfo.inRows[c])]
            = Ideal(((k - 1) * M + m.ctr) * VMax + r)[c]
      <4>1. ((k - 1) * M + m.ctr) * VMax + r < Height /\ k - 1 \in Nat
        BY <1>1, <1>2, <2>1 DEF g
      <4>2. QED
        BY <1>3, <1>4, <2>1, <4>1, BufferRow
    <3>2. CASE cinfo.fullSize[c]
      <4>1. cinfo.inRows[c] = VMax /\ r \div (VMax \div VMax) = r
        BY <1>1, <2>1, <3>2
      <4>2. ColorRow(color, c, r, m.buffer) = m.buffer[c][m.ctr * VMax + r]
        BY <3>2 DEF ColorRow, Upsampled, color
      <4>3. QED
        BY <3>1, <4>1, <4>2 DEF g
    <3>3. CASE ~cinfo.fullSize[c]
      <4>1. ColorRow(color, c, r, m.buffer)
              = m.buffer[c][m.ctr * cinfo.inRows[c] + r \div (VMax \div cinfo.inRows[c])]
        BY <2>1, <3>3 DEF ColorRow, Upsampled, color
      <4>2. QED
        BY <3>1, <4>1 DEF g
    <3>4. QED
      BY <3>2, <3>3
  <2>3. Ideal(line + i - 1) \in RowSet
    BY <2>1, IdealRows
  <2>4. [c \in Needed |-> ColorRow(color, c, r, m.buffer)] = Ideal(g * VMax + r)
    BY <2>2 DEF Ideal
  <2>5. QED
    BY <2>1, <2>3, <2>4 DEF r
<1>9. u.rows \in Seq(RowSet) /\ Len(u.rows) = n /\ \A i \in 1 .. n : u.rows[i] = Ideal(line + i - 1)
  <2>1. u.rows = [i \in 1 .. n |-> Ideal(line + i - 1)]
    BY <1>7, <1>8
  <2>2. n \in Nat
    BY <1>1, <1>4, <1>5
  <2>3. u.rows \in [1 .. n -> RowSet]
    BY <1>8, <2>1
  <2>4. u.rows \in Seq(RowSet) /\ DOMAIN u.rows = 1 .. n
    BY <2>2, <2>3, SeqDef
  <2>5. Len(u.rows) = n
    BY <2>2, <2>4, LenProperties
  <2>6. QED
    BY <2>1, <2>4, <2>5
<1>10. UpType(u.up) /\ u.up.next = f + n /\ u.up.toGo = Height - (line + n) /\ u.up.color = color
  <2>1. f + n \in 0 .. VMax /\ Height - line - n \in 0 .. Height /\ Height - line - n = Height - (line + n)
    BY <1>1, <1>2, <1>4, <1>5
  <2>2. QED
    BY <1>7, <2>1 DEF UpType
<1>11. MainType(Drained(m, u.ctr)) /\ InStep(u.up, Drained(m, u.ctr), k, line + n)
  <2>1. CASE f + n >= VMax
    <3>1. f + n = VMax /\ u.ctr = m.ctr + 1
      BY <1>1, <1>4, <1>5, <1>7, <2>1
    <3>2. Given(u.up) = 0
      BY <1>10, <3>1 DEF Given
    <3>3. line + n = ((k - 1) * M + m.ctr + 1) * VMax
      <4>1. line + n = (g + 1) * VMax
        BY <1>1, <1>2, <1>3, <1>4, <1>5, <3>1
      <4>2. QED
        BY <4>1 DEF g
    <3>4. QED
      BY <1>2, <1>3, <1>10, <3>1, <3>2, <3>3, NextGroup
  <2>2. CASE f + n < VMax
    <3>1. u.ctr = m.ctr /\ Drained(m, u.ctr) = m
      BY <1>1, <1>2, <1>4, <1>5, <1>7, <2>2, StayInGroup
    <3>2. Given(u.up) = f + n
      BY <1>1, <1>4, <1>5, <1>10, <2>2 DEF Given
    <3>3. line + n = Group(m, k) * VMax + Given(u.up)
      BY <1>1, <1>2, <1>3, <1>4, <1>5, <3>2 DEF g, Group
    <3>4. InStep(u.up, m, k, line + n)
      BY <1>1, <1>2, <1>3, <1>10, <3>3 DEF InStep, color
    <3>5. QED
      BY <1>2, <3>1, <3>4
  <2>3. QED
    BY <1>1, <1>4, <1>5, <2>1, <2>2
<1>12. QED
  BY <1>1, <1>2, <1>4, <1>5, <1>9, <1>10, <1>11 DEF Answers, u

\* Both merged upsamplers take a luma row of its own for each line, and one chroma row.
LEMMA MergedRowIsIdeal ==
  ASSUME Described, cinfo.merged, NEW buffer, NEW k \in Nat, Holds(buffer, k),
         NEW ctr \in 0 .. M - 1, NEW i \in 0 .. VMax - 1, (k * M + ctr) * VMax + i < Height
  PROVE  MergedRow(buffer, ctr, i) = Ideal((k * M + ctr) * VMax + i)
<1>1. /\ M \in 1 .. 16 /\ VMax \in {1, 2} /\ Needed = 1 .. 3 /\ cinfo.inRows[1] = VMax
      /\ cinfo.inRows[2] = 1 /\ cinfo.inRows[3] = 1
  BY DescribedGeometry DEF Geometry
<1> DEFINE g == (k * M + ctr) * VMax + i
<1>2. ASSUME NEW c \in Needed
      PROVE  (IF c = 1 THEN buffer[c][ctr * VMax + i] ELSE buffer[c][ctr]) = Ideal(g)[c]
  <2>1. buffer[c][ctr * cinfo.inRows[c] + i \div (VMax \div cinfo.inRows[c])] = Ideal(g)[c]
    BY BufferRow
  <2> HIDE DEF g
  <2>2. CASE c = 1
    <3>1. ctr * cinfo.inRows[1] + i \div (VMax \div cinfo.inRows[1]) = ctr * VMax + i
      BY <1>1
    <3>2. QED
      BY <2>1, <2>2, <3>1
  <2>3. CASE c # 1
    <3>1. cinfo.inRows[c] = 1
      BY <1>1, <2>3
    <3>2. ctr * 1 + i \div (VMax \div 1) = ctr
      BY <1>1
    <3>3. QED
      BY <2>1, <2>3, <3>1, <3>2
  <2>4. QED
    BY <2>2, <2>3
<1> HIDE DEF g
<1>3. MergedRow(buffer, ctr, i) = Ideal(g)
  BY <1>2 DEF MergedRow, Ideal
<1>4. QED
  BY <1>3 DEF g

\* A pixel row is not the empty sequence that stands for no spare row.
LEMMA MergedRowIsARow ==
  ASSUME Described, NEW buffer, NEW ctr, NEW i
  PROVE  MergedRow(buffer, ctr, i) # NoRow
<1>1. 1 \in Needed
  BY DescribedGeometry DEF Geometry
<1>2. DOMAIN MergedRow(buffer, ctr, i) = Needed
  BY DEF MergedRow
<1>3. DOMAIN NoRow = {}
  BY EmptySeq DEF NoRow
<1>4. QED
  BY <1>1, <1>2, <1>3

LEMMA OneRow ==
  ASSUME NEW S, NEW r \in S
  PROVE  <<r>> \in Seq(S) /\ Len(<<r>>) = 1 /\ <<r>>[1] = r
OBVIOUS

\* h2v1_merged_upsample: every row group is one line.
LEMMA Merged1vStep ==
  ASSUME Described, post.mode # "2pass", NEW up, NEW m, NEW k, NEW line, Ready(up, m, k, line),
         NEW room \in Nat \ {0}, cinfo.merged, VMax = 1
  PROVE  Answers(Merged1v(up, m.buffer, m.ctr), m, k, line, room)
<1> DEFINE g == (k - 1) * M + m.ctr
           u == Merged1v(up, m.buffer, m.ctr)
           row == MergedRow(m.buffer, m.ctr, 0)
<1>1. M \in 1 .. 16 /\ cinfo.total \in Nat /\ Height \in Nat
  BY DescribedGeometry DEF Geometry
<1>2. /\ UpType(up) /\ MainType(m) /\ m.full /\ k \in 1 .. cinfo.total
      /\ line \in Nat /\ line < Height /\ InStep(up, m, k, line) /\ m.ctr \in 0 .. M - 1
  BY DEF Ready, MainType
<1>3. up.spare = NoRow /\ Given(up) = 0
  BY <1>2 DEF InStep, Given
<1>4. Holds(m.buffer, k - 1) /\ line = g * 1 + 0 /\ g \in Int
  BY <1>1, <1>2, <1>3 DEF InStep, Group
<1>5. row = Ideal(line)
  <2>1. g * VMax + 0 < Height /\ 0 \in 0 .. VMax - 1 /\ k - 1 \in Nat
    BY <1>1, <1>2, <1>4
  <2>2. row = Ideal(g * VMax + 0)
    BY <1>2, <1>4, <2>1, MergedRowIsIdeal
  <2>3. QED
    BY <1>4, <2>2
<1>6. row \in RowSet
  BY <1>2, <1>5, IdealRows
<1> HIDE DEF row
<1>7. u.rows = <<row>> /\ u.up = up /\ u.ctr = m.ctr + 1
  BY DEF Merged1v, row
<1> HIDE DEF u
<1>8. u.rows \in Seq(RowSet) /\ Len(u.rows) = 1 /\ u.rows[1] = Ideal(line)
  BY <1>5, <1>6, <1>7, OneRow
<1>9. MainType(Drained(m, u.ctr)) /\ InStep(up, Drained(m, u.ctr), k, line + 1)
  <2>1. line + 1 = ((k - 1) * M + m.ctr + 1) * VMax
    <3>1. line + 1 = (g + 1) * 1
      BY <1>2, <1>4
    <3>2. QED
      BY <3>1
  <2>2. QED
    BY <1>2, <1>3, <1>4, <1>7, <2>1, NextGroup
<1>10. /\ 1 \in 1 .. VMax /\ 1 <= room /\ line + 1 <= Height
       /\ \A i \in 1 .. 1 : i = 1 /\ line + i - 1 = line
  BY <1>1, <1>2
<1>11. QED
  BY <1>2, <1>7, <1>8, <1>9, <1>10 DEF Answers, u

LEMMA StartOfPair ==
  ASSUME NEW a, NEW b
  PROVE  SubSeq(<<a, b>>, 1, 1) = <<a>> /\ SubSeq(<<a, b>>, 1, 2) = <<a, b>>
<1> DEFINE s == <<a, b>>
<1>1. s \in Seq({a, b}) /\ Len(s) = 2 /\ s[1] = a /\ s[2] = b
  OBVIOUS
<1>2. SubSeq(s, 1, 1) = [i \in 1 .. 1 |-> s[i]] /\ SubSeq(s, 1, 2) = [i \in 1 .. 2 |-> s[i]]
  OBVIOUS
<1>3. [i \in 1 .. 1 |-> s[i]] = <<a>>
  BY <1>1
<1>4. [i \in 1 .. 2 |-> s[i]] = <<a, b>>
  BY <1>1
<1>5. QED
  BY <1>2, <1>3, <1>4

\* h2v2_merged_upsample: two lines at a time, the second kept when there is no room for it.
LEMMA Merged2vStep ==
  ASSUME Described, post.mode # "2pass", NEW up, NEW m, NEW k, NEW line, Ready(up, m, k, line),
         NEW room \in Nat \ {0}, cinfo.merged, VMax = 2
  PROVE  Answers(Merged2v(up, m.buffer, m.ctr, room), m, k, line, room)
<1> DEFINE g == (k - 1) * M + m.ctr
           u == Merged2v(up, m.buffer, m.ctr, room)
           n == Min({2, up.toGo, room})
           first == MergedRow(m.buffer, m.ctr, 0)
           second == MergedRow(m.buffer, m.ctr, 1)
<1>1. M \in 1 .. 16 /\ cinfo.total \in Nat /\ Height \in Nat
  BY DescribedGeometry DEF Geometry
<1>2. /\ UpType(up) /\ MainType(m) /\ m.full /\ k \in 1 .. cinfo.total
      /\ line \in Nat /\ line < Height /\ InStep(up, m, k, line) /\ m.ctr \in 0 .. M - 1
  BY DEF Ready, MainType
<1>3. /\ Holds(m.buffer, k - 1) /\ line = g * 2 + Given(up) /\ g \in Nat
      /\ up.toGo = Height - line
      /\ up.spare # NoRow => up.spare = second
  BY <1>1, <1>2 DEF InStep, Group
<1>4. ASSUME NEW i \in 0 .. 1, g * 2 + i < Height
      PROVE  MergedRow(m.buffer, m.ctr, i) = Ideal(g * 2 + i) /\ Ideal(g * 2 + i) \in RowSet
  <2>1. k - 1 \in Nat /\ i \in 0 .. VMax - 1 /\ ((k - 1) * M + m.ctr) * VMax + i < Height
    BY <1>1, <1>2, <1>4
  <2>2. MergedRow(m.buffer, m.ctr, i) = Ideal(((k - 1) * M + m.ctr) * VMax + i)
    BY <1>2, <1>3, <2>1, MergedRowIsIdeal
  <2>3. g * 2 + i \in Nat
    BY <1>3
  <2>4. Ideal(g * 2 + i) \in RowSet
    BY <1>4, <2>3, IdealRows
  <2>5. QED
    BY <2>2, <2>4
<1>5. second # NoRow
  BY MergedRowIsARow
<1>6. g * 2 + 2 = ((k - 1) * M + m.ctr + 1) * VMax
  <2>1. g * 2 + 2 = (g + 1) * 2
    BY <1>3
  <2>2. QED
    BY <2>1
<1> HIDE DEF first, second
<1>7. up = [next |-> up.next, toGo |-> up.toGo, color |-> up.color, spare |-> up.spare]
      /\ up.next \in 0 .. VMax
  BY <1>2 DEF UpType
<1>8. CASE up.spare # NoRow
  <2>1. u.rows = <<up.spare>> /\ u.ctr = m.ctr + 1 /\ u.up = [up EXCEPT !.spare = NoRow, !.toGo = up.toGo - 1]
    BY <1>8 DEF Merged2v
  <2> HIDE DEF u
  <2>2. Given(up) = 1 /\ line = g * 2 + 1 /\ up.spare = second
    BY <1>3, <1>8 DEF Given
  <2>3. second = Ideal(line) /\ Ideal(line) \in RowSet
    <3>1. 1 \in 0 .. 1 /\ g * 2 + 1 < Height
      BY <1>2, <2>2
    <3>2. MergedRow(m.buffer, m.ctr, 1) = Ideal(g * 2 + 1) /\ Ideal(g * 2 + 1) \in RowSet
      BY <1>4, <3>1
    <3>3. QED
      BY <2>2, <3>2 DEF second
  <2>4. u.rows \in Seq(RowSet) /\ Len(u.rows) = 1 /\ u.rows[1] = Ideal(line)
    BY <2>1, <2>2, <2>3, OneRow
  <2>5. u.up = [next |-> up.next, toGo |-> up.toGo - 1, color |-> up.color, spare |-> NoRow]
    <3> DEFINE y == up.toGo - 1
    <3> HIDE DEF y
    <3>1. [up EXCEPT !.spare = NoRow, !.toGo = y] = [next |-> up.next, toGo |-> y, color |-> up.color, spare |-> NoRow]
      <4> DEFINE t == [next |-> up.next, toGo |-> up.toGo, color |-> up.color, spare |-> NoRow]
      <4>1. [up EXCEPT !.spare = NoRow] = t
        BY <1>7
      <4>2. [t EXCEPT !.toGo = y] = [next |-> up.next, toGo |-> y, color |-> up.color, spare |-> NoRow]
        OBVIOUS
      <4>3. [up EXCEPT !.spare = NoRow, !.toGo = y] = [[up EXCEPT !.spare = NoRow] EXCEPT !.toGo = y]
        BY <1>7
      <4> HIDE DEF t
      <4>4. QED
        BY <4>1, <4>2, <4>3
    <3>2. QED
      BY <2>1, <3>1 DEF y
  <2>6. u.up.spare = NoRow /\ u.up.toGo = Height - (line + 1) /\ UpType(u.up)
    <3>1. up.toGo - 1 = Height - (line + 1) /\ up.toGo - 1 \in 0 .. Height
      BY <1>1, <1>2, <1>3
    <3>2. u.up.spare = NoRow /\ u.up.toGo = up.toGo - 1 /\ u.up.next = up.next /\ u.up.color = up.color
      BY <2>5
    <3>3. QED
      BY <1>7, <2>5, <3>1, <3>2 DEF UpType
  <2>7. MainType(Drained(m, u.ctr)) /\ InStep(u.up, Drained(m, u.ctr), k, line + 1)
    <3>1. Given(u.up) = 0
      BY <2>6 DEF Given
    <3>2. line + 1 = ((k - 1) * M + m.ctr + 1) * VMax
      BY <1>3, <1>6, <2>2
    <3>3. QED
      BY <1>2, <1>3, <2>1, <2>6, <3>1, <3>2, NextGroup
  <2>8. /\ 1 \in 1 .. VMax /\ 1 <= room /\ line + 1 <= Height
        /\ \A i \in 1 .. 1 : i = 1 /\ line + i - 1 = line
    BY <1>1, <1>2
  <2>9. QED
    BY <2>4, <2>6, <2>7, <2>8 DEF Answers, u
<1>9. CASE up.spare = NoRow
  <2>1. n \in 1 .. 2 /\ n <= Height - line /\ n <= room
    <3>1. up.toGo \in Int /\ up.toGo = Height - line /\ up.toGo >= 1
      BY <1>1, <1>2, <1>3
    <3>2. Min({2, up.toGo, room}) \in {2, up.toGo, room} /\ Min({2, up.toGo, room}) <= 2
          /\ Min({2, up.toGo, room}) <= up.toGo /\ Min({2, up.toGo, room}) <= room
      <4>1. 2 \in Int /\ room \in Int
        OBVIOUS
      <4>2. QED
        BY <3>1, <4>1, OfThree, Zenon
    <3>3. QED
      BY <3>1, <3>2
  <2>2. /\ u.rows = SubSeq(<<first, second>>, 1, n)
        /\ u.up = [up EXCEPT !.toGo = up.toGo - n, !.spare = IF n > 1 THEN NoRow ELSE second]
        /\ u.ctr = IF n > 1 THEN m.ctr + 1 ELSE m.ctr
    <3> HIDE DEF n
    <3>1. <<first, second>>[2] = second
      OBVIOUS
    <3>2. QED
      BY <1>9, <3>1 DEF Merged2v, n, first, second
  <2> HIDE DEF u, n
  <2>3. Given(up) = 0 /\ line = g * 2 + 0
    BY <1>3, <1>9 DEF Given
  <2>4. first = Ideal(line) /\ Ideal(line) \in RowSet
    <3>1. 0 \in 0 .. 1 /\ g * 2 + 0 < Height
      BY <1>2, <2>3
    <3>2. MergedRow(m.buffer, m.ctr, 0) = Ideal(g * 2 + 0) /\ Ideal(g * 2 + 0) \in RowSet
      BY <1>4, <3>1
    <3>3. QED
      BY <2>3, <3>2 DEF first
  <2>5. n = 2 => second = Ideal(line + 1) /\ Ideal(line + 1) \in RowSet
    <3>1. SUFFICES ASSUME n = 2 PROVE second = Ideal(line + 1) /\ Ideal(line + 1) \in RowSet
      OBVIOUS
    <3>2. 1 \in 0 .. 1 /\ g * 2 + 1 < Height /\ line + 1 = g * 2 + 1
      BY <1>1, <1>2, <1>3, <2>1, <2>3, <3>1
    <3>3. MergedRow(m.buffer, m.ctr, 1) = Ideal(g * 2 + 1) /\ Ideal(g * 2 + 1) \in RowSet
      BY <1>4, <3>2
    <3>4. QED
      BY <3>2, <3>3 DEF second
  <2>6. u.up = [next |-> up.next, toGo |-> up.toGo - n, color |-> up.color,
                spare |-> IF n > 1 THEN NoRow ELSE second]
    <3> DEFINE y == up.toGo - n
               z == IF n > 1 THEN NoRow ELSE second
    <3> HIDE DEF y, z
    <3>1. [up EXCEPT !.toGo = y, !.spare = z] = [next |-> up.next, toGo |-> y, color |-> up.color, spare |-> z]
      <4> DEFINE t == [next |-> up.next, toGo |-> y, color |-> up.color, spare |-> up.spare]
      <4>1. [up EXCEPT !.toGo = y] = t
        BY <1>7
      <4>2. [t EXCEPT !.spare = z] = [next |-> up.next, toGo |-> y, color |-> up.color, spare |-> z]
        OBVIOUS
      <4>3. [up EXCEPT !.toGo = y, !.spare = z] = [[up EXCEPT !.toGo = y] EXCEPT !.spare = z]
        BY <1>7
      <4> HIDE DEF t
      <4>4. QED
        BY <4>1, <4>2, <4>3
    <3>2. QED
      BY <2>2, <3>1 DEF y, z
  <2>7. /\ u.up.toGo = Height - (line + n) /\ UpType(u.up)
        /\ u.up.spare = IF n > 1 THEN NoRow ELSE second
    <3>1. up.toGo - n = Height - (line + n) /\ up.toGo - n \in 0 .. Height
      BY <1>1, <1>2, <1>3, <2>1
    <3>2. u.up.spare = (IF n > 1 THEN NoRow ELSE second) /\ u.up.toGo = up.toGo - n /\ u.up.next = up.next
          /\ u.up.color = up.color
      BY <2>6
    <3>3. QED
      BY <1>7, <2>6, <3>1, <3>2 DEF UpType
  <2>8. CASE n = 2
    <3>1. u.rows = <<first, second>> /\ u.ctr = m.ctr + 1 /\ u.up.spare = NoRow
      BY <2>2, <2>7, <2>8, StartOfPair
    <3>2. /\ u.rows \in Seq(RowSet) /\ Len(u.rows) = 2
          /\ u.rows[1] = Ideal(line) /\ u.rows[2] = Ideal(line + 1)
      BY <2>4, <2>5, <2>8, <3>1
    <3>3. MainType(Drained(m, u.ctr)) /\ InStep(u.up, Drained(m, u.ctr), k, line + 2)
      <4>1. Given(u.up) = 0
        BY <3>1 DEF Given
      <4>2. line + 2 = ((k - 1) * M + m.ctr + 1) * VMax
        BY <1>3, <1>6, <2>3
      <4>3. QED
        BY <1>2, <1>3, <2>7, <2>8, <3>1, <4>1, <4>2, NextGroup
    <3>4. 2 \in 1 .. VMax /\ 2 <= room /\ line + 2 <= Height
      BY <1>1, <1>2, <2>1, <2>8
    <3>4a. \A i \in 1 .. 2 : (i = 1 /\ line + i - 1 = line) \/ (i = 2 /\ line + i - 1 = line + 1)
      BY <1>2
    <3>5. QED
      BY <2>7, <3>2, <3>3, <3>4, <3>4a DEF Answers, u
  <2>9. CASE n = 1
    <3>1. u.rows = <<first>> /\ u.ctr = m.ctr /\ u.up.spare = second
      BY <2>2, <2>7, <2>9, StartOfPair
    <3>2. u.rows \in Seq(RowSet) /\ Len(u.rows) = 1 /\ u.rows[1] = Ideal(line)
      BY <2>4, <3>1, OneRow
    <3>3. Drained(m, u.ctr) = m
      BY <1>2, <3>1, StayInGroup
    <3>4. InStep(u.up, m, k, line + 1)
      <4>1. Given(u.up) = 1
        BY <1>5, <3>1 DEF Given
      <4>2. line + 1 = Group(m, k) * VMax + Given(u.up)
        BY <1>2, <1>3, <2>3, <4>1 DEF Group
      <4>3. u.up.spare = MergedRow(m.buffer, m.ctr, 1)
        BY <3>1 DEF second
      <4>4. QED
        BY <1>1, <1>2, <1>3, <2>7, <2>9, <4>2, <4>3 DEF InStep
    <3>5. /\ 1 \in 1 .. VMax /\ 1 <= room /\ line + 1 <= Height
          /\ \A i \in 1 .. 1 : i = 1 /\ line + i - 1 = line
      BY <1>1, <1>2
    <3>6. QED
      BY <1>2, <2>7, <3>2, <3>3, <3>4, <3>5 DEF Answers, u
  <2>10. QED
    BY <2>1, <2>8, <2>9
<1>10. QED
  BY <1>8, <1>9

\* Whichever upsampler the picture has.
LEMMA UpsampleStep ==
  ASSUME Described, post.mode # "2pass", NEW up, NEW m, NEW k, NEW line, Ready(up, m, k, line),
         NEW room \in Nat \ {0}
  PROVE  Answers(Upsample(up, m.buffer, m.ctr, room), m, k, line, room)
<1>1. cinfo.merged => VMax \in {1, 2}
  BY DescribedGeometry DEF Geometry
<1>2. CASE ~cinfo.merged
  BY <1>2, SepUpsampleStep DEF Upsample
<1>3. CASE cinfo.merged /\ VMax = 2
  BY <1>3, Merged2vStep DEF Upsample
<1>4. CASE cinfo.merged /\ VMax = 1
  BY <1>4, Merged1vStep DEF Upsample
<1>5. QED
  BY <1>1, <1>2, <1>3, <1>4

-----------------------------------------------------------------------------
(* A call that takes rows from the buffer *)

\* The iMCU rows decoded once the buffer is full.
Decoded == IF NeedsInput THEN output_iMCU_row + 1 ELSE output_iMCU_row

LEMMA InvTypes ==
  ASSUME RowsInv
  PROVE  /\ Described /\ UpType(upsample) /\ MainType(main)
         /\ output_iMCU_row \in 0 .. cinfo.total /\ cinfo.total \in Nat
         /\ output_scanline \in Nat /\ M \in 1 .. 16 /\ VMax \in 1 .. 4 /\ Height \in Nat \ {0}
         /\ Saved \subseteq Nat /\ 0 .. Height - 1 \subseteq Saved
<1>1. Described /\ Types
  BY DEF RowsInv
<1>2. UpType(upsample)
  BY <1>1 DEF Types, TypeOK, UpType
<1>3. MainType(main)
  BY <1>1 DEF Types, TypeOK, MainType
<1>4. output_iMCU_row \in 0 .. cinfo.total /\ output_scanline \in Nat
  BY <1>1 DEF Types, TypeOK
<1>5. /\ M \in 1 .. 16 /\ VMax \in 1 .. 4 /\ Height \in Nat \ {0} /\ cinfo.total \in Nat
      /\ Saved \subseteq Nat /\ 0 .. Height - 1 \subseteq Saved
  BY <1>1, DescribedGeometry DEF Geometry
<1>6. QED
  BY <1>1, <1>2, <1>3, <1>4, <1>5

\* Whoever calls process_data, there is an iMCU row to take the next line from.
LEMMA LoadedIsReady ==
  ASSUME RowsInv, Passing, post.mode # "2pass", output_scanline < Height
  PROVE  Ready(upsample, Loaded, Decoded, output_scanline)
<1>1. /\ Described /\ UpType(upsample) /\ MainType(main)
      /\ output_iMCU_row \in 0 .. cinfo.total /\ cinfo.total \in Nat
      /\ output_scanline \in Nat /\ M \in 1 .. 16 /\ VMax \in 1 .. 4 /\ Height \in Nat \ {0}
  BY InvTypes
<1>2. InStep(upsample, main, output_iMCU_row, output_scanline)
  BY DEF RowsInv, Flowing
<1>3. CASE main.full
  <2>1. Loaded = main /\ Decoded = output_iMCU_row
    BY <1>3 DEF Loaded, Decoded, NeedsInput
  <2>2. output_iMCU_row > 0
    BY <1>2, <1>3 DEF InStep
  <2>3. QED
    BY <1>1, <1>2, <1>3, <2>1, <2>2 DEF Ready
<1>4. CASE ~main.full
  <2> DEFINE k == output_iMCU_row
             b == Filled(main.buffer, k)
             m == [buffer |-> b, full |-> TRUE, ctr |-> 0]
  <2>1. main.ctr = 0 /\ main = [buffer |-> main.buffer, full |-> main.full, ctr |-> main.ctr]
    BY <1>1, <1>2, <1>4 DEF InStep, MainType
  <2>2. Loaded = m /\ Decoded = k + 1
    <3> HIDE DEF b
    <3>1. [main EXCEPT !.buffer = b, !.full = TRUE] = m
      <4> DEFINE t == [buffer |-> b, full |-> main.full, ctr |-> 0]
      <4>1. [main EXCEPT !.buffer = b] = t
        BY <2>1
      <4>2. [t EXCEPT !.full = TRUE] = m
        <5> DEFINE yes == TRUE
        <5> HIDE DEF yes
        <5>1. [t EXCEPT !.full = yes] = [buffer |-> b, full |-> yes, ctr |-> 0]
          OBVIOUS
        <5>2. QED
          BY <5>1 DEF yes
      <4>3. [main EXCEPT !.buffer = b, !.full = TRUE] = [[main EXCEPT !.buffer = b] EXCEPT !.full = TRUE]
        BY <2>1
      <4> HIDE DEF t, m
      <4>4. QED
        BY <4>1, <4>2, <4>3
    <3>2. NeedsInput
      BY <1>4 DEF NeedsInput
    <3> HIDE DEF m
    <3>3. QED
      BY <3>1, <3>2 DEF Loaded, Decoded, b
  <2>3. ~(Given(upsample) > 0) /\ output_scanline = (k * M) * VMax + Given(upsample)
    BY <1>2, <1>4 DEF InStep, Group
  <2>4. Given(upsample) = 0
    <3>1. Given(upsample) \in 0 .. VMax
      BY <1>1 DEF Given, UpType
    <3>2. QED
      BY <1>1, <2>3, <3>1
  <2>5. k < cinfo.total /\ k \in Nat
    <3>1. \A i \in Nat : i < cinfo.total <=> i * M * VMax < Height
      BY <1>1, DescribedGeometry DEF Geometry
    <3>2. k \in Nat /\ k * M * VMax < Height
      BY <1>1, <2>3, <2>4
    <3>3. QED
      BY <3>1, <3>2
  <2>6. Holds(b, k)
    BY <1>1, <2>5, FilledHolds
  <2> HIDE DEF b
  <2>7. MainType(m) /\ m.full /\ m.buffer = b /\ m.ctr = 0
    <3>1. m.full = TRUE /\ m.buffer = b /\ m.ctr = 0
      OBVIOUS
    <3>2. m = [buffer |-> m.buffer, full |-> m.full, ctr |-> m.ctr]
      OBVIOUS
    <3>3. 0 \in 0 .. M - 1
      BY <1>1
    <3> HIDE DEF m
    <3>4. QED
      BY <3>1, <3>2, <3>3, Zenon DEF MainType
  <2> HIDE DEF m
  <2>8. Group(m, k + 1) = k * M
    BY <1>1, <2>5, <2>7 DEF Group
  <2>9. output_scanline = Group(m, k + 1) * VMax + Given(upsample)
    BY <2>3, <2>8
  <2>10. k + 1 > 0 /\ (k + 1) - 1 = k /\ k + 1 \in 1 .. cinfo.total
    BY <1>1, <2>5
  <2>11. cinfo.merged => ~(upsample.spare # NoRow)
    BY <2>4 DEF Given
  <2>12. ~cinfo.merged => ~(upsample.next < VMax)
    <3>1. SUFFICES ASSUME ~cinfo.merged, upsample.next < VMax PROVE FALSE
      OBVIOUS
    <3>2. upsample.next \in 0 .. VMax /\ (upsample.next < VMax => main.full)
      BY <1>1, <1>2, <3>1 DEF InStep, UpType
    <3>3. QED
      BY <1>4, <3>1, <3>2
  <2>13. ~(cinfo.merged /\ VMax = 1) => upsample.toGo = Height - output_scanline
    BY <1>2 DEF InStep
  <2>14. InStep(upsample, m, k + 1, output_scanline)
    BY <2>4, <2>6, <2>7, <2>9, <2>10, <2>11, <2>12, <2>13 DEF InStep
  <2>15. QED
    BY <1>1, <2>2, <2>7, <2>10, <2>14 DEF Ready
<1>5. QED
  BY <1>3, <1>4

LEMMA Taken ==
  ASSUME RowsInv, Passing, post.mode # "2pass", output_scanline < Height, NEW room \in Nat \ {0}
  PROVE  /\ Answers(Upsample(upsample, Loaded.buffer, Loaded.ctr, room), Loaded, Decoded, output_scanline, room)
         /\ Decoded \in 1 .. cinfo.total
<1>1. Ready(upsample, Loaded, Decoded, output_scanline)
  BY LoadedIsReady
<1>2. QED
  BY <1>1, InvTypes, UpsampleStep DEF Ready

\* The decoder has given the last iMCU row when the last line has been made.
LEMMA DecodedAtTheEnd ==
  ASSUME Described, NEW up, UpType(up), NEW m, MainType(m), NEW k \in 0 .. cinfo.total,
         InStep(up, m, k, Height)
  PROVE  k = cinfo.total
<1>1. /\ M \in 1 .. 16 /\ VMax \in 1 .. 4 /\ cinfo.total \in Nat /\ Height \in Nat
      /\ \A i \in Nat : i < cinfo.total <=> i * M * VMax < Height
  BY DescribedGeometry DEF Geometry
<1>2. m.ctr \in 0 .. M - 1 /\ Height = Group(m, k) * VMax + Given(up)
  BY DEF InStep, MainType
<1>3. Given(up) \in 0 .. VMax - 1 /\ (Given(up) > 0 => m.full)
  <2>1. Given(up) > 0 => m.full
    BY DEF InStep
  <2>2. CASE cinfo.merged
    <3>1. up.spare # NoRow => VMax = 2
      BY <2>2 DEF InStep
    <3>2. QED
      BY <1>1, <2>1, <2>2, <3>1 DEF Given
  <2>3. CASE ~cinfo.merged
    BY <1>1, <2>1, <2>3 DEF Given, UpType
  <2>4. QED
    BY <2>2, <2>3
<1>4. Height <= (k * M) * VMax
  <2>1. CASE m.full
    <3>1. Group(m, k) + 1 <= k * M /\ Group(m, k) \in Int
      BY <1>1, <1>2, <2>1 DEF Group
    <3>2. (Group(m, k) + 1) * VMax <= (k * M) * VMax
      BY <1>1, <3>1, Products
    <3>3. QED
      BY <1>1, <1>2, <1>3, <3>1, <3>2
  <2>2. CASE ~m.full
    BY <1>1, <1>2, <1>3, <2>2 DEF Group
  <2>3. QED
    BY <2>1, <2>2
<1>5. ~(k < cinfo.total)
  <2>1. k \in Nat /\ ~(k * M * VMax < Height)
    BY <1>1, <1>4
  <2>2. QED
    BY <1>1, <2>1
<1>6. QED
  BY <1>1, <1>5

-----------------------------------------------------------------------------
(* The postprocessor *)

PostType(po) ==
  /\ po \in [mode : {"upsample", "1pass", "prepass", "2pass"}, start : Nat, next : Nat,
             strip : Int, whole : [Saved -> Stored]]
  /\ po.next \in 0 .. VMax - 1 /\ po.strip \in {Null} \cup Saved

LEMMA InvPost ==
  ASSUME RowsInv
  PROVE  PostType(post)
BY DEF RowsInv, Types, TypeOK, PostType, StripHeight

LEMMA AdvanceStep ==
  ASSUME RowsInv, NEW po, PostType(po), NEW n \in Nat, po.next + n <= VMax
  PROVE  LET a == Advance(po, n)
         IN  /\ PostType(a) /\ a.mode = po.mode /\ a.whole = po.whole /\ a.strip = po.strip
             /\ a.start + a.next = po.start + po.next + n
             /\ a.next # 0 => a.start = po.start
<1>1. VMax \in 1 .. 4
  BY InvTypes
<1> DEFINE a == Advance(po, n)
<1>2. po \in [mode : {"upsample", "1pass", "prepass", "2pass"}, start : Nat, next : Nat,
              strip : Int, whole : [Saved -> Stored]]
      /\ po.next \in 0 .. VMax - 1 /\ po.strip \in {Null} \cup Saved
  BY DEF PostType
<1>3. CASE po.next + n >= VMax
  <2> DEFINE x == po.start + VMax
             t == [po EXCEPT !.start = x]
  <2>1. a = [po EXCEPT !.start = x, !.next = 0]
    BY <1>3 DEF Advance, StripHeight
  <2>2. x \in Nat
    BY <1>1, <1>2
  <2> HIDE DEF a, x
  <2>3. /\ t \in [mode : {"upsample", "1pass", "prepass", "2pass"}, start : Nat, next : Nat,
                  strip : Int, whole : [Saved -> Stored]]
        /\ t.mode = po.mode /\ t.start = x /\ t.whole = po.whole /\ t.strip = po.strip
    BY <1>2, <2>2
  <2>4. [po EXCEPT !.start = x, !.next = 0] = [t EXCEPT !.next = 0]
    BY <1>2
  <2> HIDE DEF t
  <2>5. /\ a \in [mode : {"upsample", "1pass", "prepass", "2pass"}, start : Nat, next : Nat,
                  strip : Int, whole : [Saved -> Stored]]
        /\ a.mode = po.mode /\ a.start = x /\ a.next = 0 /\ a.whole = po.whole /\ a.strip = po.strip
    BY <2>1, <2>3, <2>4
  <2>6. 0 \in 0 .. VMax - 1 /\ x + 0 = po.start + po.next + n
    BY <1>1, <1>2, <1>3 DEF x
  <2>7. QED
    BY <1>2, <2>5, <2>6 DEF PostType, a
<1>4. CASE ~(po.next + n >= VMax)
  <2> DEFINE y == po.next + n
  <2>1. a = [po EXCEPT !.next = y]
    BY <1>4 DEF Advance, StripHeight
  <2>2. y \in 0 .. VMax - 1 /\ y \in Nat /\ po.start + y = po.start + po.next + n
    BY <1>1, <1>2, <1>4
  <2> HIDE DEF a, y
  <2>3. /\ a \in [mode : {"upsample", "1pass", "prepass", "2pass"}, start : Nat, next : Nat,
                  strip : Int, whole : [Saved -> Stored]]
        /\ a.mode = po.mode /\ a.start = po.start /\ a.next = y /\ a.whole = po.whole /\ a.strip = po.strip
    BY <1>2, <2>1, <2>2
  <2>4. QED
    BY <1>2, <2>2, <2>3 DEF PostType, a
<1>5. QED
  BY <1>3, <1>4

LEMMA RepositionStep ==
  ASSUME RowsInv, NEW po, PostType(po), po.start \in Saved
  PROVE  LET a == Reposition(po)
         IN  /\ PostType(a) /\ a.mode = po.mode /\ a.whole = po.whole
             /\ a.start = po.start /\ a.next = po.next
             /\ a.strip = IF po.next = 0 THEN po.start ELSE po.strip
<1> DEFINE a == Reposition(po)
           x == IF po.next = 0 THEN po.start ELSE po.strip
<1>1. po \in [mode : {"upsample", "1pass", "prepass", "2pass"}, start : Nat, next : Nat,
              strip : Int, whole : [Saved -> Stored]]
      /\ po.next \in 0 .. VMax - 1 /\ po.strip \in {Null} \cup Saved
  BY DEF PostType
<1>2. a = [po EXCEPT !.strip = x]
  BY DEF Reposition
<1>3. x \in Int /\ x \in {Null} \cup Saved
  BY <1>1
<1> HIDE DEF a, x
<1>4. /\ a \in [mode : {"upsample", "1pass", "prepass", "2pass"}, start : Nat, next : Nat,
                strip : Int, whole : [Saved -> Stored]]
      /\ a.mode = po.mode /\ a.start = po.start /\ a.next = po.next /\ a.whole = po.whole /\ a.strip = x
  BY <1>1, <1>2, <1>3
<1>5. QED
  BY <1>1, <1>3, <1>4 DEF PostType, a, x

LEMMA SaveStep ==
  ASSUME RowsInv, NEW po, PostType(po), NEW rows \in Seq(RowSet), NEW from \in Int
  PROVE  LET a == Save(po, from, rows)
         IN  /\ PostType(a) /\ a.mode = po.mode /\ a.strip = po.strip
             /\ a.start = po.start /\ a.next = po.next
             /\ \A r \in Saved : a.whole[r] = IF r \in from .. from + Len(rows) - 1
                                              THEN rows[r - from + 1] ELSE po.whole[r]
<1> DEFINE a == Save(po, from, rows)
           x == [r \in Saved |-> IF r \in from .. from + Len(rows) - 1
                                 THEN rows[r - from + 1] ELSE po.whole[r]]
<1>1. po \in [mode : {"upsample", "1pass", "prepass", "2pass"}, start : Nat, next : Nat,
              strip : Int, whole : [Saved -> Stored]]
      /\ po.next \in 0 .. VMax - 1 /\ po.strip \in {Null} \cup Saved
  BY DEF PostType
<1>2. a = [po EXCEPT !.whole = x]
  BY DEF Save
<1>3. x \in [Saved -> Stored]
  <2>1. ASSUME NEW r \in Saved, r \in from .. from + Len(rows) - 1 PROVE rows[r - from + 1] \in Stored
    <3>1. Len(rows) \in Nat /\ r \in Int
      BY <2>1
    <3>2. r - from + 1 \in 1 .. Len(rows)
      BY <2>1, <3>1
    <3>3. rows[r - from + 1] \in RowSet
      BY <3>2, ElementOfSeq
    <3>4. QED
      BY <3>3 DEF Stored
  <2>2. \A r \in Saved : po.whole[r] \in Stored
    BY <1>1
  <2>3. QED
    BY <2>1, <2>2
<1>4. \A r \in Saved : x[r] = IF r \in from .. from + Len(rows) - 1 THEN rows[r - from + 1] ELSE po.whole[r]
  OBVIOUS
<1> HIDE DEF a, x
<1>5. /\ a \in [mode : {"upsample", "1pass", "prepass", "2pass"}, start : Nat, next : Nat,
                strip : Int, whole : [Saved -> Stored]]
      /\ a.mode = po.mode /\ a.start = po.start /\ a.next = po.next /\ a.whole = x /\ a.strip = po.strip
  BY <1>1, <1>2, <1>3
<1>6. QED
  BY <1>1, <1>4, <1>5 DEF PostType, a

\* Where two-pass quantization is right: post_process_2pass (jdpostct.c:224) limits the rows of a
\* strip by what the picture has below the strip's start, those already sent included, so in the
\* last strip of more than two lines it may go below the picture.
ShortStrips ==
  \A job \in Jobs :
    job.req.quant \in {"two", "both"} => \A c \in Comps(job.pic) : job.pic.comps[c].v <= 2

LEMMA TwoLinesAtMost ==
  ASSUME ShortStrips, Described, TwoPass
  PROVE  VMax \in 1 .. 2
<1>1. PICK job \in Jobs : pic = job.pic /\ req = job.req
  BY DEF Described
<1>2. Picture(pic, req) /\ VMax = MaxV(pic)
  <2>1. VMax = MaxV(pic)
    BY DEF Described, VMax, Dimensions
  <2>2. QED
    BY <2>1, DescribedGeometry DEF Geometry
<1>3. \A c \in Comps(pic) : pic.comps[c].v \in 1 .. 2
  <2>1. \A c \in Comps(pic) : pic.comps[c].v <= 2
    BY <1>1 DEF ShortStrips, TwoPass
  <2>2. \A c \in Comps(pic) : pic.comps[c].v \in 1 .. 4
    BY <1>2, Sampling
  <2>3. QED
    BY <2>1, <2>2
<1> DEFINE S == {pic.comps[c].v : c \in Comps(pic)}
<1>4. S \subseteq 1 .. 2 /\ S # {}
  <2>1. 1 \in Comps(pic)
    BY <1>2, Sampling
  <2>2. QED
    BY <1>3, <2>1
<1>5. Max(S) \in 1 .. 2
  <2> HIDE DEF S
  <2>1. \E x \in S : \A y \in S : x >= y
    <3>1. CASE 2 \in S
      BY <1>4, <3>1
    <3>2. CASE 2 \notin S
      <4>1. PICK x \in S : TRUE
        BY <1>4
      <4>2. \A y \in S : y = 1
        BY <1>4, <3>2
      <4>3. QED
        BY <4>1, <4>2
    <3>3. QED
      BY <3>1, <3>2
  <2>2. QED
    BY <1>4, <2>1 DEF Max
<1>6. QED
  BY <1>2, <1>5 DEF MaxV

\* What a call of process_data shows an application, and what it leaves.
Shows(r, line) ==
  /\ r.out \in Seq(RowSet) /\ Len(r.out) >= 1 /\ line + Len(r.out) <= Height
  /\ \A i \in 1 .. Len(r.out) : r.out[i] = Ideal(line + i - 1)
  /\ UpType(r.up) /\ MainType(Drained(Loaded, r.ctr)) /\ Decoded \in 0 .. cinfo.total
  /\ PostType(r.post) /\ r.post.mode = post.mode
  /\ post.mode # "2pass" => InStep(r.up, Drained(Loaded, r.ctr), Decoded, line + Len(r.out))
  /\ post.mode = "2pass" =>
       /\ r.post.start + r.post.next = line + Len(r.out)
       /\ r.post.next # 0 => r.post.strip = r.post.start
       /\ r.post.whole = post.whole /\ Decoded = output_iMCU_row

\* Without a quantizer or with one pass, the upsampler's rows go out.
LEMMA ThroughStep ==
  ASSUME RowsInv, Passing, post.mode \in {"upsample", "1pass"}, output_scanline < Height,
         NEW lines \in Nat \ {0}
  PROVE  Shows(PostProcess(Loaded, lines), output_scanline)
<1> DEFINE room == IF post.mode = "1pass" THEN Min({lines, StripHeight}) ELSE lines
           u == Upsample(upsample, Loaded.buffer, Loaded.ctr, room)
           r == PostProcess(Loaded, lines)
           po == IF post.mode = "1pass" /\ TwoPass THEN Save(post, post.strip, u.rows) ELSE post
<1>1. VMax \in 1 .. 4 /\ PostType(post) /\ Height \in Nat /\ cinfo.total \in Nat /\ output_scanline \in Nat
  BY InvTypes, InvPost
<1>2. room \in Nat \ {0}
  <2>1. Min({lines, VMax}) = IF lines <= VMax THEN lines ELSE VMax
    <3>1. lines \in Int /\ VMax \in Int
      BY <1>1
    <3>2. QED
      BY <3>1, OfTwo, Zenon
  <2>2. QED
    BY <1>1, <2>1 DEF StripHeight
<1> HIDE DEF room
<1>3. Answers(u, Loaded, Decoded, output_scanline, room) /\ Decoded \in 1 .. cinfo.total
  BY <1>2, Taken
<1>4. r.out = u.rows /\ r.up = u.up /\ r.ctr = u.ctr /\ r.post = po
  <2>1. CASE post.mode = "upsample"
    <3>1. r = PassThrough(Loaded, lines) /\ room = lines /\ po = post
      BY <2>1 DEF PostProcess, room
    <3>2. QED
      BY <3>1 DEF PassThrough
  <2>2. CASE post.mode = "1pass"
    <3>1. r = OnePass(Loaded, lines) /\ room = Min({lines, StripHeight})
          /\ po = IF TwoPass THEN Save(post, post.strip, u.rows) ELSE post
      BY <2>2 DEF PostProcess, room
    <3>2. QED
      BY <3>1 DEF OnePass
  <2>3. QED
    BY <2>1, <2>2
<1> HIDE DEF r, u
<1>5. u.rows \in Seq(RowSet) /\ Len(u.rows) \in 1 .. VMax /\ output_scanline + Len(u.rows) <= Height
      /\ (\A i \in 1 .. Len(u.rows) : u.rows[i] = Ideal(output_scanline + i - 1))
      /\ UpType(u.up) /\ MainType(Drained(Loaded, u.ctr))
      /\ InStep(u.up, Drained(Loaded, u.ctr), Decoded, output_scanline + Len(u.rows))
  BY <1>3 DEF Answers
<1>6. PostType(po) /\ po.mode = post.mode
  <2>1. CASE post.mode = "1pass" /\ TwoPass
    <3>1. post.strip \in Int
      BY <1>1 DEF PostType
    <3>2. QED
      BY <1>1, <1>5, <2>1, <3>1, SaveStep
  <2>2. CASE ~(post.mode = "1pass" /\ TwoPass)
    BY <1>1, <2>2
  <2>3. QED
    BY <2>1, <2>2
<1> HIDE DEF po
<1>7. Decoded \in 0 .. cinfo.total /\ Len(u.rows) >= 1 /\ post.mode # "2pass"
  BY <1>1, <1>3, <1>5
<1>8. QED
  BY <1>4, <1>5, <1>6, <1>7 DEF Shows, r

\* post_process_2pass: the rows of the virtual array go out.
LEMMA SecondPassStep ==
  ASSUME ShortStrips, RowsInv, Passing, post.mode = "2pass", output_scanline < Height,
         NEW lines \in Nat \ {0}
  PROVE  Shows(PostProcess(Loaded, lines), output_scanline)
<1> DEFINE po == Reposition(post)
           n == Min({StripHeight - po.next, lines, Height - po.start})
           r == PostProcess(Loaded, lines)
<1>1. /\ Described /\ UpType(upsample) /\ MainType(main) /\ PostType(post)
      /\ output_iMCU_row \in 0 .. cinfo.total /\ output_scanline \in Nat /\ Height \in Nat
      /\ Saved \subseteq Nat /\ 0 .. Height - 1 \subseteq Saved
  BY InvTypes, InvPost
<1>2. /\ TwoPass /\ post.start + post.next = output_scanline /\ (post.next # 0 => post.strip = post.start)
      /\ \A i \in Saved : i < Height => post.whole[i] = Ideal(i)
  BY DEF RowsInv, Strips, Quantized
<1>3. VMax \in 1 .. 2
  BY <1>1, <1>2, TwoLinesAtMost
<1>4. post.start \in Nat /\ post.next \in 0 .. VMax - 1 /\ post.start \in Saved
  <2>1. post.start \in Nat /\ post.next \in 0 .. VMax - 1
    BY <1>1 DEF PostType
  <2>2. post.start \in 0 .. Height - 1
    BY <1>1, <1>2, <1>3, <2>1
  <2>3. QED
    BY <1>1, <2>1, <2>2
<1>5. /\ PostType(po) /\ po.mode = post.mode /\ po.whole = post.whole
      /\ po.start = post.start /\ po.next = post.next /\ po.strip = post.start
  BY <1>1, <1>2, <1>4, RepositionStep
<1> HIDE DEF po
<1>6. n \in 1 .. VMax - post.next /\ n <= lines /\ output_scanline + n <= Height
  <2> DEFINE a == StripHeight - po.next
             b == Height - po.start
  <2>1. a = VMax - post.next /\ b = Height - post.start /\ a \in Int /\ b \in Int /\ a >= 1 /\ b >= 1
    BY <1>1, <1>2, <1>3, <1>4, <1>5 DEF StripHeight
  <2> HIDE DEF a, b
  <2>2. Min({a, lines, b}) \in {a, lines, b} /\ Min({a, lines, b}) <= a
        /\ Min({a, lines, b}) <= lines /\ Min({a, lines, b}) <= b
    <3>1. lines \in Int
      OBVIOUS
    <3>2. QED
      BY <2>1, <3>1, OfThree, Zenon
  <2>3. n = Min({a, lines, b})
    BY DEF a, b
  <2> HIDE DEF n
  <2>4. n \in 1 .. VMax - post.next /\ n <= lines /\ n <= Height - post.start
    BY <1>3, <1>4, <2>1, <2>2, <2>3
  <2>5. CASE post.next = 0
    BY <1>1, <1>2, <1>4, <2>4, <2>5
  <2>6. CASE post.next = 1
    BY <1>1, <1>2, <1>3, <1>4, <2>4, <2>6
  <2>7. QED
    BY <1>3, <1>4, <2>4, <2>5, <2>6
<1>7. /\ r.out = [i \in 1 .. n |-> po.whole[po.strip + po.next + i - 1]]
      /\ r.up = upsample /\ r.ctr = Loaded.ctr /\ r.post = Advance(po, n)
  <2>1. r = SecondPass(Loaded, lines)
    BY DEF PostProcess
  <2>2. QED
    BY <2>1 DEF SecondPass, po, n
<1> HIDE DEF r, n
<1>8. Loaded = main /\ Decoded = output_iMCU_row
  BY DEF Loaded, Decoded, NeedsInput
<1>9. Drained(Loaded, r.ctr) = main
  BY <1>1, <1>7, <1>8, StayInGroup
<1>10. ASSUME NEW i \in 1 .. n
       PROVE  po.whole[po.strip + po.next + i - 1] = Ideal(output_scanline + i - 1)
              /\ Ideal(output_scanline + i - 1) \in RowSet
  <2>1. /\ po.strip + po.next + i - 1 = output_scanline + i - 1
        /\ output_scanline + i - 1 \in 0 .. Height - 1 /\ output_scanline + i - 1 \in Nat
    BY <1>1, <1>2, <1>3, <1>4, <1>5, <1>6
  <2>2. post.whole[output_scanline + i - 1] = Ideal(output_scanline + i - 1)
    BY <1>1, <1>2, <2>1
  <2>3. Ideal(output_scanline + i - 1) \in RowSet
    BY <1>1, <2>1, IdealRows
  <2>4. QED
    BY <1>5, <2>1, <2>2, <2>3
<1>11. r.out \in Seq(RowSet) /\ Len(r.out) = n /\ \A i \in 1 .. n : r.out[i] = Ideal(output_scanline + i - 1)
  <2>1. r.out = [i \in 1 .. n |-> Ideal(output_scanline + i - 1)]
    BY <1>7, <1>10
  <2>2. n \in Nat
    BY <1>3, <1>4, <1>6
  <2>3. r.out \in [1 .. n -> RowSet]
    BY <1>10, <2>1
  <2>4. r.out \in Seq(RowSet) /\ DOMAIN r.out = 1 .. n
    BY <2>2, <2>3, SeqDef
  <2>5. Len(r.out) = n
    BY <2>2, <2>4, LenProperties
  <2>6. QED
    BY <2>1, <2>4, <2>5
<1>12. /\ PostType(r.post) /\ r.post.mode = post.mode /\ r.post.whole = post.whole
       /\ r.post.start + r.post.next = output_scanline + n
       /\ r.post.next # 0 => r.post.strip = r.post.start
  <2>1. n \in Nat /\ po.next + n <= VMax
    BY <1>3, <1>4, <1>5, <1>6
  <2>2. LET a == Advance(po, n)
        IN  /\ PostType(a) /\ a.mode = po.mode /\ a.whole = po.whole /\ a.strip = po.strip
            /\ a.start + a.next = po.start + po.next + n
            /\ a.next # 0 => a.start = po.start
    BY <1>5, <2>1, AdvanceStep
  <2>3. po.start + po.next + n = output_scanline + n
    BY <1>2, <1>5
  <2>4. QED
    BY <1>5, <1>7, <2>2, <2>3
<1>13. Len(r.out) >= 1 /\ output_scanline + Len(r.out) <= Height
  BY <1>3, <1>4, <1>6, <1>11
<1>14. QED
  BY <1>1, <1>7, <1>8, <1>9, <1>11, <1>12, <1>13 DEF Shows, r

\* post_process_prepass: the rows are saved, and the quantizer sees them.
LEMMA DummyStep ==
  ASSUME RowsInv, global_state = "PRESCAN"
  PROVE  LET r == PostProcess(Loaded, 0)
             line == output_scanline + Len(r.seen)
         IN  /\ Len(r.seen) \in Nat \ {0} /\ line <= Height
             /\ UpType(r.up) /\ MainType(Drained(Loaded, r.ctr)) /\ Decoded \in 0 .. cinfo.total
             /\ InStep(r.up, Drained(Loaded, r.ctr), Decoded, line)
             /\ PostType(r.post) /\ r.post.mode = "prepass"
             /\ r.post.start + r.post.next = line
             /\ r.post.next # 0 => r.post.strip = r.post.start
             /\ \A i \in Saved : i < line => r.post.whole[i] = Ideal(i)
<1> DEFINE po == Reposition(post)
           u == Upsample(upsample, Loaded.buffer, Loaded.ctr, StripHeight - po.next)
           r == PostProcess(Loaded, 0)
           sv == Save(po, po.strip + po.next, u.rows)
           n == Len(u.rows)
           line == output_scanline + n
<1>1. /\ Described /\ PostType(post) /\ VMax \in 1 .. 4 /\ cinfo.total \in Nat
      /\ output_scanline \in Nat /\ Height \in Nat /\ Saved \subseteq Nat /\ 0 .. Height - 1 \subseteq Saved
  BY InvTypes, InvPost
<1>2. /\ Passing /\ post.mode = "prepass" /\ output_scanline < Height
      /\ post.start + post.next = output_scanline /\ (post.next # 0 => post.strip = post.start)
      /\ \A i \in Saved : i < output_scanline => post.whole[i] = Ideal(i)
  BY DEF RowsInv, Strips, Counted, Passing
<1>3. post.start \in Nat /\ post.next \in 0 .. VMax - 1 /\ post.start \in Saved
  <2>1. post.start \in Nat /\ post.next \in 0 .. VMax - 1
    BY <1>1 DEF PostType
  <2>2. post.start \in 0 .. Height - 1
    BY <1>1, <1>2, <2>1
  <2>3. QED
    BY <1>1, <2>1, <2>2
<1>4. /\ PostType(po) /\ po.mode = post.mode /\ po.whole = post.whole
      /\ po.start = post.start /\ po.next = post.next /\ po.strip = post.start
  BY <1>1, <1>2, <1>3, RepositionStep
<1> HIDE DEF po
<1>5. StripHeight - po.next \in Nat \ {0} /\ StripHeight - po.next = VMax - post.next
  BY <1>1, <1>3, <1>4 DEF StripHeight
<1>6. Answers(u, Loaded, Decoded, output_scanline, StripHeight - po.next) /\ Decoded \in 1 .. cinfo.total
  BY <1>2, <1>5, Taken
<1>7. r.seen = u.rows /\ r.up = u.up /\ r.ctr = u.ctr /\ r.post = Advance(sv, n)
  <2>1. r = PrePass(Loaded)
    BY <1>2 DEF PostProcess
  <2>2. QED
    BY <2>1 DEF PrePass, po
<1> HIDE DEF r, u
<1>8. u.rows \in Seq(RowSet) /\ n \in 1 .. VMax /\ n <= VMax - post.next /\ line <= Height
      /\ (\A i \in 1 .. n : u.rows[i] = Ideal(output_scanline + i - 1))
      /\ UpType(u.up) /\ MainType(Drained(Loaded, u.ctr))
      /\ InStep(u.up, Drained(Loaded, u.ctr), Decoded, line)
  BY <1>5, <1>6 DEF Answers
<1> HIDE DEF n
<1>9. po.strip + po.next = output_scanline
  BY <1>2, <1>4
<1>10. /\ PostType(sv) /\ sv.mode = "prepass" /\ sv.start = post.start /\ sv.next = post.next
       /\ sv.strip = post.start
       /\ \A i \in Saved : sv.whole[i] = IF i \in output_scanline .. output_scanline + Len(u.rows) - 1
                                         THEN u.rows[i - output_scanline + 1] ELSE post.whole[i]
  <2>1. po.strip + po.next \in Int
    BY <1>1, <1>9
  <2>2. LET a == Save(po, po.strip + po.next, u.rows)
        IN  /\ PostType(a) /\ a.mode = po.mode /\ a.strip = po.strip
            /\ a.start = po.start /\ a.next = po.next
            /\ \A i \in Saved : a.whole[i] = IF i \in po.strip + po.next .. po.strip + po.next + Len(u.rows) - 1
                                             THEN u.rows[i - (po.strip + po.next) + 1] ELSE po.whole[i]
    BY <1>4, <1>8, <2>1, SaveStep
  <2> HIDE DEF sv
  <2>3. QED
    BY <1>2, <1>4, <1>9, <2>2 DEF sv
<1> HIDE DEF sv
<1>11. ASSUME NEW i \in Saved, i < line PROVE sv.whole[i] = Ideal(i)
  <2>1. i \in Nat /\ n = Len(u.rows) /\ n \in Nat
    BY <1>1, <1>8 DEF n
  <2>2. CASE i < output_scanline
    <3>1. i \notin output_scanline .. output_scanline + Len(u.rows) - 1
      BY <1>1, <2>1, <2>2
    <3>2. QED
      BY <1>2, <1>10, <2>2, <3>1
  <2>3. CASE ~(i < output_scanline)
    <3> DEFINE j == i - output_scanline + 1
    <3>1. i \in output_scanline .. output_scanline + Len(u.rows) - 1
      BY <1>1, <1>11, <2>1, <2>3
    <3>2. j \in 1 .. n /\ output_scanline + j - 1 = i
      BY <1>1, <1>11, <2>1, <2>3
    <3>3. u.rows[j] = Ideal(output_scanline + j - 1)
      BY <1>8, <3>2
    <3>4. QED
      BY <1>10, <3>1, <3>2, <3>3
  <2>4. QED
    BY <2>2, <2>3
<1>12. /\ PostType(r.post) /\ r.post.mode = "prepass" /\ r.post.whole = sv.whole
       /\ r.post.start + r.post.next = line
       /\ r.post.next # 0 => r.post.strip = r.post.start
  <2>1. n \in Nat /\ sv.next + n <= VMax
    BY <1>1, <1>3, <1>8, <1>10
  <2>2. LET a == Advance(sv, n)
        IN  /\ PostType(a) /\ a.mode = sv.mode /\ a.whole = sv.whole /\ a.strip = sv.strip
            /\ a.start + a.next = sv.start + sv.next + n
            /\ a.next # 0 => a.start = sv.start
    BY <1>10, <2>1, AdvanceStep
  <2>3. sv.start + sv.next + n = line
    BY <1>2, <1>10
  <2>4. QED
    BY <1>7, <1>10, <2>2, <2>3
<1>13. n \in Nat \ {0} /\ Decoded \in 0 .. cinfo.total
  BY <1>1, <1>6, <1>8
<1>14. QED
  BY <1>7, <1>8, <1>11, <1>12, <1>13 DEF r, n

-----------------------------------------------------------------------------
(* The invariant is inductive *)

\* The picture in hand and its dimensions stay.
LEMMA Unmoved ==
  ASSUME RowsInv, UNCHANGED <<pic, req, cinfo>>
  PROVE  /\ M' = M /\ Height' = Height /\ VMax' = VMax /\ Needed' = Needed /\ Saved' = Saved
         /\ TwoPass' = TwoPass /\ StripHeight' = StripHeight /\ RowSet' = RowSet /\ Stored' = Stored
         /\ Described'
         /\ \A r : Ideal(r)' = Ideal(r)
<1>1. /\ M' = M /\ Height' = Height /\ VMax' = VMax /\ Needed' = Needed /\ Saved' = Saved
      /\ TwoPass' = TwoPass
  BY DEF M, Height, VMax, Needed, Saved, TwoPass
<1>2. StripHeight' = StripHeight /\ RowSet' = RowSet /\ Stored' = Stored
  BY <1>1 DEF StripHeight, RowSet, Stored, NoRow
<1>3. \A c : PlaneRows(c)' = PlaneRows(c)
  BY DEF PlaneRows
<1>4. \A r : Ideal(r)' = Ideal(r)
  BY <1>1, <1>3 DEF Ideal
<1>5. Described'
  <2>1. Described
    BY DEF RowsInv
  <2>2. \E job \in Jobs : pic' = job.pic /\ req' = job.req
    BY <2>1 DEF Described
  <2>3. cinfo' = Dimensions(pic', req') /\ \A c \in Needed' : CanUpsample(pic', req', c)
    BY <1>1, <2>1 DEF Described
  <2>4. QED
    BY <2>2, <2>3 DEF Described
<1>6. QED
  BY <1>1, <1>2, <1>4, <1>5

LEMMA InStepMoves ==
  ASSUME RowsInv, UNCHANGED <<pic, req, cinfo>>,
         InStep(upsample', main', output_iMCU_row', output_scanline')
  PROVE  InStep(upsample, main, output_iMCU_row, output_scanline)'
<1>1. /\ M' = M /\ Height' = Height /\ VMax' = VMax /\ Needed' = Needed
  BY Unmoved
<1>2. \A c : PlaneRows(c)' = PlaneRows(c)
  BY DEF PlaneRows
<1>3. Given(upsample)' = Given(upsample')
  BY <1>1 DEF Given
<1>4. Group(main, output_iMCU_row)' = Group(main', output_iMCU_row')
  BY <1>1 DEF Group
<1>5. main'.full => Holds(main'.buffer, output_iMCU_row' - 1) /\ output_iMCU_row' > 0
  BY DEF InStep
<1>6. main'.full => Holds(main.buffer, output_iMCU_row - 1)'
  BY <1>1, <1>2, <1>5 DEF Holds
<1>7. MergedRow(main.buffer, main.ctr, 1)' = MergedRow(main'.buffer, main'.ctr, 1)
  BY <1>1 DEF MergedRow
<1>8. [c \in Needed |-> Upsampled(c, main.ctr, main.buffer)]'
        = [c \in Needed |-> Upsampled(c, main'.ctr, main'.buffer)]
  BY <1>1 DEF Upsampled
<1>9. QED
  BY <1>1, <1>3, <1>4, <1>5, <1>6, <1>7, <1>8 DEF InStep

LEMMA FreshInStep ==
  ASSUME Described, NEW m, MainType(m), ~m.full, m.ctr = 0
  PROVE  UpType(FreshUpsampler) /\ InStep(FreshUpsampler, m, 0, 0)
<1>1. VMax \in 1 .. 4 /\ M \in 1 .. 16 /\ Height \in Nat
  BY DescribedGeometry DEF Geometry
<1> DEFINE up == FreshUpsampler
<1>2. up = [next |-> VMax, toGo |-> Height, color |-> [c \in Needed |-> [at |-> Null]], spare |-> NoRow]
  BY DEF FreshUpsampler
<1>3. up.next = VMax /\ up.toGo = Height /\ up.spare = NoRow
  BY <1>2
<1>4. up = [next |-> up.next, toGo |-> up.toGo, color |-> up.color, spare |-> up.spare]
  BY <1>2
<1> HIDE DEF up
<1>5. UpType(up)
  BY <1>1, <1>3, <1>4 DEF UpType
<1>6. Given(up) = 0
  BY <1>3 DEF Given
<1>7. Group(m, 0) = 0
  BY <1>1 DEF Group
<1>8. 0 = Group(m, 0) * VMax + Given(up) /\ Height = Height - 0 /\ ~(up.next < VMax)
  BY <1>1, <1>3, <1>6, <1>7
<1>9. InStep(up, m, 0, 0)
  BY <1>3, <1>6, <1>8 DEF InStep
<1>10. QED
  BY <1>5, <1>9 DEF up

\* prepare_for_output_pass
LEMMA PrepareStep ==
  ASSUME RowsInv, UNCHANGED <<pic, req, cinfo>>, passes < MaxPasses,
         NEW two \in BOOLEAN, NEW kept \in BOOLEAN, Prepare(two, kept)
  PROVE  RowsInv'
<1> DEFINE select == req.quant # "none" /\ ~kept
           dummy == select /\ two /\ TwoPass
           mode == IF dummy THEN "prepass" ELSE IF req.quant = "none" THEN "upsample" ELSE "1pass"
           strip == IF ~dummy /\ post.strip = Null THEN 0 ELSE post.strip
           full == FALSE
<1>1. /\ Described /\ MainType(main) /\ PostType(post) /\ VMax \in 1 .. 4 /\ M \in 1 .. 16
      /\ cinfo.total \in Nat /\ Height \in Nat \ {0} /\ Saved \subseteq Nat /\ 0 .. Height - 1 \subseteq Saved
  BY InvTypes, InvPost
<1>2. /\ M' = M /\ Height' = Height /\ VMax' = VMax /\ Needed' = Needed /\ Saved' = Saved
      /\ TwoPass' = TwoPass /\ StripHeight' = StripHeight /\ RowSet' = RowSet /\ Stored' = Stored
      /\ Described' /\ \A r : Ideal(r)' = Ideal(r)
  BY Unmoved
<1>3. /\ dummy \in BOOLEAN /\ mode \in {"prepass", "upsample", "1pass"}
      /\ mode = "prepass" <=> dummy
      /\ dummy => TwoPass /\ req.quant # "none"
  OBVIOUS
<1>4. strip \in Int /\ strip \in {Null} \cup Saved
  BY <1>1 DEF PostType
<1>5. req.raw \in BOOLEAN /\ (req.raw => ~dummy)
  <2>1. PICK job \in Jobs : req = job.req
    BY <1>1 DEF Described
  <2>2. QED
    BY <1>3, <2>1, OutputAssumption
<1>6. /\ master' = [dummy     |-> dummy,
                    cquantize |-> IF dummy THEN "2pass" ELSE IF select THEN "1pass" ELSE master.cquantize,
                    colormap  |-> req.quant # "none" /\ ~dummy]
      /\ post' = [post EXCEPT !.mode = mode, !.start = 0, !.next = 0, !.strip = strip]
      /\ main' = [main EXCEPT !.full = FALSE, !.ctr = 0]
      /\ upsample' = FreshUpsampler
      /\ output_iMCU_row' = 0 /\ output_scanline' = 0
      /\ scanned' = Histogram(dummy)
      /\ delivered' = <<>>
      /\ passes' = passes + 1
      /\ global_state' = (IF dummy THEN "PRESCAN" ELSE IF req.raw THEN "RAW_OK" ELSE "SCANNING")
      /\ suspended' = FALSE
  BY DEF Prepare
<1> HIDE DEF strip, mode
<1>7. /\ post' \in [mode : {"upsample", "1pass", "prepass", "2pass"}, start : Nat, next : Nat,
                    strip : Int, whole : [Saved -> Stored]]
      /\ post'.mode = mode /\ post'.start = 0 /\ post'.next = 0 /\ post'.strip = strip
  <2> DEFINE RS == [mode : {"upsample", "1pass", "prepass", "2pass"}, start : Nat, next : Nat,
                    strip : Int, whole : [Saved -> Stored]]
             a == [post EXCEPT !.mode = mode]
             b == [a EXCEPT !.start = 0]
             c == [b EXCEPT !.next = 0]
             d == [c EXCEPT !.strip = strip]
  <2>1. post \in RS
    BY <1>1 DEF PostType
  <2>2. a \in RS /\ a.mode = mode
    BY <1>3, <2>1
  <2>3. b \in RS /\ b.mode = a.mode /\ b.start = 0
    <3> HIDE DEF a
    <3>1. QED
      BY <2>2
  <2>4. c \in RS /\ c.mode = b.mode /\ c.start = b.start /\ c.next = 0
    <3> HIDE DEF b
    <3>1. QED
      BY <2>3
  <2>5. d \in RS /\ d.mode = c.mode /\ d.start = c.start /\ d.next = c.next /\ d.strip = strip
    <3> HIDE DEF c
    <3>1. QED
      BY <1>4, <2>4
  <2>6. post' = d
    BY <1>6, <2>1
  <2> HIDE DEF a, b, c, d
  <2>7. QED
    BY <2>2, <2>3, <2>4, <2>5, <2>6
<1>8. main' = [buffer |-> main.buffer, full |-> FALSE, ctr |-> 0]
  <2> DEFINE no == FALSE
             b == main.buffer
             t == [buffer |-> b, full |-> no, ctr |-> main.ctr]
  <2> HIDE DEF no
  <2>1. main = [buffer |-> main.buffer, full |-> main.full, ctr |-> main.ctr]
    BY <1>1 DEF MainType
  <2>2. [main EXCEPT !.full = no] = t
    BY <2>1
  <2>3. [t EXCEPT !.ctr = 0] = [buffer |-> b, full |-> no, ctr |-> 0]
    OBVIOUS
  <2>4. [main EXCEPT !.full = no, !.ctr = 0] = [[main EXCEPT !.full = no] EXCEPT !.ctr = 0]
    BY <2>1
  <2> HIDE DEF t
  <2>5. QED
    BY <1>6, <2>2, <2>3, <2>4 DEF no
<1>9. main'.full = FALSE /\ main'.ctr = 0 /\ MainType(main')
  <2>1. main'.full = FALSE /\ main'.ctr = 0 /\ main'.buffer = main.buffer
    BY <1>8
  <2>2. 0 \in 0 .. M - 1
    BY <1>1
  <2>3. QED
    BY <1>8, <2>1, <2>2, Zenon DEF MainType
<1>10. UpType(upsample') /\ InStep(upsample', main', output_iMCU_row', output_scanline')
  BY <1>1, <1>6, <1>9, FreshInStep
<1>11. Types'
  <2>1. master' \in [dummy : BOOLEAN, cquantize : {"none", "1pass", "2pass"}, colormap : BOOLEAN]
    <3>1. master.cquantize \in {"none", "1pass", "2pass"}
      BY DEF RowsInv, Types
    <3> DEFINE q == IF dummy THEN "2pass" ELSE IF select THEN "1pass" ELSE master.cquantize
               map == req.quant # "none" /\ ~dummy
    <3>2. q \in {"none", "1pass", "2pass"} /\ map \in BOOLEAN /\ dummy \in BOOLEAN
      BY <3>1
    <3>3. master' = [dummy |-> dummy, cquantize |-> q, colormap |-> map]
      BY <1>6
    <3> HIDE DEF q, map, dummy
    <3>4. QED
      BY <3>2, <3>3
  <2>2. passes' \in 0 .. MaxPasses
    <3>1. passes \in 0 .. MaxPasses /\ MaxPasses \in Nat
      BY OutputAssumption DEF RowsInv, Types, TypeOK
    <3>2. QED
      BY <1>6, <3>1
  <2>3. TypeOK'
    <3>1. global_state' \in {"READY", "BUFIMAGE", "PRESCAN", "SCANNING", "RAW_OK", "STOPPING"}
      BY <1>6
    <3>2. main'.full \in BOOLEAN /\ main'.ctr \in 0 .. M - 1
      BY <1>9 DEF MainType
    <3>3. upsample'.next \in 0 .. VMax /\ upsample'.toGo \in 0 .. Height
      BY <1>10 DEF UpType
    <3>4. post'.next \in 0 .. VMax - 1 /\ post'.strip \in {Null} \cup Saved
      BY <1>1, <1>4, <1>7
    <3>5. output_scanline' \in Nat /\ suspended' \in BOOLEAN
      BY <1>6
    <3>6. master'.dummy \in BOOLEAN /\ master'.cquantize \in {"none", "1pass", "2pass"}
      BY <2>1
    <3>7. QED
      BY <1>2, <2>2, <3>1, <3>2, <3>3, <3>4, <3>5, <3>6 DEF TypeOK, StripHeight
  <2>4. output_iMCU_row' \in 0 .. cinfo.total
    BY <1>1, <1>6
  <2>5. QED
    BY <1>2, <1>7, <1>9, <1>10, <2>1, <2>3, <2>4 DEF Types, MainType, UpType
<1>12. Flowing'
  BY <1>10, InStepMoves DEF Flowing
<1>13. Strips'
  <2>1. global_state' = "PRESCAN" => dummy
    BY <1>6
  <2>2. dummy => scanned' = [r \in Saved |-> 0]
    BY <1>6 DEF Histogram
  <2>3. \A r \in Saved : ~(r < 0)
    BY <1>1
  <2>4. post'.start + post'.next = output_scanline' /\ output_scanline' = 0
    BY <1>6, <1>7
  <2>5. post'.mode \in {"prepass", "2pass"} => TwoPass
    BY <1>3, <1>7
  <2>6. QED
    BY <1>2, <1>7, <2>1, <2>2, <2>3, <2>4, <2>5 DEF Strips
<1>14. Quantized'
  BY <1>3, <1>7 DEF Quantized
<1>15. Counted'
  <2>1. /\ global_state' # "READY"
        /\ global_state' = "PRESCAN" => dummy
        /\ global_state' = "SCANNING" => ~dummy /\ ~req.raw
        /\ global_state' = "RAW_OK" => req.raw
    BY <1>6
  <2>2. delivered' = <<>> /\ output_scanline' = 0 /\ output_iMCU_row' = 0 /\ Len(delivered') = 0
    BY <1>6
  <2>3. 0 < Height /\ 0 <= Height /\ 0 < Height + VMax * M /\ 0 = 0 * VMax * M
    <3>1. VMax * M \in Nat
      BY <1>1
    <3>2. QED
      BY <1>1, <3>1
  <2>4. EndsAtTheBottom'
    BY <1>2, <2>2, <2>3 DEF EndsAtTheBottom
  <2>5. delivered' \in Seq(Nat) /\ delivered' \in Seq(RowSet)
    BY <2>2, EmptySeq
  <2>6. \A i : i \notin 1 .. 0
    OBVIOUS
  <2>7. req' = req
    OBVIOUS
  <2>8. QED
    BY <1>2, <1>3, <1>5, <1>7, <2>1, <2>2, <2>3, <2>4, <2>5, <2>6, <2>7 DEF Counted
<1>16. QED
  BY <1>2, <1>11, <1>12, <1>13, <1>14, <1>15 DEF RowsInv

LEMMA InitInv ==
  ASSUME Init
  PROVE  RowsInv
<1>1. Described
  BY DEF Init, Described
<1>2. /\ VMax \in 1 .. 4 /\ M \in 1 .. 16 /\ cinfo.total \in Nat /\ Height \in Nat \ {0}
      /\ Saved \subseteq Nat /\ 0 .. Height - 1 \subseteq Saved
  BY <1>1, DescribedGeometry DEF Geometry
<1>3. /\ global_state = "READY"
      /\ master = [dummy |-> FALSE, cquantize |-> "none", colormap |-> FALSE]
      /\ main = [buffer |-> [c \in Needed |-> [j \in 0 .. PlaneRows(c) - 1 |-> Stale]], full |-> FALSE, ctr |-> 0]
      /\ upsample = FreshUpsampler
      /\ post = [mode |-> "upsample", start |-> 0, next |-> 0, strip |-> Null, whole |-> [r \in Saved |-> NoRow]]
      /\ output_iMCU_row = 0 /\ output_scanline = 0 /\ delivered = <<>> /\ passes = 0 /\ suspended = FALSE
  BY DEF Init
<1>4. MainType(main) /\ ~main.full /\ main.ctr = 0
  <2> DEFINE b == [c \in Needed |-> [j \in 0 .. PlaneRows(c) - 1 |-> Stale]]
  <2> HIDE DEF b
  <2>1. main = [buffer |-> b, full |-> FALSE, ctr |-> 0]
    BY <1>3 DEF b
  <2>2. main.buffer = b /\ main.full = FALSE /\ main.ctr = 0
    BY <2>1
  <2>3. 0 \in 0 .. M - 1
    BY <1>2
  <2>4. MainType(main)
    BY <2>1, <2>2, <2>3, Zenon DEF MainType
  <2>5. QED
    BY <2>2, <2>4
<1>5. UpType(upsample)
  BY <1>1, <1>3, <1>4, FreshInStep
<1>6. /\ post \in [mode : {"upsample", "1pass", "prepass", "2pass"}, start : Nat, next : Nat,
                   strip : Int, whole : [Saved -> Stored]]
      /\ post.mode = "upsample" /\ post.next = 0 /\ post.strip = Null
  <2>1. [r \in Saved |-> NoRow] \in [Saved -> Stored]
    BY DEF Stored
  <2>2. QED
    BY <1>3, <2>1 DEF Null
<1>7. Types
  <2>1. /\ master \in [dummy : BOOLEAN, cquantize : {"none", "1pass", "2pass"}, colormap : BOOLEAN]
        /\ master.dummy \in BOOLEAN /\ master.cquantize \in {"none", "1pass", "2pass"}
    BY <1>3
  <2>2. /\ main.full \in BOOLEAN /\ main.ctr \in 0 .. M - 1
    BY <1>4 DEF MainType
  <2>3. upsample.next \in 0 .. VMax /\ upsample.toGo \in 0 .. Height
    BY <1>5 DEF UpType
  <2>4. 0 \in 0 .. VMax - 1 /\ 0 \in 0 .. MaxPasses /\ 0 \in 0 .. cinfo.total
    BY <1>2, OutputAssumption
  <2>5. TypeOK
    BY <1>3, <1>6, <2>1, <2>2, <2>3, <2>4 DEF TypeOK, StripHeight
  <2>6. QED
    BY <1>3, <1>4, <1>5, <1>6, <2>1, <2>4, <2>5 DEF Types, MainType, UpType
<1>8. Flowing
  BY <1>3 DEF Flowing, Passing
<1>9. Strips
  BY <1>3, <1>6 DEF Strips, Passing
<1>10. Quantized
  BY <1>6 DEF Quantized
<1>11. Counted
  <2>1. 0 <= Height /\ 0 < Height + VMax * M
    <3>1. VMax * M \in Nat
      BY <1>2
    <3>2. QED
      BY <1>2, <3>1
  <2>2. EndsAtTheBottom
    BY <1>3, <2>1 DEF EndsAtTheBottom
  <2>3. delivered \in Seq(Nat) /\ delivered \in Seq(RowSet) /\ Len(delivered) = 0
    BY <1>3, EmptySeq
  <2>4. \A i : i \notin 1 .. 0
    OBVIOUS
  <2>5. QED
    BY <1>3, <1>6, <2>1, <2>2, <2>3, <2>4 DEF Counted
<1>12. QED
  BY <1>1, <1>7, <1>8, <1>9, <1>10, <1>11 DEF RowsInv

\* Steps that only change global_state, and suspended.
LEMMA IdleStep ==
  ASSUME RowsInv,
         UNCHANGED <<pic, req, cinfo, master, main, upsample, post, output_iMCU_row, output_scanline,
                     scanned, delivered, passes>>,
         suspended' \in BOOLEAN,
         global_state' = global_state \/ global_state' \in {"BUFIMAGE", "STOPPING"}
  PROVE  RowsInv'
<1>1. /\ M' = M /\ Height' = Height /\ VMax' = VMax /\ Needed' = Needed /\ Saved' = Saved
      /\ TwoPass' = TwoPass /\ StripHeight' = StripHeight /\ RowSet' = RowSet /\ Stored' = Stored
      /\ Described' /\ \A r : Ideal(r)' = Ideal(r)
  BY Unmoved
<1>2. Types'
  BY <1>1 DEF RowsInv, Types, TypeOK
<1>3. Flowing'
  <2>1. SUFFICES ASSUME Passing', post'.mode # "2pass"
                 PROVE  InStep(upsample, main, output_iMCU_row, output_scanline)'
    BY DEF Flowing
  <2>2. global_state' = global_state /\ Passing
    BY <2>1 DEF Passing
  <2>3. InStep(upsample, main, output_iMCU_row, output_scanline)
    BY <2>1, <2>2 DEF RowsInv, Flowing
  <2>4. QED
    BY <2>3, InStepMoves
<1>4. Strips'
  <2>1. Passing' => Passing
    BY DEF Passing
  <2>2. global_state' = "PRESCAN" => global_state = "PRESCAN"
    OBVIOUS
  <2>3. QED
    BY <1>1, <2>1, <2>2 DEF RowsInv, Strips
<1>5. Quantized'
  BY <1>1 DEF RowsInv, Quantized
<1>6. Counted'
  <2>1. global_state' \in {"READY", "PRESCAN", "SCANNING", "RAW_OK"} => global_state' = global_state
    OBVIOUS
  <2>2. EndsAtTheBottom'
    BY <1>1 DEF RowsInv, Counted, EndsAtTheBottom
  <2>3. QED
    BY <1>1, <2>1, <2>2 DEF RowsInv, Counted
<1>7. QED
  BY <1>1, <1>2, <1>3, <1>4, <1>5, <1>6 DEF RowsInv

\* jpeg_read_raw_data
LEMMA RawStep ==
  ASSUME RowsInv, ReadRawData
  PROVE  RowsInv'
<1>1. /\ Described /\ cinfo.total \in Nat /\ M \in 1 .. 16 /\ VMax \in 1 .. 4 /\ Height \in Nat \ {0}
      /\ output_iMCU_row \in 0 .. cinfo.total
      /\ \A k \in Nat : k < cinfo.total <=> k * M * VMax < Height
  BY InvTypes, DescribedGeometry DEF Geometry
<1>2. /\ M' = M /\ Height' = Height /\ VMax' = VMax /\ Needed' = Needed /\ Saved' = Saved
      /\ TwoPass' = TwoPass /\ StripHeight' = StripHeight /\ RowSet' = RowSet /\ Stored' = Stored
      /\ Described' /\ \A r : Ideal(r)' = Ideal(r)
  BY Unmoved DEF ReadRawData
<1>3. /\ global_state = "RAW_OK" /\ output_scanline < Height
      /\ output_scanline' = output_scanline + VMax * M
      /\ delivered' = Append(delivered, output_iMCU_row)
      /\ output_iMCU_row' = output_iMCU_row + 1
      /\ suspended' = FALSE
      /\ UNCHANGED <<pic, req, cinfo, global_state, master, main, upsample, post, scanned, passes>>
  BY DEF ReadRawData
<1>4. /\ req.raw /\ Len(delivered) = output_iMCU_row /\ output_scanline = output_iMCU_row * VMax * M
      /\ delivered \in Seq(Nat) /\ \A i \in 1 .. Len(delivered) : delivered[i] = i - 1
  BY <1>3 DEF RowsInv, Counted
<1> DEFINE k == output_iMCU_row
<1>5. k \in Nat /\ k < cinfo.total
  <2>1. k * VMax * M = k * M * VMax
    BY <1>1
  <2>2. QED
    BY <1>1, <1>3, <1>4, <2>1
<1>6. output_scanline' = (k + 1) * VMax * M /\ output_scanline' < Height + VMax * M /\ output_scanline' \in Nat
  <2> DEFINE x == VMax * M
  <2>1. x \in Nat /\ k * VMax * M = k * x /\ (k + 1) * VMax * M = (k + 1) * x
    BY <1>1, <1>5
  <2>2. output_scanline \in Nat
    BY InvTypes
  <2>3. output_scanline' = output_scanline + x
    BY <1>3
  <2>4. output_scanline = k * x
    BY <1>4, <2>1
  <2> HIDE DEF x
  <2>5. output_scanline' = (k + 1) * x /\ output_scanline' < Height + x /\ output_scanline' \in Nat
    BY <1>1, <1>3, <1>5, <2>1, <2>2, <2>3, <2>4
  <2>6. QED
    BY <2>1, <2>5 DEF x
<1>7. /\ delivered' \in Seq(Nat) /\ Len(delivered') = k + 1
      /\ \A i \in 1 .. Len(delivered') : delivered'[i] = i - 1
  BY <1>3, <1>4, <1>5, AppendProperties
<1>8. Types'
  <2>1. output_iMCU_row' \in 0 .. cinfo.total
    BY <1>1, <1>3, <1>5
  <2>2. TypeOK'
    BY <1>2, <1>3, <1>6 DEF RowsInv, Types, TypeOK
  <2>3. QED
    BY <1>2, <1>3, <2>1, <2>2 DEF RowsInv, Types
<1>9. Flowing' /\ Strips'
  <2>1. ~Passing' /\ global_state' # "PRESCAN"
    BY <1>3 DEF Passing
  <2>2. QED
    BY <1>2, <1>3, <2>1 DEF RowsInv, Flowing, Strips
<1>10. Quantized'
  <2>1. post.mode # "2pass"
    <3>1. SUFFICES ASSUME post.mode = "2pass" PROVE FALSE
      OBVIOUS
    <3>2. output_iMCU_row = cinfo.total
      BY <3>1 DEF RowsInv, Quantized
    <3>3. QED
      BY <1>1, <1>5, <3>2
  <2>2. QED
    BY <1>3, <2>1 DEF Quantized
<1>11. Counted'
  <2>1. EndsAtTheBottom'
    BY <1>2, <1>3, <1>4, <1>6 DEF EndsAtTheBottom
  <2>2. QED
    BY <1>2, <1>3, <1>4, <1>6, <1>7, <2>1 DEF Counted
<1>12. QED
  BY <1>2, <1>8, <1>9, <1>10, <1>11 DEF RowsInv

\* jpeg_read_scanlines
LEMMA ReadStep ==
  ASSUME ShortStrips, RowsInv, NEW lines \in 1 .. MaxLines, ReadScanlines(lines)
  PROVE  RowsInv' /\ output_scanline' > output_scanline
<1> DEFINE r == PostProcess(Loaded, lines)
           n == Len(r.out)
<1>1. /\ Described /\ cinfo.total \in Nat /\ M \in 1 .. 16 /\ VMax \in 1 .. 4 /\ Height \in Nat \ {0}
      /\ output_scanline \in Nat
  BY InvTypes
<1>2. /\ M' = M /\ Height' = Height /\ VMax' = VMax /\ Needed' = Needed /\ Saved' = Saved
      /\ TwoPass' = TwoPass /\ StripHeight' = StripHeight /\ RowSet' = RowSet /\ Stored' = Stored
      /\ Described' /\ \A i : Ideal(i)' = Ideal(i)
  BY Unmoved DEF ReadScanlines
<1>3. /\ global_state = "SCANNING" /\ output_scanline < Height /\ Passing
      /\ ~req.raw /\ post.mode # "prepass" /\ Len(delivered) = output_scanline
      /\ delivered \in Seq(RowSet) /\ \A i \in 1 .. Len(delivered) : delivered[i] = Ideal(i - 1)
  BY DEF ReadScanlines, Passing, RowsInv, Counted
<1>4. Shows(r, output_scanline)
  <2>1. lines \in Nat \ {0}
    BY OutputAssumption
  <2>2. post.mode \in {"upsample", "1pass", "2pass"}
    BY <1>3 DEF RowsInv, Types
  <2>3. CASE post.mode = "2pass"
    BY <1>3, <2>1, <2>3, SecondPassStep
  <2>4. CASE post.mode \in {"upsample", "1pass"}
    BY <1>3, <2>1, <2>4, ThroughStep
  <2>5. QED
    BY <2>2, <2>3, <2>4
<1>5. /\ upsample' = r.up /\ main' = Drained(Loaded, r.ctr) /\ output_iMCU_row' = Decoded
      /\ post' = r.post /\ output_scanline' = output_scanline + n /\ delivered' = delivered \o r.out
      /\ suspended' = FALSE
      /\ UNCHANGED <<pic, req, cinfo, global_state, master, scanned, passes>>
  BY DEF ReadScanlines, Processed, Decoded
<1> HIDE DEF r
<1>6. /\ r.out \in Seq(RowSet) /\ n >= 1 /\ n \in Nat /\ output_scanline + n <= Height
      /\ \A i \in 1 .. n : r.out[i] = Ideal(output_scanline + i - 1)
  BY <1>4 DEF Shows
<1>7. /\ UpType(upsample') /\ MainType(main') /\ output_iMCU_row' \in 0 .. cinfo.total
      /\ PostType(post') /\ post'.mode = post.mode
  BY <1>4, <1>5 DEF Shows
<1>8. /\ post.mode # "2pass" => InStep(upsample', main', output_iMCU_row', output_scanline')
      /\ post.mode = "2pass" =>
           /\ post'.start + post'.next = output_scanline'
           /\ post'.next # 0 => post'.strip = post'.start
           /\ post'.whole = post.whole /\ output_iMCU_row' = output_iMCU_row
  BY <1>4, <1>5 DEF Shows
<1> HIDE DEF n
<1>9. output_scanline' \in Nat /\ output_scanline' <= Height /\ output_scanline' > output_scanline
  BY <1>1, <1>5, <1>6
<1>10. /\ delivered' \in Seq(RowSet) /\ Len(delivered') = output_scanline'
       /\ \A i \in 1 .. Len(delivered') : delivered'[i] = Ideal(i - 1)
  <2>1. delivered' \in Seq(RowSet) /\ Len(delivered') = output_scanline + n
    BY <1>3, <1>5, <1>6, ConcatProperties DEF n
  <2>2. ASSUME NEW i \in 1 .. output_scanline + n PROVE delivered'[i] = Ideal(i - 1)
    <3>1. CASE i <= output_scanline
      <4>1. i \in 1 .. output_scanline
        BY <1>1, <3>1
      <4>2. delivered'[i] = delivered[i]
        BY <1>3, <1>5, <1>6, <4>1, ConcatProperties DEF n
      <4>3. QED
        BY <1>3, <4>1, <4>2
    <3>2. CASE ~(i <= output_scanline)
      <4> DEFINE j == i - output_scanline
      <4>1. j \in 1 .. n /\ output_scanline + j - 1 = i - 1
        BY <1>1, <1>6, <3>2
      <4>2. delivered'[i] = r.out[j]
        BY <1>1, <1>3, <1>5, <1>6, <3>2, ConcatProperties DEF n
      <4>3. QED
        BY <1>6, <4>1, <4>2
    <3>3. QED
      BY <3>1, <3>2
  <2>3. QED
    BY <1>5, <2>1, <2>2
<1>11. Types'
  <2>1. main'.full \in BOOLEAN /\ main'.ctr \in 0 .. M - 1
    BY <1>7 DEF MainType
  <2>2. upsample'.next \in 0 .. VMax /\ upsample'.toGo \in 0 .. Height
    BY <1>7 DEF UpType
  <2>3. post'.next \in 0 .. VMax - 1 /\ post'.strip \in {Null} \cup Saved
    BY <1>7 DEF PostType
  <2>4. TypeOK'
    BY <1>2, <1>5, <1>9, <2>1, <2>2, <2>3 DEF RowsInv, Types, TypeOK, StripHeight
  <2>5. QED
    BY <1>2, <1>5, <1>7, <2>4 DEF RowsInv, Types, MainType, UpType, PostType
<1>12. Flowing'
  BY <1>5, <1>7, <1>8, InStepMoves DEF Flowing
<1>13. Strips'
  <2>1. post'.mode \in {"prepass", "2pass"} => post.mode = "2pass" /\ TwoPass
    BY <1>3, <1>7 DEF RowsInv, Strips
  <2>2. global_state' # "PRESCAN"
    BY <1>3, <1>5
  <2>3. QED
    BY <1>2, <1>8, <2>1, <2>2 DEF Strips
<1>14. Quantized'
  <2>1. SUFFICES ASSUME post.mode = "2pass" PROVE Quantized'
    BY <1>7 DEF Quantized
  <2>2. QED
    BY <1>2, <1>5, <1>7, <1>8, <2>1 DEF RowsInv, Quantized
<1>15. Counted'
  <2>1. EndsAtTheBottom'
    BY <1>2, <1>3, <1>5, <1>9 DEF EndsAtTheBottom
  <2>2. QED
    BY <1>2, <1>3, <1>5, <1>7, <1>9, <1>10, <2>1 DEF Counted
<1>16. QED
  BY <1>2, <1>9, <1>11, <1>12, <1>13, <1>14, <1>15 DEF RowsInv

\* A turn of output_pass_setup's loop.
LEMMA CrankStep ==
  ASSUME RowsInv, CrankDummyPass
  PROVE  RowsInv' /\ (global_state' = global_state => output_scanline' > output_scanline)
<1> DEFINE r == PostProcess(Loaded, 0)
           n == Len(r.seen)
           line == output_scanline + n
           seen == [i \in Saved |-> IF i \in output_scanline .. line - 1 THEN scanned[i] + 1 ELSE scanned[i]]
<1>1. /\ Described /\ cinfo.total \in Nat /\ M \in 1 .. 16 /\ VMax \in 1 .. 4 /\ Height \in Nat \ {0}
      /\ output_scanline \in Nat /\ Saved \subseteq Nat
  BY InvTypes
<1>2. /\ M' = M /\ Height' = Height /\ VMax' = VMax /\ Needed' = Needed /\ Saved' = Saved
      /\ TwoPass' = TwoPass /\ StripHeight' = StripHeight /\ RowSet' = RowSet /\ Stored' = Stored
      /\ Described' /\ \A i : Ideal(i)' = Ideal(i)
  BY Unmoved DEF CrankDummyPass
<1>3. /\ global_state = "PRESCAN" /\ Passing /\ output_scanline < Height
      /\ ~req.raw /\ post.mode = "prepass" /\ delivered = <<>> /\ TwoPass
      /\ \A i \in Saved : scanned[i] = IF i < output_scanline THEN 1 ELSE 0
  BY DEF CrankDummyPass, Passing, RowsInv, Counted, Strips
<1>4. /\ n \in Nat \ {0} /\ line <= Height
      /\ UpType(r.up) /\ MainType(Drained(Loaded, r.ctr)) /\ Decoded \in 0 .. cinfo.total
      /\ InStep(r.up, Drained(Loaded, r.ctr), Decoded, line)
      /\ PostType(r.post) /\ r.post.mode = "prepass"
      /\ r.post.start + r.post.next = line
      /\ r.post.next # 0 => r.post.strip = r.post.start
      /\ \A i \in Saved : i < line => r.post.whole[i] = Ideal(i)
  BY <1>3, DummyStep
<1>5. /\ upsample' = r.up /\ main' = Drained(Loaded, r.ctr) /\ output_iMCU_row' = Decoded
      /\ scanned' = seen /\ suspended' = FALSE
      /\ IF line < Height
         THEN /\ output_scanline' = line /\ post' = r.post
              /\ UNCHANGED <<global_state, master>>
         ELSE PrepareSecond(r.post)
      /\ UNCHANGED <<pic, req, cinfo, delivered, passes>>
  BY DEF CrankDummyPass, Processed, Decoded
<1> HIDE DEF r, n
<1>6. line \in Nat /\ line > output_scanline
  BY <1>1, <1>4
<1>7. \A i \in Saved : scanned'[i] = IF i < line THEN 1 ELSE 0
  <2>1. SUFFICES ASSUME NEW i \in Saved PROVE seen[i] = IF i < line THEN 1 ELSE 0
    BY <1>5
  <2>2. i \in Nat /\ (i \in output_scanline .. line - 1 <=> output_scanline <= i /\ i < line)
    BY <1>1, <1>6
  <2>3. seen[i] = IF output_scanline <= i /\ i < line THEN scanned[i] + 1 ELSE scanned[i]
    BY <2>2
  <2> HIDE DEF seen, line
  <2>4. QED
    BY <1>1, <1>3, <1>6, <2>2, <2>3
<1> HIDE DEF seen
<1>8. UpType(upsample') /\ MainType(main') /\ output_iMCU_row' \in 0 .. cinfo.total
  BY <1>4, <1>5
<1>9. CASE line < Height
  <2>1. /\ output_scanline' = line /\ post' = r.post /\ PostType(post') /\ post'.mode = "prepass"
        /\ global_state' = global_state /\ master' = master
    BY <1>4, <1>5, <1>9
  <2>2. Types'
    <3>1. main'.full \in BOOLEAN /\ main'.ctr \in 0 .. M - 1
      BY <1>8 DEF MainType
    <3>2. upsample'.next \in 0 .. VMax /\ upsample'.toGo \in 0 .. Height
      BY <1>8 DEF UpType
    <3>3. post'.next \in 0 .. VMax - 1 /\ post'.strip \in {Null} \cup Saved
      BY <2>1 DEF PostType
    <3>4. output_scanline' \in Nat
      BY <1>6, <2>1
    <3>5. TypeOK'
      BY <1>2, <1>5, <2>1, <3>1, <3>2, <3>3, <3>4 DEF RowsInv, Types, TypeOK, StripHeight
    <3>6. QED
      BY <1>2, <1>5, <1>8, <2>1, <3>5 DEF RowsInv, Types, MainType, UpType, PostType
  <2>3. Flowing'
    <3>1. InStep(upsample', main', output_iMCU_row', output_scanline')
      BY <1>4, <1>5, <2>1
    <3>2. QED
      BY <1>5, <3>1, InStepMoves DEF Flowing
  <2>4. Strips'
    BY <1>2, <1>3, <1>4, <1>7, <2>1 DEF Strips
  <2>5. Quantized'
    BY <2>1 DEF Quantized
  <2>6. Counted'
    <3>1. EndsAtTheBottom'
      BY <1>1, <1>2, <1>3, <1>4, <1>5, <1>6, <2>1 DEF EndsAtTheBottom
    <3>2. delivered' = <<>> /\ Len(delivered') = 0 /\ delivered' \in Seq(RowSet) /\ 0 <= Height
      BY <1>1, <1>3, <1>5, EmptySeq
    <3>3. \A i : i \notin 1 .. 0
      OBVIOUS
    <3>4. QED
      BY <1>2, <1>3, <1>5, <1>9, <2>1, <3>1, <3>2, <3>3 DEF Counted
  <2>7. QED
    BY <1>2, <1>6, <2>1, <2>2, <2>3, <2>4, <2>5, <2>6 DEF RowsInv
<1>10. CASE ~(line < Height)
  <2>1. line = Height
    BY <1>1, <1>4, <1>6, <1>10
  <2>2. /\ master' = [master EXCEPT !.dummy = FALSE, !.colormap = TRUE]
        /\ post' = [r.post EXCEPT !.mode = "2pass", !.start = 0, !.next = 0]
        /\ output_scanline' = 0 /\ global_state' = "SCANNING"
    BY <1>5, <1>10 DEF PrepareSecond
  <2>3. /\ post' \in [mode : {"upsample", "1pass", "prepass", "2pass"}, start : Nat, next : Nat,
                      strip : Int, whole : [Saved -> Stored]]
        /\ post'.mode = "2pass" /\ post'.start = 0 /\ post'.next = 0 /\ post'.strip = r.post.strip
        /\ post'.whole = r.post.whole
    <3> DEFINE RS == [mode : {"upsample", "1pass", "prepass", "2pass"}, start : Nat, next : Nat,
                      strip : Int, whole : [Saved -> Stored]]
               p == r.post
               a == [p EXCEPT !.mode = "2pass"]
               b == [a EXCEPT !.start = 0]
               c == [b EXCEPT !.next = 0]
    <3>1. p \in RS
      BY <1>4 DEF PostType
    <3> HIDE DEF p
    <3>2. a \in RS /\ a.mode = "2pass" /\ a.strip = p.strip /\ a.whole = p.whole
      BY <3>1
    <3>3. b \in RS /\ b.mode = a.mode /\ b.start = 0 /\ b.strip = a.strip /\ b.whole = a.whole
      <4> HIDE DEF a
      <4>1. QED
        BY <3>2
    <3>4. c \in RS /\ c.mode = b.mode /\ c.start = b.start /\ c.next = 0 /\ c.strip = b.strip /\ c.whole = b.whole
      <4> HIDE DEF b
      <4>1. QED
        BY <3>3
    <3>5. post' = c
      BY <2>2, <3>1 DEF p
    <3> HIDE DEF a, b, c
    <3>6. QED
      BY <3>2, <3>3, <3>4, <3>5 DEF p
  <2>4. /\ master' \in [dummy : BOOLEAN, cquantize : {"none", "1pass", "2pass"}, colormap : BOOLEAN]
        /\ master'.dummy \in BOOLEAN /\ master'.cquantize \in {"none", "1pass", "2pass"}
    <3> DEFINE MS == [dummy : BOOLEAN, cquantize : {"none", "1pass", "2pass"}, colormap : BOOLEAN]
    <3>1. master \in MS
      BY DEF RowsInv, Types
    <3>2. master' \in MS
      BY <2>2, <3>1
    <3>3. QED
      BY <3>2
  <2>5. Types'
    <3>1. main'.full \in BOOLEAN /\ main'.ctr \in 0 .. M - 1
      BY <1>8 DEF MainType
    <3>2. upsample'.next \in 0 .. VMax /\ upsample'.toGo \in 0 .. Height
      BY <1>8 DEF UpType
    <3>3. post'.next \in 0 .. VMax - 1 /\ post'.strip \in {Null} \cup Saved
      BY <1>1, <1>4, <2>3 DEF PostType
    <3>4. passes' \in 0 .. MaxPasses /\ suspended' \in BOOLEAN
      BY <1>5 DEF RowsInv, Types, TypeOK
    <3>5. TypeOK'
      BY <1>2, <2>2, <2>4, <3>1, <3>2, <3>3, <3>4 DEF TypeOK, StripHeight
    <3>6. QED
      BY <1>2, <1>5, <1>8, <2>3, <2>4, <3>5 DEF Types, MainType, UpType
  <2>6. Flowing'
    BY <2>3 DEF Flowing
  <2>7. Strips'
    BY <1>2, <1>3, <2>2, <2>3 DEF Strips
  <2>8. Quantized'
    <3>1. output_iMCU_row' = cinfo.total
      BY <1>1, <1>4, <1>5, <2>1, DecodedAtTheEnd
    <3>2. QED
      BY <1>2, <1>4, <1>5, <1>7, <2>1, <2>3, <3>1 DEF Quantized
  <2>9. Counted'
    <3>1. EndsAtTheBottom'
      BY <1>1, <1>2, <1>3, <1>5, <2>2 DEF EndsAtTheBottom
    <3>2. delivered' = <<>> /\ Len(delivered') = 0 /\ delivered' \in Seq(RowSet) /\ 0 <= Height
      BY <1>1, <1>3, <1>5, EmptySeq
    <3>3. \A i : i \notin 1 .. 0
      OBVIOUS
    <3>4. QED
      BY <1>2, <1>3, <1>5, <2>2, <2>3, <3>1, <3>2, <3>3 DEF Counted
  <2>10. QED
    BY <1>2, <1>3, <2>2, <2>5, <2>6, <2>7, <2>8, <2>9 DEF RowsInv
<1>11. QED
  BY <1>9, <1>10

-----------------------------------------------------------------------------
(* The invariant of the specification, and what it gives *)

LEMMA NextInv ==
  ASSUME ShortStrips, RowsInv, [Next]_vars
  PROVE  RowsInv'
<1>1. CASE StartDecompress
  <2>1. CASE req.buffered
    <3>1. suspended \in BOOLEAN
      BY DEF RowsInv, Types, TypeOK
    <3>2. QED
      BY <1>1, <2>1, <3>1, IdleStep DEF StartDecompress
  <2>2. CASE ~req.buffered
    <3>1. UNCHANGED <<pic, req, cinfo>> /\ Prepare(req.quant = "two", FALSE) /\ global_state = "READY"
      BY <1>1, <2>2 DEF StartDecompress
    <3>2. passes = 0
      BY <3>1 DEF RowsInv, Counted
    <3>3. passes < MaxPasses
      BY <3>2, OutputAssumption
    <3>4. (req.quant = "two") \in BOOLEAN /\ FALSE \in BOOLEAN
      OBVIOUS
    <3>5. QED
      BY <3>1, <3>3, <3>4, PrepareStep, Zenon
  <2>3. QED
    BY <2>1, <2>2
<1>2. CASE StartOutput
  BY <1>2, PrepareStep, Zenon DEF StartOutput
<1>3. CASE Suspend
  BY <1>3, IdleStep DEF Suspend
<1>4. CASE Read
  <2>1. CASE \E lines \in 1 .. MaxLines : ReadScanlines(lines)
    BY <2>1, ReadStep
  <2>2. CASE ReadRawData
    BY <2>2, RawStep
  <2>3. CASE CrankDummyPass
    BY <2>3, CrankStep
  <2>4. QED
    BY <1>4, <2>1, <2>2, <2>3 DEF Read
<1>5. CASE FinishOutput
  <2>1. suspended \in BOOLEAN
    BY DEF RowsInv, Types, TypeOK
  <2>2. QED
    BY <1>5, <2>1, IdleStep DEF FinishOutput
<1>6. CASE FinishDecompress
  <2>1. suspended \in BOOLEAN
    BY DEF RowsInv, Types, TypeOK
  <2>2. QED
    BY <1>6, <2>1, IdleStep DEF FinishDecompress
<1>7. CASE UNCHANGED vars
  <2>1. suspended \in BOOLEAN
    BY DEF RowsInv, Types, TypeOK
  <2>2. /\ UNCHANGED <<pic, req, cinfo, master, main, upsample, post, output_iMCU_row, output_scanline,
                       scanned, delivered, passes>>
        /\ global_state' = global_state /\ suspended' = suspended
    BY <1>7 DEF vars
  <2>3. QED
    BY <2>1, <2>2, IdleStep
<1>8. QED
  BY <1>1, <1>2, <1>3, <1>4, <1>5, <1>6, <1>7 DEF Next

\* Wherever the output side stands, between any two calls of the application, the main buffer,
\* the upsampler, the postprocessor's strip, the quantizer and the counters fit together: the
\* next line they give is the next line of the picture (jdapistd.c, jdmaster.c, jdmainct.c,
\* jdsample.c, jdmerge.c, jdpostct.c).
THEOREM RowsInvariant ==
  ASSUME ShortStrips
  PROVE  Spec => []RowsInv
<1>1. Init => RowsInv
  BY InitInv
<1>2. RowsInv /\ [Next]_vars => RowsInv'
  BY NextInv
<1>3. QED
  BY <1>1, <1>2, PTL DEF Spec

LEMMA InvWhole ==
  ASSUME RowsInv
  PROVE  WholePictureOnce
<1>1. TypeOK /\ EndsAtTheBottom
  BY DEF RowsInv, Types, Counted
<1>2. ASSUME NEW i \in DOMAIN delivered
      PROVE  IF req.raw THEN delivered[i] = i - 1
             ELSE /\ delivered[i] = Ideal(i - 1)
                  /\ \A c \in Needed : delivered[i][c] \in 0 .. cinfo.rows[c] - 1
  <2>1. CASE req.raw
    <3>1. delivered \in Seq(Nat) /\ \A j \in 1 .. Len(delivered) : delivered[j] = j - 1
      BY <2>1 DEF RowsInv, Counted
    <3>2. QED
      BY <2>1, <3>1
  <2>2. CASE ~req.raw
    <3>1. /\ delivered \in Seq(RowSet) /\ Len(delivered) <= Height
          /\ \A j \in 1 .. Len(delivered) : delivered[j] = Ideal(j - 1)
      BY <2>2 DEF RowsInv, Counted
    <3>2. i \in 1 .. Len(delivered) /\ Height \in Nat /\ Described
      BY <3>1, InvTypes
    <3>3. i - 1 \in Nat /\ i - 1 < Height
      BY <3>1, <3>2
    <3>4. Ideal(i - 1) \in RowSet /\ \A c \in Needed : Ideal(i - 1)[c] < cinfo.rows[c]
      BY <3>2, <3>3, IdealRows
    <3>5. \A c \in Needed : cinfo.rows[c] \in Nat
      BY <3>2, DescribedGeometry DEF Geometry
    <3>6. delivered[i] = Ideal(i - 1)
      BY <3>1, <3>2
    <3> DEFINE row == Ideal(i - 1)
    <3> HIDE DEF row
    <3>7. row \in RowSet /\ \A c \in Needed : row[c] < cinfo.rows[c]
      BY <3>4 DEF row
    <3>8. \A c \in Needed : row[c] \in 0 .. cinfo.rows[c] - 1
      BY <3>5, <3>7 DEF RowSet
    <3>9. QED
      BY <2>2, <3>6, <3>8 DEF row
  <2>3. QED
    BY <2>1, <2>2
<1>3. RowsInOrder
  BY <1>2 DEF RowsInOrder
<1>4. QED
  BY <1>1, <1>3 DEF WholePictureOnce

\* The application gets every scanline of the picture once and in order, made of the rows that
\* belong to it, for every picture, scale and request (jpeg_read_scanlines, jpeg_read_raw_data).
THEOREM WholePicture ==
  ASSUME ShortStrips
  PROVE  Spec => []WholePictureOnce
<1>1. RowsInv => WholePictureOnce
  BY InvWhole
<1>2. Spec => []RowsInv
  BY RowsInvariant
<1>3. QED
  BY <1>1, <1>2, PTL

LEMMA InvInverse ==
  ASSUME RowsInv
  PROVE  EveryBlockHasAnInverse
<1>1. SUFFICES ASSUME NEW c \in Needed
               PROVE  Idct!HasInverseMethod(ScaledH(pic, req, c), ScaledV(pic, req, c))
  BY DEF EveryBlockHasAnInverse
<1>2. Picture(pic, req) /\ c \in Comps(pic)
  BY InvTypes, DescribedGeometry DEF Geometry
<1>3. PICK n \in 1 .. 16 : \/ ScaledH(pic, req, c) = n /\ ScaledV(pic, req, c) = n
                           \/ n <= 8 /\ ScaledH(pic, req, c) = 2 * n /\ ScaledV(pic, req, c) = n
                           \/ n <= 8 /\ ScaledH(pic, req, c) = n /\ ScaledV(pic, req, c) = 2 * n
  BY <1>2, ScaledBlock
<1>4. QED
  BY <1>3, InverseOfEverySize

LEMMA InvDecoded ==
  ASSUME RowsInv
  PROVE  DecodedWhenRead
<1>1. /\ Described /\ UpType(upsample) /\ MainType(main) /\ output_iMCU_row \in 0 .. cinfo.total
      /\ cinfo.total \in Nat /\ output_scanline \in Nat /\ M \in 1 .. 16 /\ VMax \in 1 .. 4
      /\ Height \in Nat \ {0}
  BY InvTypes
<1>2. SUFFICES ASSUME global_state \in {"SCANNING", "RAW_OK"}, output_scanline >= Height
               PROVE  output_iMCU_row = cinfo.total
  BY <1>1 DEF DecodedWhenRead
<1>3. CASE global_state = "SCANNING"
  <2>1. CASE post.mode = "2pass"
    BY <2>1 DEF RowsInv, Quantized
  <2>2. CASE post.mode # "2pass"
    <3>1. InStep(upsample, main, output_iMCU_row, output_scanline)
      BY <1>3, <2>2 DEF RowsInv, Flowing, Passing
    <3>2. output_scanline = Height
      BY <1>1, <1>2, <1>3 DEF RowsInv, Counted, EndsAtTheBottom
    <3>3. QED
      BY <1>1, <3>1, <3>2, DecodedAtTheEnd
  <2>3. QED
    BY <2>1, <2>2
<1>4. CASE global_state = "RAW_OK"
  <2>1. output_scanline = output_iMCU_row * VMax * M
    BY <1>4 DEF RowsInv, Counted
  <2>2. output_iMCU_row \in Nat /\ output_iMCU_row * VMax * M = output_iMCU_row * M * VMax
    BY <1>1
  <2>3. output_iMCU_row < cinfo.total <=> output_iMCU_row * M * VMax < Height
    BY <1>1, <2>2, DescribedGeometry DEF Geometry
  <2>4. ~(output_scanline < Height)
    BY <1>1, <1>2
  <2>5. ~(output_iMCU_row < cinfo.total)
    BY <2>1, <2>2, <2>3, <2>4
  <2>6. QED
    BY <1>1, <2>5
<1>5. QED
  BY <1>2, <1>3, <1>4

\* What one stage has computed suits the next: every scaled block size has a routine, the last
\* iMCU row has been decoded when the last line is out, and the colours are chosen for the whole
\* picture (jdmaster.c, jddctmgr.c, jdpostct.c).
THEOREM StagesSuit ==
  ASSUME ShortStrips
  PROVE  Spec => []StagesAgree
<1>1. RowsInv => StagesAgree
  <2>1. RowsInv => ColorsOfTheWholePicture
    BY DEF RowsInv, Quantized, ColorsOfTheWholePicture
  <2>2. QED
    BY <2>1, InvInverse, InvDecoded DEF StagesAgree
<1>2. Spec => []RowsInv
  BY RowsInvariant
<1>3. QED
  BY <1>1, <1>2, PTL

\* No call that is not suspended comes back without a line: neither the loop of
\* output_pass_setup nor an application that reads from a file can turn for ever.
THEOREM CallsBringLines ==
  ASSUME ShortStrips
  PROVE  Spec => EveryCallBringsALine
<1> DEFINE brings == (global_state \in {"PRESCAN", "SCANNING", "RAW_OK"} /\ global_state' = global_state
                        /\ ~suspended') => output_scanline' > output_scanline
<1>1. RowsInv /\ [Next]_vars => [brings]_vars
  <2>1. SUFFICES ASSUME RowsInv, Next, global_state \in {"PRESCAN", "SCANNING", "RAW_OK"},
                        global_state' = global_state, ~suspended'
                 PROVE  output_scanline' > output_scanline
    OBVIOUS
  <2>2. Read
    <3>1. ~StartDecompress /\ ~StartOutput
      BY <2>1 DEF StartDecompress, StartOutput
    <3>2. ~Suspend
      BY <2>1 DEF Suspend
    <3>3. ~FinishOutput /\ ~FinishDecompress
      BY <2>1 DEF FinishOutput, FinishDecompress
    <3>4. QED
      BY <2>1, <3>1, <3>2, <3>3 DEF Next
  <2>3. CASE \E lines \in 1 .. MaxLines : ReadScanlines(lines)
    BY <2>1, <2>3, ReadStep
  <2>4. CASE ReadRawData
    <3>1. output_scanline' = output_scanline + VMax * M
      BY <2>4 DEF ReadRawData
    <3>2. output_scanline \in Nat /\ M \in 1 .. 16 /\ VMax \in 1 .. 4
      BY <2>1, InvTypes
    <3>3. VMax * M \in Nat \ {0}
      BY <3>2
    <3>4. QED
      BY <3>1, <3>2, <3>3
  <2>5. CASE CrankDummyPass
    BY <2>1, <2>5, CrankStep
  <2>6. QED
    BY <2>2, <2>3, <2>4, <2>5 DEF Read
<1>2. Spec => []RowsInv
  BY RowsInvariant
<1>3. QED
  BY <1>1, <1>2, PTL DEF Spec, EveryCallBringsALine
=============================================================================
