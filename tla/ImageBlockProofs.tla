-------------------------- MODULE ImageBlockProofs --------------------------
(***************************************************************************)
(* Theorems about ImageBlock, for an image of any size in blocks of any    *)
(* size, filters of any radius and any number of samples.                  *)
(***************************************************************************)
EXTENDS ImageBlock, FiniteSetTheorems, TLAPS

-----------------------------------------------------------------------------
(* Products, and division with a remainder.                                *)

LEMMA ProductInt == ASSUME NEW i \in Int, NEW n \in Int PROVE i * n \in Int
  OBVIOUS

LEMMA ProductNat == ASSUME NEW i \in Nat, NEW n \in Nat PROVE i * n \in Nat
  OBVIOUS

LEMMA DivBounds ==
    ASSUME NEW a \in Int, NEW n \in Nat \ {0}
    PROVE  a \div n \in Int /\ (a \div n) * n <= a /\ a < (a \div n) * n + n
  BY SMT

LEMMA Spread ==
    ASSUME NEW i \in Int, NEW j \in Int, NEW n \in Int
    PROVE  (i + j) * n = i * n + j * n /\ (i - j) * n = i * n - j * n
  BY SMT

LEMMA LaterMultiple ==
    ASSUME NEW n \in Nat \ {0}, NEW i \in Int, NEW j \in Int, i < j
    PROVE  i * n + n <= j * n
  <1>1. PICK k \in Nat : j = i + 1 + k
    <2>1. j - i - 1 \in Nat /\ j = i + 1 + (j - i - 1)
      OBVIOUS
    <2> QED
      BY <2>1
  <1>2. j * n = (i + 1) * n + k * n /\ (i + 1) * n = i * n + 1 * n
    BY <1>1, Spread
  <1>3. i * n \in Int /\ k * n \in Nat /\ 1 * n = n
    BY ProductInt, ProductNat
  <1> QED
    BY <1>2, <1>3

LEMMA MultiplesInOrder ==
    ASSUME NEW n \in Nat \ {0}, NEW i \in Int, NEW j \in Int
    PROVE  /\ i <= j <=> i * n <= j * n
           /\ i <= j <=> i * n < j * n + n
  <1>1. i * n \in Int /\ j * n \in Int
    BY ProductInt
  <1>2. i < j => i * n + n <= j * n
    BY LaterMultiple
  <1>3. j < i => j * n + n <= i * n
    BY LaterMultiple
  <1> QED
    BY <1>1, <1>2, <1>3

-----------------------------------------------------------------------------
(* Rounding positions to pixels.                                           *)

LEMMA HalfUnit == Unit \div 2 \in Nat \ {0} /\ 2 * (Unit \div 2) = Unit
  BY UnitAssumption

\* The pixels up to Floor(a) are those whose corner lies at a or before.
LEMMA FloorBounds ==
    ASSUME NEW a \in Int, NEW x \in Int
    PROVE  /\ Floor(a) \in Int
           /\ x <= Floor(a) <=> x * Unit <= a
  <1> DEFINE q == a \div Unit
  <1>1. q \in Int /\ q * Unit \in Int /\ q * Unit <= a /\ a < q * Unit + Unit
    BY DivBounds, ProductInt, UnitAssumption
  <1> HIDE DEF q
  <1>2. /\ x <= q <=> x * Unit <= q * Unit
        /\ x <= q <=> x * Unit < q * Unit + Unit
        /\ x * Unit \in Int
    BY <1>1, MultiplesInOrder, ProductInt, UnitAssumption
  <1>3. x <= q <=> x * Unit <= a
    BY <1>1, <1>2, UnitAssumption
  <1> QED
    BY <1>1, <1>3 DEF q, Floor

\* The pixels from Ceil(a) on are those whose corner lies at a or behind.
LEMMA CeilBounds ==
    ASSUME NEW a \in Int, NEW x \in Int
    PROVE  /\ Ceil(a) \in Int
           /\ Ceil(a) <= x <=> a <= x * Unit
  <1>1. -a \in Int /\ -x \in Int /\ x * Unit \in Int /\ Floor(-a) \in Int
    BY ProductInt, FloorBounds, UnitAssumption
  <1>2. -x <= Floor(-a) <=> (-x) * Unit <= -a
    BY <1>1, FloorBounds
  <1>3. (0 - x) * Unit = 0 * Unit - x * Unit /\ 0 * Unit = 0 /\ 0 - x = -x
    BY Spread, UnitAssumption
  <1>4. Ceil(a) = -Floor(-a)
    BY DEF Ceil, Floor
  <1> QED
    BY <1>1, <1>2, <1>3, <1>4

-----------------------------------------------------------------------------
(* The constants of the constructor.                                       *)

\* A border covers what a filter reaches beyond half a pixel.
LEMMA BorderBounds ==
    ASSUME NEW r \in Radii
    PROVE  /\ r \in Nat \ {0}
           /\ BorderSize(r) \in Nat /\ BorderSize(r) * Unit \in Nat
           /\ r - Unit \div 2 <= BorderSize(r) * Unit
  <1>1. r \in Nat \ {0} /\ r - Unit \div 2 \in Int /\ -1 \in Int
    BY RadiiAssumption, HalfUnit
  <1>2. BorderSize(r) \in Int /\ r - Unit \div 2 <= BorderSize(r) * Unit
    <2>1. Ceil(r - Unit \div 2) \in Int
      BY <1>1, CeilBounds
    <2>2. r - Unit \div 2 <= Ceil(r - Unit \div 2) * Unit
      BY <1>1, <2>1, CeilBounds
    <2> QED
      BY <2>1, <2>2 DEF BorderSize
  <1>3. BorderSize(r) \in Nat
    <2>1. ~(Ceil(r - Unit \div 2) <= -1)
      <3>1. (0 - 1) * Unit = 0 * Unit - 1 * Unit /\ 0 * Unit = 0 /\ 1 * Unit = Unit /\ 0 - 1 = -1
        BY Spread, UnitAssumption
      <3>2. ~(r - Unit \div 2 <= (-1) * Unit)
        BY <1>1, <3>1, HalfUnit, UnitAssumption
      <3> QED
        BY <1>1, <3>2, CeilBounds
    <2> QED
      BY <1>2, <2>1 DEF BorderSize
  <1> QED
    BY <1>1, <1>2, <1>3, ProductNat, UnitAssumption

\* The filter table is read within its entries, and at distance r at the extra
\* one.
LEMMA IndexBounds ==
    ASSUME NEW r \in Nat \ {0}, NEW d \in Nat, d <= r
    PROVE  /\ (d * Resolution) \div r \in 0 .. Resolution
           /\ d = r => (d * Resolution) \div r = Resolution
  <1> DEFINE n == d * Resolution
             q == n \div r
             full == r * Resolution
  <1>1. n \in Nat /\ full \in Nat /\ n <= full /\ (d = r => n = full)
    <2>1. PICK k \in Nat : r = d + k
      <3>1. r - d \in Nat /\ r = d + (r - d)
        OBVIOUS
      <3> QED
        BY <3>1
    <2>2. r * Resolution = d * Resolution + k * Resolution
      BY <2>1, Spread, ResolutionAssumption
    <2>3. d * Resolution \in Nat /\ k * Resolution \in Nat
      BY <2>1, ProductNat, ResolutionAssumption
    <2> QED
      BY <2>2, <2>3
  <1> HIDE DEF n, full
  <1>2. q \in Int /\ q * r \in Int /\ q * r <= n /\ n < q * r + r
    BY <1>1, DivBounds, ProductInt
  <1> HIDE DEF q
  <1>3. full = Resolution * r
    BY ResolutionAssumption DEF full
  <1>4. Resolution * r \in Int /\ 0 * r = 0
    BY ResolutionAssumption, ProductInt
  <1>5. /\ q <= Resolution <=> q * r <= Resolution * r
        /\ Resolution <= q <=> Resolution * r < q * r + r
        /\ 0 <= q <=> 0 * r < q * r + r
    BY <1>2, MultiplesInOrder, ResolutionAssumption
  <1>6. q <= Resolution /\ 0 <= q
    BY <1>1, <1>2, <1>3, <1>4, <1>5
  <1>7. d = r => Resolution <= q
    BY <1>1, <1>2, <1>3, <1>4, <1>5
  <1>8. q \in 0 .. Resolution /\ (d = r => q = Resolution)
    BY <1>2, <1>6, <1>7, ResolutionAssumption
  <1> QED
    BY <1>8 DEF q, n

LEMMA KernelValues ==
    ASSUME NEW r \in Radii, NEW d \in Nat
    PROVE  /\ Kernel(d, r) \in Nat
           /\ d >= r => Kernel(d, r) = 0
  <1>1. r \in Nat \ {0}
    BY RadiiAssumption
  <1>2. CASE d <= r
    <2>1. /\ (d * Resolution) \div r \in 0 .. Resolution
          /\ d = r => (d * Resolution) \div r = Resolution
      BY <1>1, <1>2, IndexBounds
    <2> DEFINE q == (d * Resolution) \div r
    <2> HIDE DEF q
    <2>2. /\ q \in 0 .. Resolution
          /\ d = r => q = Resolution
      BY <2>1 DEF q
    <2>3. FilterTable(q) \in Nat /\ (d = r => FilterTable(q) = 0)
      BY <2>2, ResolutionAssumption DEF FilterTable
    <2>4. Kernel(d, r) = FilterTable(q)
      BY <1>2 DEF Kernel, q
    <2> QED
      BY <1>1, <1>2, <2>3, <2>4
  <1>3. CASE ~(d <= r)
    BY <1>3 DEF Kernel
  <1> QED
    BY <1>2, <1>3

-----------------------------------------------------------------------------
(* One axis of put(): block pixels o .. o + e - 1, a sample at s, and the  *)
(* pixel x of the image.                                                   *)

\* What the sample adds to the pixel of the buffer under x, and how far the
\* middle of x is.
AxisWeight(x, s, o, r) ==
    LET i  == x + BorderSize(r) - o
        at == Local(s, o, r)
    IN  IF i \in Touched(at, BlockSize + 2 * BorderSize(r), r) THEN Weight(i, at, r) ELSE 0

AxisShare(x, s, r) == Kernel(Distance(MiddleOf(x), s), r)

\* The sample is as far from the pixel of the buffer as from the pixel of the
\* image it stands for, and when its filter reaches across that distance, that
\* pixel is in the block or its border.
LEMMA SameDistance ==
    ASSUME NEW r \in Radii, NEW o \in Nat, NEW e \in Nat, NEW s \in Int, NEW x \in Int,
           o * Unit <= s, s <= (o + e) * Unit
    PROVE  LET i  == x + BorderSize(r) - o
               at == Local(s, o, r)
               d  == Distance(MiddleOf(x), s)
           IN  /\ i \in Int /\ at \in Int /\ i * Unit \in Int /\ d \in Nat
               /\ Distance(i * Unit, at) = d
               /\ d < r => i \in 0 .. e + 2 * BorderSize(r) - 1
  <1> DEFINE B  == BorderSize(r)
             H  == Unit \div 2
             i  == x + B - o
             at == Local(s, o, r)
             d  == Distance(MiddleOf(x), s)
             xU == x * Unit
             BU == B * Unit
             oU == o * Unit
             eU == e * Unit
  <1>1. r \in Nat \ {0} /\ B \in Nat /\ BU \in Nat /\ r - H <= BU
    BY BorderBounds
  <1>2. H \in Nat \ {0} /\ 2 * H = Unit /\ Unit \in Nat \ {0}
    BY HalfUnit, UnitAssumption
  <1>3. xU \in Int /\ oU \in Nat /\ eU \in Nat
    BY <1>2, ProductInt, ProductNat
  <1>4. i \in Int /\ i * Unit = xU + BU - oU
    <2> HIDE DEF B
    <2>1. x + B \in Int /\ (x + B) * Unit = xU + BU
      BY <1>1, <1>2, Spread
    <2>2. (x + B - o) * Unit = (x + B) * Unit - oU
      BY <1>1, <1>2, <2>1, Spread
    <2>3. x + B - o \in Int
      BY <1>1
    <2> HIDE DEF xU, BU, oU
    <2> QED
      BY <1>1, <1>3, <2>1, <2>2, <2>3 DEF i
  <1>5. at = s - H - (oU - BU)
    BY <1>1, <1>2, Spread DEF Local
  <1>6. (o + e) * Unit = oU + eU
    BY <1>2, Spread
  <1>7. MiddleOf(x) = xU + H
    BY DEF MiddleOf
  <1>8. (e + 2 * B) * Unit = eU + 2 * BU /\ e + 2 * B \in Int
    <2> HIDE DEF B
    <2>1. e + B \in Int /\ (e + B) * Unit = eU + BU
      BY <1>1, <1>2, Spread
    <2>2. (e + B + B) * Unit = (e + B) * Unit + BU
      BY <1>1, <1>2, <2>1, Spread
    <2>3. e + 2 * B = e + B + B /\ e + 2 * B \in Int
      BY <1>1
    <2> QED
      BY <1>1, <1>3, <2>1, <2>2, <2>3
  <1>9. /\ 0 <= i <=> 0 < i * Unit + Unit
        /\ e + 2 * B <= i <=> (e + 2 * B) * Unit <= i * Unit
    <2> HIDE DEF i, B
    <2>1. 0 * Unit = 0
      BY <1>2
    <2> QED
      BY <1>2, <1>4, <1>8, <2>1, MultiplesInOrder
  <1> HIDE DEF i, B, H, at, xU, BU, oU, eU
  <1>10. Distance(i * Unit, at) = d /\ d \in Nat
    <2>1. i * Unit - at = MiddleOf(x) - s /\ MiddleOf(x) \in Int /\ at \in Int /\ i * Unit \in Int
      BY <1>1, <1>2, <1>3, <1>4, <1>5, <1>7
    <2> QED
      BY <2>1 DEF Distance, d
  <1>11. ASSUME d < r PROVE i \in 0 .. e + 2 * B - 1
    <2>1. xU + H - s < r /\ s - xU - H < r
      BY <1>1, <1>2, <1>3, <1>7, <1>11 DEF d, Distance
    <2>2. 0 < i * Unit + Unit
      BY <1>1, <1>2, <1>3, <1>4, <1>6, <2>1 DEF oU
    <2>3. i * Unit < (e + 2 * B) * Unit
      BY <1>1, <1>2, <1>3, <1>4, <1>6, <1>8, <2>1 DEF oU
    <2> QED
      BY <1>1, <1>2, <1>3, <1>4, <1>8, <1>9, <2>2, <2>3
  <1>12. i \in Int /\ at \in Int /\ i * Unit \in Int
    BY <1>1, <1>2, <1>3, <1>4, <1>5
  <1> QED
    BY <1>10, <1>11, <1>12 DEF i, at, d, B

\* The loop visits the pixels of the buffer that lie within the radius.
LEMMA TouchedWithinRadius ==
    ASSUME NEW r \in Nat, NEW at \in Int, NEW length \in Int, NEW i \in Int
    PROVE  i \in Touched(at, length, r) <=>
             Distance(i * Unit, at) <= r /\ i \in 0 .. length - 1
  <1>1. i * Unit \in Int /\ at - r \in Int /\ at + r \in Int
    BY ProductInt, UnitAssumption
  <1>2. Floor(at + r) \in Int /\ (i <= Floor(at + r) <=> i * Unit <= at + r)
    BY <1>1, FloorBounds
  <1>3. Ceil(at - r) \in Int /\ (Ceil(at - r) <= i <=> at - r <= i * Unit)
    BY <1>1, CeilBounds
  <1>4. Distance(i * Unit, at) <= r <=> at - r <= i * Unit /\ i * Unit <= at + r
    BY <1>1 DEF Distance
  <1>5. i \in Touched(at, length, r) <=>
          Ceil(at - r) <= i /\ 0 <= i /\ i <= Floor(at + r) /\ i <= length - 1
    BY <1>2, <1>3 DEF Touched, Larger, Smaller
  <1> QED
    BY <1>2, <1>3, <1>4, <1>5

LEMMA AxisIsShare ==
    ASSUME NEW r \in Radii, NEW o \in Nat, NEW e \in Nat, NEW s \in Int, NEW x \in Int,
           o * Unit <= s, s <= (o + e) * Unit, e <= BlockSize
    PROVE  /\ AxisWeight(x, s, o, r) = AxisShare(x, s, r)
           /\ AxisShare(x, s, r) \in Nat
           /\ x + BorderSize(r) - o \in 0 .. e + 2 * BorderSize(r) - 1 \/ AxisShare(x, s, r) = 0
  <1> DEFINE B  == BorderSize(r)
             i  == x + B - o
             at == Local(s, o, r)
             d  == Distance(MiddleOf(x), s)
             length == BlockSize + 2 * B
             w == AxisWeight(x, s, o, r)
  <1>1. r \in Nat \ {0} /\ B \in Nat /\ length \in Nat /\ e + 2 * B <= length
    BY BorderBounds, BlockSizeAssumption
  <1>2. /\ i \in Int /\ at \in Int /\ i * Unit \in Int /\ d \in Nat
        /\ Distance(i * Unit, at) = d
        /\ d < r => i \in 0 .. e + 2 * B - 1
    BY SameDistance
  <1>3. /\ Kernel(d, r) \in Nat
        /\ d >= r => Kernel(d, r) = 0
    BY <1>2, KernelValues
  <1>4. w = IF i \in Touched(at, length, r) THEN Weight(i, at, r) ELSE 0
    BY DEF AxisWeight
  <1>5. Weight(i, at, r) = FilterTable((d * Resolution) \div r)
    BY <1>2 DEF Weight, TableIndex
  <1>6. AxisShare(x, s, r) = Kernel(d, r)
    BY DEF AxisShare
  <1> HIDE DEF B, i, at, d, length, w
  <1>7. i \in Touched(at, length, r) <=> d <= r /\ i \in 0 .. length - 1
    <2>1. r \in Nat /\ length \in Int /\ i \in Int /\ at \in Int
      BY <1>1, <1>2
    <2>2. i \in Touched(at, length, r) <=>
            Distance(i * Unit, at) <= r /\ i \in 0 .. length - 1
      BY <2>1, TouchedWithinRadius, Zenon
    <2> QED
      BY <1>2, <2>2
  <1>8. CASE d < r
    <2>1. i \in 0 .. length - 1
      BY <1>1, <1>2, <1>8
    <2>2. d <= r
      BY <1>1, <1>2, <1>8
    <2>3. w = Kernel(d, r)
      BY <2>1, <2>2, <1>4, <1>5, <1>7 DEF Kernel
    <2> QED
      BY <2>3, <1>2, <1>3, <1>6, <1>8 DEF w, i, B
  <1>9. CASE d >= r
    <2>1. Kernel(d, r) = 0
      BY <1>3, <1>9
    <2>2. i \in Touched(at, length, r) => Weight(i, at, r) = Kernel(d, r)
      BY <1>5, <1>7 DEF Kernel
    <2>3. w = 0
      BY <2>1, <2>2, <1>4
    <2> QED
      BY <2>1, <2>3, <1>6 DEF w
  <1> QED
    BY <1>1, <1>2, <1>8, <1>9

-----------------------------------------------------------------------------
(* The blocks of the grid.                                                 *)

\* Block i of an axis of S pixels starts in the image, and what it covers ends
\* there.
LEMMA BlockInside ==
    ASSUME NEW S \in Nat, NEW i \in 0 .. CeilDiv(S, BlockSize) - 1
    PROVE  /\ i * BlockSize \in Nat
           /\ Smaller(S - i * BlockSize, BlockSize) \in Nat
           /\ Smaller(S - i * BlockSize, BlockSize) <= BlockSize
           /\ i * BlockSize + Smaller(S - i * BlockSize, BlockSize) <= S
  <1> DEFINE n == (S + BlockSize - 1) \div BlockSize
             o == i * BlockSize
  <1>1. S + BlockSize - 1 \in Int /\ BlockSize \in Nat \ {0}
    BY BlockSizeAssumption
  <1>2. n \in Int /\ n * BlockSize \in Int /\ n * BlockSize <= S + BlockSize - 1
    BY <1>1, DivBounds, ProductInt
  <1>3. i \in Nat /\ i < n
    BY <1>2 DEF CeilDiv
  <1> HIDE DEF n
  <1>4. o \in Nat /\ o + BlockSize <= n * BlockSize
    BY <1>1, <1>2, <1>3, LaterMultiple, ProductNat
  <1>5. o < S
    BY <1>1, <1>2, <1>4
  <1> HIDE DEF o
  <1>6. /\ Smaller(S - o, BlockSize) \in Nat
        /\ Smaller(S - o, BlockSize) <= BlockSize
        /\ o + Smaller(S - o, BlockSize) <= S
    BY <1>1, <1>4, <1>5 DEF Smaller
  <1> QED
    BY <1>4, <1>6 DEF o

LEMMA BlockFacts ==
    ASSUME NEW b \in Grid
    PROVE  /\ b = <<b[1], b[2]>>
           /\ OffsetOf(b) \in Nat \X Nat /\ ExtentOf(b) \in Nat \X Nat
           /\ ExtentOf(b)[1] <= BlockSize /\ ExtentOf(b)[2] <= BlockSize
           /\ OffsetOf(b)[1] + ExtentOf(b)[1] <= SizeX
           /\ OffsetOf(b)[2] + ExtentOf(b)[2] <= SizeY
  <1>1. /\ b = <<b[1], b[2]>>
        /\ b[1] \in 0 .. CeilDiv(SizeX, BlockSize) - 1
        /\ b[2] \in 0 .. CeilDiv(SizeY, BlockSize) - 1
    BY DEF Grid, NumBlocksX, NumBlocksY
  <1> DEFINE ox == b[1] * BlockSize
             oy == b[2] * BlockSize
             ex == Smaller(SizeX - ox, BlockSize)
             ey == Smaller(SizeY - oy, BlockSize)
  <1>2. ox \in Nat /\ ex \in Nat /\ ex <= BlockSize /\ ox + ex <= SizeX
    BY <1>1, BlockInside, SizeAssumption
  <1>3. oy \in Nat /\ ey \in Nat /\ ey <= BlockSize /\ oy + ey <= SizeY
    BY <1>1, BlockInside, SizeAssumption
  <1>4. OffsetOf(b) = <<ox, oy>> /\ ExtentOf(b) = <<ex, ey>>
    BY DEF OffsetOf, ExtentOf
  <1> HIDE DEF ox, oy, ex, ey
  <1> QED
    BY <1>1, <1>2, <1>3, <1>4

\* A sample of a block lies on each axis between the block's first corner and
\* its last.
LEMMA PositionBounds ==
    ASSUME NEW b \in Grid, NEW s \in Positions(b)
    PROVE  /\ s[1] \in Int /\ s[2] \in Int
           /\ OffsetOf(b)[1] * Unit <= s[1]
           /\ s[1] <= (OffsetOf(b)[1] + ExtentOf(b)[1]) * Unit
           /\ OffsetOf(b)[2] * Unit <= s[2]
           /\ s[2] <= (OffsetOf(b)[2] + ExtentOf(b)[2]) * Unit
  <1>1. PICK p \in PixelsOf(b) : s \in PositionsIn(p)
    BY DEF Positions
  <1> DEFINE ox == OffsetOf(b)[1]
             oy == OffsetOf(b)[2]
             ex == ExtentOf(b)[1]
             ey == ExtentOf(b)[2]
  <1>2. ox \in Nat /\ oy \in Nat /\ ex \in Nat /\ ey \in Nat
    BY BlockFacts
  <1>3. p[1] \in ox .. ox + ex - 1 /\ p[2] \in oy .. oy + ey - 1
    BY <1>1 DEF PixelsOf
  <1>4. /\ s[1] \in p[1] * Unit .. (p[1] + 1) * Unit
        /\ s[2] \in p[2] * Unit .. (p[2] + 1) * Unit
    BY <1>1 DEF PositionsIn
  <1> HIDE DEF ox, oy, ex, ey
  <1>5. ASSUME NEW o \in Nat, NEW e \in Nat, NEW x \in o .. o + e - 1,
               NEW y \in x * Unit .. (x + 1) * Unit
        PROVE  y \in Int /\ o * Unit <= y /\ y <= (o + e) * Unit
    <2>1. x \in Int /\ o <= x /\ x + 1 <= o + e /\ x + 1 \in Int /\ o + e \in Int
      BY <1>5
    <2>2. o * Unit <= x * Unit /\ (x + 1) * Unit <= (o + e) * Unit
      BY <2>1, MultiplesInOrder, UnitAssumption
    <2>3. /\ x * Unit \in Int /\ (x + 1) * Unit \in Int
          /\ o * Unit \in Int /\ (o + e) * Unit \in Int
      BY <2>1, ProductInt, UnitAssumption
    <2> QED
      BY <2>2, <2>3
  <1>6. s[1] \in Int /\ ox * Unit <= s[1] /\ s[1] <= (ox + ex) * Unit
    BY <1>2, <1>3, <1>4, <1>5
  <1>7. s[2] \in Int /\ oy * Unit <= s[2] /\ s[2] <= (oy + ey) * Unit
    BY <1>2, <1>3, <1>4, <1>5
  <1> QED
    BY <1>6, <1>7 DEF ox, oy, ex, ey

-----------------------------------------------------------------------------
(* Buffers.                                                                *)

LEMMA BufferOf ==
    ASSUME NEW r \in Radii, NEW w \in Nat, NEW h \in Nat
    PROVE  Buffer(<<w, h>>, r) =
             (0 .. w + 2 * BorderSize(r) - 1) \X (0 .. h + 2 * BorderSize(r) - 1)
  <1> DEFINE l == Length(<<w, h>>, r)
  <1>1. BorderSize(r) \in Nat
    BY BorderBounds
  <1>2. l[1] = w + 2 * BorderSize(r) /\ l[2] = h + 2 * BorderSize(r)
    BY DEF Length
  <1> HIDE DEF l
  <1>3. Buffer(<<w, h>>, r) = (0 .. l[1] - 1) \X (0 .. l[2] - 1)
    BY DEF Buffer, l
  <1> QED
    BY <1>1, <1>2, <1>3

\* The corner that is merged lies in the buffer of the worker, and where it is
\* added, in the buffer of the image.
LEMMA CornerInside ==
    ASSUME NEW r \in Radii, NEW b \in Grid, NEW q \in Corner(b, r)
    PROVE  /\ q \in Buffer(Full, r)
           /\ <<q[1] + OffsetOf(b)[1], q[2] + OffsetOf(b)[2]>> \in Buffer(Image, r)
  <1> DEFINE ox == OffsetOf(b)[1]
             oy == OffsetOf(b)[2]
             ex == ExtentOf(b)[1]
             ey == ExtentOf(b)[2]
             B  == BorderSize(r)
  <1>1. /\ ox \in Nat /\ oy \in Nat /\ ex \in Nat /\ ey \in Nat
        /\ ex <= BlockSize /\ ey <= BlockSize
        /\ ox + ex <= SizeX /\ oy + ey <= SizeY
        /\ ExtentOf(b) = <<ex, ey>>
    BY BlockFacts
  <1>2. B \in Nat
    BY BorderBounds
  <1>3. /\ Corner(b, r) = (0 .. ex + 2 * B - 1) \X (0 .. ey + 2 * B - 1)
        /\ Buffer(Full, r) = (0 .. BlockSize + 2 * B - 1) \X (0 .. BlockSize + 2 * B - 1)
        /\ Buffer(Image, r) = (0 .. SizeX + 2 * B - 1) \X (0 .. SizeY + 2 * B - 1)
    BY <1>1, BufferOf, BlockSizeAssumption, SizeAssumption DEF Corner, Full, Image
  <1> HIDE DEF ox, oy, ex, ey, B
  <1>4. q = <<q[1], q[2]>> /\ q[1] \in 0 .. ex + 2 * B - 1 /\ q[2] \in 0 .. ey + 2 * B - 1
    BY <1>3
  <1>5. q[1] \in 0 .. BlockSize + 2 * B - 1 /\ q[2] \in 0 .. BlockSize + 2 * B - 1
    BY <1>1, <1>2, <1>4, BlockSizeAssumption
  <1>6. q[1] + ox \in 0 .. SizeX + 2 * B - 1 /\ q[2] + oy \in 0 .. SizeY + 2 * B - 1
    BY <1>1, <1>2, <1>4, SizeAssumption
  <1> QED
    BY <1>3, <1>4, <1>5, <1>6 DEF ox, oy

LEMMA PixelInImage ==
    ASSUME NEW r \in Radii, NEW p \in Pixels
    PROVE  <<p[1] + BorderSize(r), p[2] + BorderSize(r)>> \in Buffer(Image, r)
  <1>1. BorderSize(r) \in Nat
    BY BorderBounds
  <1>2. p[1] \in 0 .. SizeX - 1 /\ p[2] \in 0 .. SizeY - 1
    BY DEF Pixels
  <1>3. Buffer(Image, r) = (0 .. SizeX + 2 * BorderSize(r) - 1)
                             \X (0 .. SizeY + 2 * BorderSize(r) - 1)
    BY BufferOf, SizeAssumption DEF Image
  <1> QED
    BY <1>1, <1>2, <1>3, SizeAssumption

LEMMA ShareNat ==
    ASSUME NEW r \in Radii, NEW b \in Grid, NEW s \in Positions(b), NEW p \in Pixels
    PROVE  Share(p, s, r) \in Nat
  <1>1. /\ p[1] \in Int /\ p[2] \in Int
    BY SizeAssumption DEF Pixels
  <1>2. s[1] \in Int /\ s[2] \in Int
    BY PositionBounds
  <1>3. ASSUME NEW x \in Int, NEW y \in Int PROVE Distance(MiddleOf(x), y) \in Nat
    <2>1. MiddleOf(x) \in Int
      BY ProductInt, HalfUnit, UnitAssumption DEF MiddleOf
    <2> QED
      BY <2>1 DEF Distance
  <1>4. /\ Kernel(Distance(MiddleOf(p[1]), s[1]), r) \in Nat
        /\ Kernel(Distance(MiddleOf(p[2]), s[2]), r) \in Nat
    BY <1>1, <1>2, <1>3, KernelValues
  <1> QED
    BY <1>4, ProductNat DEF Share

\* What a sample adds to a pixel of the buffer.
SplatWeight(q, s, offset, r) ==
    LET sx  == Local(s[1], offset[1], r)
        sy  == Local(s[2], offset[2], r)
        box == Touched(sx, Length(Full, r)[1], r) \X Touched(sy, Length(Full, r)[2], r)
    IN  IF q \in box THEN Weight(q[1], sx, r) * Weight(q[2], sy, r) ELSE 0

LEMMA SplatAdds ==
    ASSUME NEW buffer, NEW s, NEW offset, NEW r
    PROVE  /\ Splat(buffer, s, offset, Full, r) =
                [q \in DOMAIN buffer |-> buffer[q] + SplatWeight(q, s, offset, r)]
  BY DEF Splat, SplatWeight

\* A weight is a product over the axes.
LEMMA WeightByAxis ==
    ASSUME NEW r \in Radii, NEW b \in Grid, NEW s \in Positions(b),
           NEW x \in Int, NEW y \in Int
    PROVE  LET B == BorderSize(r)
               q == <<x + B - OffsetOf(b)[1], y + B - OffsetOf(b)[2]>>
           IN  /\ SplatWeight(q, s, OffsetOf(b), r) =
                    AxisShare(x, s[1], r) * AxisShare(y, s[2], r)
               /\ SplatWeight(q, s, OffsetOf(b), r) \in Nat
               /\ q \in Corner(b, r) \/ AxisShare(x, s[1], r) * AxisShare(y, s[2], r) = 0
  <1> DEFINE B  == BorderSize(r)
             ox == OffsetOf(b)[1]
             oy == OffsetOf(b)[2]
             ex == ExtentOf(b)[1]
             ey == ExtentOf(b)[2]
             i  == x + B - ox
             j  == y + B - oy
             sx == Local(s[1], ox, r)
             sy == Local(s[2], oy, r)
             tx == Touched(sx, BlockSize + 2 * B, r)
             ty == Touched(sy, BlockSize + 2 * B, r)
             u  == AxisShare(x, s[1], r)
             v  == AxisShare(y, s[2], r)
  <1>1. /\ ox \in Nat /\ oy \in Nat /\ ex \in Nat /\ ey \in Nat
        /\ ex <= BlockSize /\ ey <= BlockSize
        /\ ExtentOf(b) = <<ex, ey>>
    BY BlockFacts
  <1>2. /\ s[1] \in Int /\ ox * Unit <= s[1] /\ s[1] <= (ox + ex) * Unit
        /\ s[2] \in Int /\ oy * Unit <= s[2] /\ s[2] <= (oy + ey) * Unit
    BY PositionBounds
  <1>3. /\ AxisWeight(x, s[1], ox, r) = u
        /\ u \in Nat
        /\ i \in 0 .. ex + 2 * B - 1 \/ u = 0
    BY <1>1, <1>2, AxisIsShare
  <1>4. /\ AxisWeight(y, s[2], oy, r) = v
        /\ v \in Nat
        /\ j \in 0 .. ey + 2 * B - 1 \/ v = 0
    BY <1>1, <1>2, AxisIsShare
  <1>5. /\ AxisWeight(x, s[1], ox, r) = IF i \in tx THEN Weight(i, sx, r) ELSE 0
        /\ AxisWeight(y, s[2], oy, r) = IF j \in ty THEN Weight(j, sy, r) ELSE 0
    BY DEF AxisWeight
  <1>6. SplatWeight(<<i, j>>, s, OffsetOf(b), r) =
          IF i \in tx /\ j \in ty THEN Weight(i, sx, r) * Weight(j, sy, r) ELSE 0
    BY DEF SplatWeight, Length, Full
  <1>7. Corner(b, r) = (0 .. ex + 2 * B - 1) \X (0 .. ey + 2 * B - 1)
    BY <1>1, BufferOf DEF Corner
  <1> HIDE DEF B, ox, oy, ex, ey, i, j, sx, sy, tx, ty, u, v
  <1>8. u * v \in Nat /\ (u = 0 => u * v = 0) /\ (v = 0 => u * v = 0)
    BY <1>3, <1>4, ProductNat
  <1>9. SplatWeight(<<i, j>>, s, OffsetOf(b), r) = u * v
    <2>1. CASE i \in tx /\ j \in ty
      BY <2>1, <1>3, <1>4, <1>5, <1>6
    <2>2. CASE i \notin tx
      BY <2>2, <1>3, <1>5, <1>6, <1>8
    <2>3. CASE j \notin ty
      BY <2>3, <1>4, <1>5, <1>6, <1>8
    <2> QED
      BY <2>1, <2>2, <2>3
  <1>10. <<i, j>> \in Corner(b, r) \/ u * v = 0
    BY <1>3, <1>4, <1>7, <1>8
  <1> QED
    BY <1>8, <1>9, <1>10 DEF B, ox, oy, i, j, u, v

-----------------------------------------------------------------------------
(* Accesses.                                                               *)

\* The pixels within the radius are no more than the weights there is room for.
LEMMA WeightsFit ==
    ASSUME NEW r \in Nat \ {0}, NEW at \in Int, NEW length \in Nat
    PROVE  Cardinality(Touched(at, length, r)) <= WeightsLength(r)
  <1> DEFINE lo  == Larger(Ceil(at - r), 0)
             hi  == Smaller(Floor(at + r), length - 1)
             f   == Floor(at + r)
             c   == Ceil(at - r)
             two == Ceil(2 * r)
  <1>1. at + r \in Int /\ at - r \in Int /\ 2 * r \in Int
    OBVIOUS
  <1>2. f \in Int /\ f * Unit <= at + r
    <2>1. f \in Int
      BY <1>1, FloorBounds
    <2> QED
      BY <1>1, <2>1, FloorBounds
  <1>3. c \in Int /\ at - r <= c * Unit
    <2>1. c \in Int
      BY <1>1, CeilBounds
    <2> QED
      BY <1>1, <2>1, CeilBounds
  <1>4. two \in Int /\ 2 * r <= two * Unit
    <2>1. two \in Int
      BY <1>1, CeilBounds
    <2> QED
      BY <1>1, <2>1, CeilBounds
  <1>5. lo \in Int /\ hi \in Int /\ c <= lo /\ hi <= f
    BY <1>2, <1>3 DEF Larger, Smaller
  <1> HIDE DEF lo, hi, f, c, two
  <1>6. f - c <= two
    <2>1. (f - c) * Unit = f * Unit - c * Unit /\ f - c \in Int
      BY <1>2, <1>3, Spread, UnitAssumption
    <2>2. f * Unit \in Int /\ c * Unit \in Int /\ two * Unit \in Int
      BY <1>2, <1>3, <1>4, ProductInt, UnitAssumption
    <2>3. (f - c) * Unit <= two * Unit
      BY <1>1, <1>2, <1>3, <1>4, <2>1, <2>2
    <2> QED
      BY <1>4, <2>1, <2>3, MultiplesInOrder, UnitAssumption
  <1>7. 0 <= two
    <2>1. 0 * Unit = 0 /\ 0 * Unit <= two * Unit /\ two * Unit \in Int
      BY <1>4, ProductInt, UnitAssumption
    <2> QED
      BY <1>4, <2>1, MultiplesInOrder, UnitAssumption
  <1>8. Cardinality(lo .. hi) = IF lo > hi THEN 0 ELSE hi - lo + 1
    BY <1>5, FS_Interval
  <1>9. Cardinality(lo .. hi) <= two + 1
    BY <1>2, <1>3, <1>4, <1>5, <1>6, <1>7, <1>8
  <1> QED
    BY <1>9 DEF Touched, WeightsLength, lo, hi, two

LEMMA AxisAccesses ==
    ASSUME radius \in Radii, NEW o \in Nat, NEW s \in Int
    PROVE  AxisInBounds(s, o)
  <1> DEFINE B  == BorderSize(radius)
             at == Local(s, o, radius)
             length == BlockSize + 2 * B
  <1>1. radius \in Nat \ {0} /\ B \in Nat
    BY BorderBounds
  <1>2. length \in Nat
    BY <1>1, BlockSizeAssumption
  <1>3. at \in Int
    <2>1. (o - B) * Unit \in Int
      BY <1>1, ProductInt, UnitAssumption
    <2> QED
      BY <2>1, HalfUnit DEF Local
  <1> HIDE DEF at, length
  <1>4. Cardinality(Touched(at, length, radius)) <= WeightsLength(radius)
    BY <1>1, <1>2, <1>3, WeightsFit
  <1>5. ASSUME NEW i \in Touched(at, length, radius)
        PROVE  TableIndex(i, at, radius) \in 0 .. Resolution
    <2>1. i \in Int
      BY <1>1, <1>2, <1>3, FloorBounds, CeilBounds DEF Touched
    <2>2. Distance(i * Unit, at) <= radius
      <3>1. radius \in Nat /\ length \in Int
        BY <1>1, <1>2
      <3> QED
        BY <3>1, <1>3, <1>5, <2>1, TouchedWithinRadius
    <2>3. Distance(i * Unit, at) \in Nat
      BY <1>3, <2>1, ProductInt, UnitAssumption DEF Distance
    <2> QED
      BY <1>1, <2>2, <2>3, IndexBounds DEF TableIndex
  <1> QED
    BY <1>4, <1>5 DEF AxisInBounds, at, length

LEMMA BlockAccesses == TypeOK => AccessesInBounds
  <1> SUFFICES ASSUME TypeOK, block # NoBlock PROVE AccessesInBounds
    BY DEF AccessesInBounds
  <1>1. radius \in Radii /\ block \in Grid
    BY DEF TypeOK
  <1>2. ASSUME NEW s \in Positions(block)
        PROVE  /\ AxisInBounds(s[1], OffsetOf(block)[1])
               /\ AxisInBounds(s[2], OffsetOf(block)[2])
    <2>1. OffsetOf(block)[1] \in Nat /\ OffsetOf(block)[2] \in Nat
      BY <1>1, BlockFacts
    <2>2. s[1] \in Int /\ s[2] \in Int
      BY <1>1, PositionBounds
    <2> QED
      BY <1>1, <2>1, <2>2, AxisAccesses
  <1>3. DOMAIN tile = Buffer(Full, radius) /\ DOMAIN image = Buffer(Image, radius)
    BY DEF TypeOK
  <1>4. Corner(block, radius) \subseteq DOMAIN tile
    BY <1>1, <1>3, CornerInside
  <1>5. \A p \in Corner(block, radius) :
            <<p[1] + OffsetOf(block)[1], p[2] + OffsetOf(block)[2]>> \in DOMAIN image
    BY <1>1, <1>3, CornerInside
  <1> QED
    BY <1>2, <1>4, <1>5 DEF AccessesInBounds

-----------------------------------------------------------------------------
(* The invariant.                                                          *)

\* The image with the block under way, under pixel p.
Pending(p) ==
    LET q == <<p[1] + BorderSize(radius), p[2] + BorderSize(radius)>>
    IN  image[q] + IF block # NoBlock /\ Under(q, block) \in Corner(block, radius)
                   THEN tile[Under(q, block)] ELSE 0

IInv == TypeOK /\ \A p \in Pixels : Pending(p) = expected[p]

LEMMA NoBlockOutside == NoBlock \notin Grid
  BY DEF NoBlock, Grid

LEMMA CellNat ==
    ASSUME TypeOK, NEW b \in Grid, NEW q, Under(q, b) \in Corner(b, radius)
    PROVE  tile[Under(q, b)] \in Nat
  BY CornerInside DEF TypeOK

LEMMA PendingIsSum ==
    ASSUME TypeOK, NEW p \in Pixels
    PROVE  Pending(p) = (IF block = NoBlock THEN image ELSE Sum(image, block, tile, radius))
                            [<<p[1] + BorderSize(radius), p[2] + BorderSize(radius)>>]
  <1> DEFINE q == <<p[1] + BorderSize(radius), p[2] + BorderSize(radius)>>
  <1>1. q \in DOMAIN image /\ image[q] \in Nat
    BY PixelInImage DEF TypeOK
  <1> HIDE DEF q
  <1>2. CASE block = NoBlock
    BY <1>1, <1>2 DEF Pending, q
  <1>3. CASE block # NoBlock
    BY <1>1, <1>3 DEF Pending, Sum, q
  <1> QED
    BY <1>2, <1>3

LEMMA IInvLosesNothing == IInv => NothingLost
  BY PendingIsSum DEF IInv, NothingLost

LEMMA InitIInv == Init => IInv
  <1> SUFFICES ASSUME Init PROVE IInv
    OBVIOUS
  <1>1. TypeOK
    BY MaxSamplesAssumption DEF Init, TypeOK, Blank
  <1>2. ASSUME NEW p \in Pixels PROVE Pending(p) = expected[p]
    <2>1. radius \in Radii
      BY DEF Init
    <2>2. <<p[1] + BorderSize(radius), p[2] + BorderSize(radius)>> \in Buffer(Image, radius)
      BY <2>1, PixelInImage
    <2> QED
      BY <2>2 DEF Pending, Init, Blank
  <1> QED
    BY <1>1, <1>2 DEF IInv

\* A fresh block adds nothing.
LEMMA StartBlockKeeps == IInv /\ StartBlock => IInv'
  <1> SUFFICES ASSUME IInv, StartBlock PROVE IInv'
    OBVIOUS
  <1>1. /\ block = NoBlock /\ block' \in Grid
        /\ tile' = Blank(Full, radius)
        /\ UNCHANGED <<radius, image, samples, expected>>
    BY DEF StartBlock, IInv, TypeOK
  <1>2. TypeOK'
    <2>1. tile' \in [Buffer(Full, radius) -> Nat]
      BY <1>1 DEF Blank
    <2>2. left' \in SUBSET Grid
      BY DEF StartBlock, IInv, TypeOK
    <2> QED
      BY <1>1, <2>1, <2>2 DEF IInv, TypeOK
  <1>3. ASSUME NEW p \in Pixels PROVE Pending(p)' = expected'[p]
    <2> DEFINE q == <<p[1] + BorderSize(radius), p[2] + BorderSize(radius)>>
    <2>1. q \in Buffer(Image, radius) /\ image[q] \in Nat
      BY PixelInImage DEF IInv, TypeOK
    <2> HIDE DEF q
    <2>2. Under(q, block') \in Corner(block', radius) => tile'[Under(q, block')] = 0
      BY <1>1, CornerInside DEF Blank, IInv, TypeOK
    <2>3. Pending(p)' = image[q]
      BY <1>1, <2>1, <2>2 DEF Pending, q
    <2>4. Pending(p) = image[q]
      BY <1>1, <2>1 DEF Pending, q
    <2> QED
      BY <1>1, <2>3, <2>4 DEF IInv
  <1> QED
    BY <1>2, <1>3 DEF IInv

\* A sample adds to the buffer under a pixel what it is worth to that pixel.
LEMMA PutSampleKeeps == IInv /\ PutSample => IInv'
  <1> SUFFICES ASSUME IInv, PutSample PROVE IInv'
    OBVIOUS
  <1>1. PICK s \in Positions(block) :
          /\ tile' = Splat(tile, s, OffsetOf(block), Full, radius)
          /\ expected' = [p \in Pixels |-> expected[p] + Share(p, s, radius)]
    BY DEF PutSample
  <1>2. /\ block \in Grid /\ block # NoBlock
        /\ samples' \in 0 .. MaxSamples
        /\ UNCHANGED <<radius, image, block, left>>
    BY MaxSamplesAssumption DEF PutSample, IInv, TypeOK
  <1>3. /\ radius \in Radii
        /\ image \in [Buffer(Image, radius) -> Nat]
        /\ tile \in [Buffer(Full, radius) -> Nat]
        /\ expected \in [Pixels -> Nat]
    BY DEF IInv, TypeOK
  <1>4. tile' = [q \in Buffer(Full, radius) |->
                    tile[q] + SplatWeight(q, s, OffsetOf(block), radius)]
    BY <1>1, <1>3, SplatAdds
  <1>5. ASSUME NEW q \in Buffer(Full, radius)
        PROVE  SplatWeight(q, s, OffsetOf(block), radius) \in Nat
    <2> DEFINE x == q[1] + OffsetOf(block)[1] - BorderSize(radius)
               y == q[2] + OffsetOf(block)[2] - BorderSize(radius)
    <2>1. BorderSize(radius) \in Nat /\ OffsetOf(block)[1] \in Nat /\ OffsetOf(block)[2] \in Nat
      BY <1>2, <1>3, BorderBounds, BlockFacts
    <2>2. q = <<q[1], q[2]>> /\ q[1] \in Int /\ q[2] \in Int
      BY <1>3, <2>1, BufferOf, BlockSizeAssumption DEF Full
    <2>3. /\ x \in Int /\ y \in Int
          /\ x + BorderSize(radius) - OffsetOf(block)[1] = q[1]
          /\ y + BorderSize(radius) - OffsetOf(block)[2] = q[2]
      BY <2>1, <2>2
    <2> HIDE DEF x, y
    <2>4. SplatWeight(<<x + BorderSize(radius) - OffsetOf(block)[1],
                        y + BorderSize(radius) - OffsetOf(block)[2]>>,
                      s, OffsetOf(block), radius) \in Nat
      BY <1>2, <1>3, <2>3, WeightByAxis
    <2> QED
      BY <2>2, <2>3, <2>4
  <1>6. TypeOK'
    <2>1. tile' \in [Buffer(Full, radius) -> Nat]
      BY <1>3, <1>4, <1>5
    <2>2. expected' \in [Pixels -> Nat]
      BY <1>1, <1>2, <1>3, ShareNat
    <2> QED
      BY <1>2, <1>3, <2>1, <2>2 DEF IInv, TypeOK
  <1>7. ASSUME NEW p \in Pixels PROVE Pending(p)' = expected'[p]
    <2> DEFINE q == <<p[1] + BorderSize(radius), p[2] + BorderSize(radius)>>
               u == Under(q, block)
               w == SplatWeight(u, s, OffsetOf(block), radius)
    <2>1. p[1] \in Int /\ p[2] \in Int
      BY SizeAssumption DEF Pixels
    <2>2. u = <<p[1] + BorderSize(radius) - OffsetOf(block)[1],
                p[2] + BorderSize(radius) - OffsetOf(block)[2]>>
      BY <1>2, <1>3, <2>1, BorderBounds, BlockFacts DEF Under
    <2>3. /\ w = Share(p, s, radius)
          /\ u \in Corner(block, radius) \/ Share(p, s, radius) = 0
      BY <1>2, <1>3, <2>1, <2>2, WeightByAxis DEF Share, AxisShare
    <2>4. Share(p, s, radius) \in Nat
      BY <1>2, <1>3, ShareNat
    <2>5. expected'[p] = Pending(p) + Share(p, s, radius)
      BY <1>1 DEF IInv
    <2>6. image[q] \in Nat
      BY <1>3, PixelInImage
    <2>7. u \in Corner(block, radius) => tile[u] \in Nat /\ tile'[u] = tile[u] + w
      BY <1>2, <1>3, <1>4, CornerInside
    <2>8. Pending(p) = image[q] + IF u \in Corner(block, radius) THEN tile[u] ELSE 0
      BY <1>2 DEF Pending
    <2>9. Pending(p)' = image[q] + IF u \in Corner(block, radius) THEN tile'[u] ELSE 0
      BY <1>2 DEF Pending
    <2> HIDE DEF q, u, w
    <2> QED
      BY <2>3, <2>4, <2>5, <2>6, <2>7, <2>8, <2>9
  <1> QED
    BY <1>6, <1>7 DEF IInv

\* What was pending is in the image.
LEMMA PutBlockKeeps == IInv /\ PutBlock => IInv'
  <1> SUFFICES ASSUME IInv, PutBlock PROVE IInv'
    OBVIOUS
  <1>1. /\ block \in Grid /\ block # NoBlock /\ block' = NoBlock
        /\ image' = Sum(image, block, tile, radius)
        /\ UNCHANGED <<radius, tile, left, samples, expected>>
    BY DEF PutBlock, IInv, TypeOK
  <1>2. TypeOK /\ image \in [Buffer(Image, radius) -> Nat] /\ radius \in Radii
    BY DEF IInv, TypeOK
  <1>3. ASSUME NEW q \in Buffer(Image, radius)
        PROVE  /\ image[q] \in Nat
               /\ Under(q, block) \in Corner(block, radius) => tile[Under(q, block)] \in Nat
               /\ image'[q] = image[q] + IF Under(q, block) \in Corner(block, radius)
                                         THEN tile[Under(q, block)] ELSE 0
    BY <1>1, <1>2, CellNat DEF Sum
  <1>4. TypeOK'
    <2>1. image' \in [Buffer(Image, radius) -> Nat]
      <3>1. image' = [q \in Buffer(Image, radius) |-> image'[q]]
        BY <1>1, <1>2 DEF Sum
      <3>2. \A q \in Buffer(Image, radius) : image'[q] \in Nat
        BY <1>3
      <3> QED
        BY <3>1, <3>2
    <2> QED
      BY <1>1, <1>2, <2>1 DEF TypeOK
  <1>5. ASSUME NEW p \in Pixels PROVE Pending(p)' = expected'[p]
    <2> DEFINE q == <<p[1] + BorderSize(radius), p[2] + BorderSize(radius)>>
    <2>1. q \in Buffer(Image, radius)
      BY <1>2, PixelInImage
    <2>2. Pending(p) = image'[q]
      BY <1>1, <1>3, <2>1 DEF Pending
    <2>3. image'[q] \in Nat
      BY <1>4, <1>1, <2>1 DEF TypeOK
    <2>4. Pending(p)' = image'[q]
      <3> HIDE DEF q
      <3> QED
        BY <1>1, <2>3 DEF Pending, q
    <2> QED
      BY <1>1, <2>2, <2>4 DEF IInv
  <1> QED
    BY <1>4, <1>5 DEF IInv

LEMMA NextIInv == IInv /\ [Next]_vars => IInv'
  <1> SUFFICES ASSUME IInv, [Next]_vars PROVE IInv'
    OBVIOUS
  <1>1. CASE StartBlock
    BY <1>1, StartBlockKeeps
  <1>2. CASE PutSample
    BY <1>2, PutSampleKeeps
  <1>3. CASE PutBlock
    BY <1>3, PutBlockKeeps
  <1>4. CASE UNCHANGED vars
    <2>1. TypeOK'
      BY <1>4 DEF IInv, TypeOK, vars
    <2>2. ASSUME NEW p \in Pixels PROVE Pending(p)' = expected'[p]
      <3>1. Pending(p)' = Pending(p) /\ expected' = expected
        BY <1>4 DEF Pending, vars
      <3> QED
        BY <3>1 DEF IInv
    <2> QED
      BY <2>1, <2>2 DEF IInv
  <1> QED
    BY <1>1, <1>2, <1>3, <1>4 DEF Next, Finished

\* At every step, each pixel of the merged image and the block under way hold together
\* what the samples so far are worth to it.
THEOREM Invariance == Spec => []IInv
  <1> QED
    BY InitIInv, NextIInv, PTL DEF Spec

-----------------------------------------------------------------------------
(* What ImageBlock promises.                                               *)

\* The buffers keep the size the constructor gave them and hold no negative
\* weight, whatever blocks they stand for.
THEOREM TypeCorrect == Spec => []TypeOK
  <1>1. IInv => TypeOK
    BY DEF IInv
  <1> QED
    BY <1>1, Invariance, PTL

\* Rendering in blocks is invisible, for any filter radius: each pixel holds
\* exactly what the samples recorded so far are worth to it, whichever blocks
\* they fell into and in whatever order the blocks were merged.
THEOREM BlocksInvisible == Spec => []NothingLost
  <1> QED
    BY Invariance, IInvLosesNothing, PTL

\* put() stays within the weights, the filter table and both buffers.
THEOREM PutInBounds == Spec => []AccessesInBounds
  <1> QED
    BY TypeCorrect, BlockAccesses, PTL
=============================================================================
