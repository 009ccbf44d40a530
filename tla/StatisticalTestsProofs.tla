------------------------ MODULE StatisticalTestsProofs ------------------------
(***************************************************************************)
(* The two statistical tests, for every resolution, number of samples and   *)
(* list of references.                                                      *)
(***************************************************************************)
EXTENDS MCStatisticalTests, Sequences, WellFoundedInduction, FiniteSetTheorems, TLAPS

\* Every set of numbers has a least.
LEMMA LeastNat ==
    ASSUME NEW T, T \subseteq Nat, T # {}
    PROVE  \E n \in T : \A m \in T : n <= m
  <1> DEFINE R == {ss \in Nat \X Nat : ss[1] < ss[2]}
  <1>1. IsWellFoundedOn(R, Nat)
    BY NatLessThanWellFounded DEF OpToRel
  <1>2. PICK n \in T : \A m \in T : ~(<<m, n>> \in R)
    <2> HIDE DEF R
    <2> QED
      BY <1>1, WFMin
  <1>3. ASSUME NEW m \in T PROVE n <= m
    <2>1. <<m, n>> \in Nat \X Nat /\ m \in Nat /\ n \in Nat
      OBVIOUS
    <2>2. ~(m < n)
      BY <1>2, <2>1
    <2> QED
      BY <2>1, <2>2
  <1> QED
    BY <1>3

\* A function from the sets of cells to the sums over them. FoldFunction takes
\* the cells in the order of CHOOSE; of its sum no more is known than this.
Pick(S) == CHOOSE x \in S : TRUE
Adds(g, f) ==
  g = [S \in SUBSET Cells |-> IF S = {} THEN 0 ELSE f[Pick(S)] + g[S \ {Pick(S)}]]

LEMMA FoldIs ==
    ASSUME NEW f, DOMAIN f = Cells, \E g : Adds(g, f)
    PROVE  \E g : Adds(g, f) /\ FoldFunction(LAMBDA a, b : a + b, 0, f) = g[Cells]
  <1> DEFINE G == CHOOSE g : g = [S \in SUBSET Cells |->
                                   IF S = {} THEN 0 ELSE f[Pick(S)] + g[S \ {Pick(S)}]]
  <1>1. Adds(G, f)
    BY DEF Adds
  <1>2. FoldFunction(LAMBDA a, b : a + b, 0, f) = G[Cells]
    BY DEF FoldFunction, FoldFunctionOnSet, MapThenFoldSet, Pick
  <1> QED
    BY <1>1, <1>2

\* Induction over the sets of cells, one cell removed at a time.
LEMMA ByRemoval ==
    ASSUME IsFiniteSet(Cells), NEW U, {} \in U,
           \A S \in SUBSET Cells : S # {} /\ S \ {Pick(S)} \in U => S \in U
    PROVE  SUBSET Cells \subseteq U
  <1> DEFINE Bad == {n \in Nat : \E S \in SUBSET Cells : Cardinality(S) = n /\ S \notin U}
  <1>1. \A S \in SUBSET Cells : IsFiniteSet(S) /\ Cardinality(S) \in Nat
    BY FS_Subset, FS_CardinalityType
  <1>2. CASE Bad = {}
    BY <1>1, <1>2
  <1>3. CASE Bad # {}
    <2>1. PICK n \in Bad : \A m \in Bad : n <= m
      <3>1. Bad \subseteq Nat
        OBVIOUS
      <3> HIDE DEF Bad
      <3> QED
        BY <1>3, <3>1, LeastNat
    <2>2. PICK S \in SUBSET Cells : Cardinality(S) = n /\ S \notin U
      BY <2>1
    <2> DEFINE T == S \ {Pick(S)}
    <2>3. S # {} /\ Pick(S) \in S /\ T \in SUBSET Cells
      BY <2>2 DEF Pick
    <2>4. Cardinality(T) = n - 1 /\ Cardinality(T) \in Nat /\ n \in Nat
      BY <1>1, <2>2, <2>3, FS_RemoveElement
    <2>5. T \notin U
      BY <2>2, <2>3
    <2> HIDE DEF T
    <2>6. Cardinality(T) \in Bad
      BY <2>3, <2>4, <2>5
    <2> QED
      BY <2>1, <2>4, <2>6
  <1> QED
    BY <1>2, <1>3

\* The sums are numbers, and determined by the function.
LEMMA SumsAreNumbers ==
    ASSUME IsFiniteSet(Cells), NEW f \in [Cells -> Nat], NEW g, Adds(g, f)
    PROVE  \A S \in SUBSET Cells : g[S] \in Nat
  <1> DEFINE U == {S \in SUBSET Cells : g[S] \in Nat}
  <1>1. {} \in U
    BY DEF Adds
  <1>2. ASSUME NEW S \in SUBSET Cells, S # {}, S \ {Pick(S)} \in U PROVE S \in U
    <2>1. Pick(S) \in Cells
      BY <1>2 DEF Pick
    <2>2. g[S] = f[Pick(S)] + g[S \ {Pick(S)}]
      BY <1>2 DEF Adds
    <2>3. f[Pick(S)] \in Nat /\ g[S \ {Pick(S)}] \in Nat
      BY <1>2, <2>1
    <2> QED
      BY <2>2, <2>3
  <1>3. SUBSET Cells \subseteq U
    <2> HIDE DEF U
    <2> QED
      BY <1>1, <1>2, ByRemoval
  <1> QED
    BY <1>3

LEMMA SumsAreUnique ==
    ASSUME IsFiniteSet(Cells), NEW f, NEW g, NEW e, Adds(g, f), Adds(e, f)
    PROVE  g[Cells] = e[Cells]
  <1> DEFINE U == {S \in SUBSET Cells : g[S] = e[S]}
  <1>1. {} \in U
    BY DEF Adds
  <1>2. ASSUME NEW S \in SUBSET Cells, S # {}, S \ {Pick(S)} \in U PROVE S \in U
    <2>1. g[S] = f[Pick(S)] + g[S \ {Pick(S)}]
      BY <1>2 DEF Adds
    <2>2. e[S] = f[Pick(S)] + e[S \ {Pick(S)}]
      BY <1>2 DEF Adds
    <2> QED
      BY <1>2, <2>1, <2>2
  <1>3. SUBSET Cells \subseteq U
    <2> HIDE DEF U
    <2> QED
      BY <1>1, <1>2, ByRemoval
  <1> QED
    BY <1>3

\* There is a sum, and it is n.
SumIs(f, n) ==
  /\ \E g : Adds(g, f)
  /\ \A g : Adds(g, f) => g[Cells] = n

\* Nothing counted.
LEMMA ZeroSum ==
    ASSUME IsFiniteSet(Cells)
    PROVE  SumIs(Zero, 0)
  <1>1. \A S \in SUBSET Cells : S # {} => Pick(S) \in Cells /\ S \ {Pick(S)} \in SUBSET Cells
    BY DEF Pick
  <1> DEFINE e == [S \in SUBSET Cells |-> 0]
  <1>2. Adds(e, Zero) /\ e[Cells] = 0
    BY <1>1 DEF Adds, Zero
  <1> HIDE DEF e
  <1>3. \A g : Adds(g, Zero) => g[Cells] = 0
    BY <1>2, SumsAreUnique
  <1> QED
    BY <1>2, <1>3 DEF SumIs

\* One more in a cell is one more in every set that has the cell.
OneMore(h, f, c) == h = [f EXCEPT ![c] = @ + 1]
Share(S, c) == IF c \in S THEN 1 ELSE 0

LEMMA CountOneMore ==
    ASSUME IsFiniteSet(Cells), NEW f \in [Cells -> Nat], NEW c \in Cells,
           NEW h, OneMore(h, f, c), NEW n \in Nat, SumIs(f, n)
    PROVE  /\ h \in [Cells -> Nat]
           /\ SumIs(h, n + 1)
  <1>1. /\ h \in [Cells -> Nat] /\ h[c] = f[c] + 1
        /\ \A x \in Cells : x # c => h[x] = f[x]
        /\ \A x \in Cells : f[x] \in Nat
    BY DEF OneMore
  <1>2. PICK g : Adds(g, f) /\ g[Cells] = n
    BY DEF SumIs
  <1>3. \A S \in SUBSET Cells : g[S] \in Nat
    BY <1>2, SumsAreNumbers
  <1> DEFINE e == [S \in SUBSET Cells |-> g[S] + Share(S, c)]
  <1>4. ASSUME NEW S \in SUBSET Cells
        PROVE  e[S] = IF S = {} THEN 0 ELSE h[Pick(S)] + e[S \ {Pick(S)}]
    <2>1. CASE S = {}
      <3>1. g[S] = 0
        BY <1>2, <2>1 DEF Adds
      <3> QED
        BY <2>1, <3>1 DEF Share
    <2>2. CASE S # {}
      <3> DEFINE p == Pick(S)
                 T == S \ {p}
      <3>1. p \in S /\ p \in Cells /\ T \in SUBSET Cells
        BY <2>2 DEF Pick
      <3>2. g[S] = f[p] + g[T]
        BY <1>2, <2>2 DEF Adds
      <3>3. h[p] + Share(T, c) = f[p] + Share(S, c)
        <4>1. f[p] \in Nat
          BY <1>1, <3>1
        <4>2. CASE p = c
          BY <1>1, <3>1, <4>1, <4>2 DEF Share
        <4>3. CASE p # c
          <5>1. h[p] = f[p] /\ (c \in T <=> c \in S)
            BY <1>1, <3>1, <4>3
          <5> HIDE DEF p, T
          <5> QED
            BY <5>1 DEF Share
        <4> QED
          BY <4>2, <4>3
      <3>4. f[p] \in Nat /\ h[p] \in Nat /\ g[T] \in Nat
        BY <1>1, <1>3, <3>1
      <3>5. Share(S, c) \in Nat /\ Share(T, c) \in Nat
        BY DEF Share
      <3>6. e[S] = g[S] + Share(S, c) /\ e[T] = g[T] + Share(T, c)
        BY <3>1
      <3> HIDE DEF e
      <3>7. e[S] = h[p] + e[T]
        <4> HIDE DEF p, T
        <4> QED
          BY <3>2, <3>3, <3>4, <3>5, <3>6
      <3> QED
        BY <2>2, <3>7
    <2> QED
      BY <2>1, <2>2
  <1>5. Adds(e, h) /\ e[Cells] = n + 1
    <2>1. e = [S \in SUBSET Cells |-> e[S]]
      OBVIOUS
    <2>2. e[Cells] = n + 1
      BY <1>2 DEF Share
    <2> HIDE DEF e
    <2> QED
      BY <1>4, <2>1, <2>2 DEF Adds
  <1> HIDE DEF e
  <1>6. \A k : Adds(k, h) => k[Cells] = n + 1
    BY <1>5, SumsAreUnique
  <1> QED
    BY <1>1, <1>5, <1>6 DEF SumIs

-------------------------------------------------------------------------------
(* The cell of a direction                                                 *)

LEMMA FiniteTable == IsFiniteSet(Cells)
  <1>1. Resolution * PhiResolution - 1 \in Int
    BY ChiSquareAssumption DEF PhiResolution
  <1> QED
    BY <1>1, FS_Interval DEF Cells

LEMMA BinInTable ==
    ASSUME NEW count \in Nat \ {0}, NEW half \in 0..(2 * count)
    PROVE  /\ Bin(half, count) \in 0..(count - 1)
           /\ half \in (2 * Bin(half, count))..(2 * Bin(half, count) + 2)
  BY DEF Bin, Clamp

LEMMA RowAndColumn ==
    ASSUME NEW P \in Nat \ {0}, NEW q \in 0..(P - 1), NEW r \in Nat
    PROVE  (r * P + q) \div P = r /\ (r * P + q) % P = q
  <1> DEFINE n == r * P + q
             k == n \div P
             m == n % P
  <1>1. n \in Nat /\ r * P \in Nat
    OBVIOUS
  <1>2. k \in Int /\ m \in 0..(P - 1) /\ n = P * k + m
    BY <1>1
  <1>3. P * k + m = P * r + q
    BY <1>2
  <1> HIDE DEF k, m
  <1>4. CASE k < r
    <2>1. k + 1 <= r
      BY <1>2, <1>4
    <2>2. P * (k + 1) <= P * r
      BY <1>2, <2>1
    <2>3. P * (k + 1) = P * k + P
      BY <1>2
    <2> QED
      BY <1>2, <1>3, <2>2, <2>3
  <1>5. CASE k > r
    <2>1. r + 1 <= k
      BY <1>2, <1>5
    <2>2. P * (r + 1) <= P * k
      BY <1>2, <2>1
    <2>3. P * (r + 1) = P * r + P
      BY <1>2
    <2> QED
      BY <1>2, <1>3, <2>2, <2>3
  <1>6. CASE k = r
    BY <1>2, <1>3, <1>6 DEF k, m
  <1> QED
    BY <1>2, <1>4, <1>5, <1>6

\* A direction has a cell, in the row and the column its bins name.
LEMMA CellInTable ==
    ASSUME NEW d \in Directions
    PROVE  /\ Cell(d) \in Cells
           /\ Cell(d) \div PhiResolution = Bin(d[1], Resolution)
           /\ Cell(d) % PhiResolution = Bin(d[2], PhiResolution)
           /\ d[1] \in (2 * Bin(d[1], Resolution))..(2 * Bin(d[1], Resolution) + 2)
           /\ d[2] \in (2 * Bin(d[2], PhiResolution))..(2 * Bin(d[2], PhiResolution) + 2)
  <1> DEFINE P == PhiResolution
             r == Bin(d[1], Resolution)
             q == Bin(d[2], P)
  <1>1. Resolution \in Nat \ {0} /\ P \in Nat \ {0}
    BY ChiSquareAssumption DEF PhiResolution
  <1>2. d[1] \in 0..(2 * Resolution) /\ d[2] \in 0..(2 * P)
    BY DEF Directions
  <1>3. r \in 0..(Resolution - 1) /\ d[1] \in (2 * r)..(2 * r + 2)
    BY <1>1, <1>2, BinInTable
  <1>4. q \in 0..(P - 1) /\ d[2] \in (2 * q)..(2 * q + 2)
    BY <1>1, <1>2, BinInTable
  <1>5. Cell(d) = r * P + q
    BY DEF Cell
  <1> HIDE DEF P, r, q
  <1>6. (r * P + q) \div P = r /\ (r * P + q) % P = q
    <2>1. P \in Nat \ {0} /\ q \in 0..(P - 1) /\ r \in Nat
      BY <1>1, <1>3, <1>4
    <2> QED
      BY ONLY <2>1, RowAndColumn, Zenon
  <1>7. r * P + q \in 0..(Resolution * P - 1)
    <2>1. r * P \in Nat /\ Resolution * P \in Nat
      BY <1>1, <1>3
    <2>2. r * P <= (Resolution - 1) * P
      BY <1>1, <1>3
    <2>3. (Resolution - 1) * P = Resolution * P - P
      BY <1>1
    <2> QED
      BY <1>1, <1>4, <2>1, <2>2, <2>3
  <1> QED
    BY <1>3, <1>4, <1>5, <1>6, <1>7 DEF P, r, q, Cells

-------------------------------------------------------------------------------
(* The chi-square test                                                     *)

\* Every sample is drawn in a direction, and at most one for each number.
DrawnOnce ==
  /\ sample \in Nat
  /\ IsFiniteSet(drawn)
  /\ drawn \subseteq (0..(sample - 1)) \X Directions

\* The observed table counts what was drawn.
Counted ==
  /\ obs \in [Cells -> Nat]
  /\ SumIs(obs, Cardinality(drawn))

\* An entry of the expected table is empty, or has the rectangle of its place.
Expected ==
  \A c \in Cells : exp[c] # <<>> => exp[c] = <<c \div PhiResolution, c % PhiResolution>>

ChiSquareInv == DrawnOnce /\ Counted /\ Expected /\ DOMAIN exp = Cells

LEMMA ChiSquareStarts ==
    ASSUME obs = Zero, exp = NotIntegrated, drawn = {}, sample = 0
    PROVE  ChiSquareInv
  <1>1. IsFiniteSet({}) /\ Cardinality({}) = 0
    BY FS_EmptySet
  <1>2. DrawnOnce
    BY <1>1 DEF DrawnOnce
  <1>3. Counted
    <2>1. obs \in [Cells -> Nat]
      BY DEF Zero
    <2> QED
      BY <1>1, <2>1, FiniteTable, ZeroSum DEF Counted
  <1>4. Expected /\ DOMAIN exp = Cells
    BY DEF Expected, NotIntegrated
  <1> QED
    BY <1>2, <1>3, <1>4 DEF ChiSquareInv

\* A counted direction is new, and has its cell.
LEMMA DrawKeeps ==
    ASSUME ChiSquareInv, NEW d \in Directions, Draw(d)
    PROVE  ChiSquareInv'
  <1>1. /\ sample \in Nat /\ IsFiniteSet(drawn)
        /\ drawn \subseteq (0..(sample - 1)) \X Directions
        /\ sample' = sample + 1 /\ drawn' = drawn \cup {<<sample, d>>}
    BY DEF ChiSquareInv, DrawnOnce, Draw
  <1>2. <<sample, d>> \notin drawn
    BY <1>1
  <1>3. IsFiniteSet(drawn') /\ Cardinality(drawn') = Cardinality(drawn) + 1
    BY <1>1, <1>2, FS_AddElement
  <1>4. DrawnOnce'
    <2>1. drawn' \subseteq (0..(sample' - 1)) \X Directions
      BY <1>1
    <2> QED
      BY <1>1, <1>3, <2>1 DEF DrawnOnce
  <1>5. Counted'
    <2>1. Cell(d) \in Cells
      BY CellInTable
    <2>2. OneMore(obs', obs, Cell(d))
      BY <2>1 DEF Draw, OneMore
    <2>3. obs \in [Cells -> Nat] /\ SumIs(obs, Cardinality(drawn)) /\ Cardinality(drawn) \in Nat
      BY <1>1, FS_CardinalityType DEF ChiSquareInv, Counted
    <2>4. obs' \in [Cells -> Nat] /\ SumIs(obs', Cardinality(drawn) + 1)
      BY <2>1, <2>2, <2>3, FiniteTable, CountOneMore
    <2> QED
      BY <1>3, <2>4 DEF Counted
  <1>6. (Expected /\ DOMAIN exp = Cells)'
    BY DEF ChiSquareInv, Expected, Draw
  <1> QED
    BY <1>4, <1>5, <1>6 DEF ChiSquareInv

LEMMA IntegrateKeeps ==
    ASSUME ChiSquareInv, Integrate
    PROVE  ChiSquareInv'
  <1>1. (DrawnOnce /\ Counted)'
    BY DEF ChiSquareInv, Integrate, DrawnOnce, Counted
  <1>2. DOMAIN exp' = Cells
    BY DEF ChiSquareInv, Integrate
  <1>3. Expected'
    BY DEF ChiSquareInv, Integrate, Expected
  <1> QED
    BY <1>1, <1>2, <1>3 DEF ChiSquareInv

LEMMA ChiSquareKeeps ==
    ASSUME ChiSquareInv, [TestNext]_<<vars, ttestVars>>
    PROVE  ChiSquareInv'
  <1>1. ASSUME UNCHANGED vars PROVE ChiSquareInv'
    BY <1>1 DEF ChiSquareInv, DrawnOnce, Counted, Expected, vars
  <1>2. ASSUME NEW d \in Directions, Draw(d) PROVE ChiSquareInv'
    BY <1>2, DrawKeeps
  <1>3. ASSUME DrawNothing PROVE ChiSquareInv'
    <2>1. (Counted /\ Expected /\ DOMAIN exp = Cells)'
      BY <1>3 DEF DrawNothing, ChiSquareInv, Counted, Expected
    <2>2. DrawnOnce'
      BY <1>3 DEF DrawNothing, ChiSquareInv, DrawnOnce
    <2> QED
      BY <2>1, <2>2 DEF ChiSquareInv
  <1>4. ASSUME Integrate PROVE ChiSquareInv'
    BY <1>4, IntegrateKeeps
  <1>5. ASSUME Compare PROVE ChiSquareInv'
    <2>1. (obs = Zero /\ exp = NotIntegrated /\ drawn = {} /\ sample = 0)'
      BY <1>5 DEF Compare, Cleared, Zero, NotIntegrated
    <2> QED
      BY <2>1, ChiSquareStarts, PTL
  <1>6. ASSUME Finish PROVE ChiSquareInv'
    BY <1>6 DEF Finish, ChiSquareInv, DrawnOnce, Counted, Expected
  <1> QED
    BY <1>1, <1>2, <1>3, <1>4, <1>5, <1>6 DEF TestNext, Next

\* What the chi-square tables hold, whichever test the object makes.
THEOREM TablesAreCounted == TestSpec => []ChiSquareInv
  <1>1. TestInit => ChiSquareInv
    BY ChiSquareStarts DEF TestInit, Init
  <1>2. ChiSquareInv /\ [TestNext]_<<vars, ttestVars>> => ChiSquareInv'
    BY ChiSquareKeeps
  <1> QED
    BY <1>1, <1>2, PTL DEF TestSpec

\* The observed table that chi2test.cpp 176 compares counts every weighted
\* sample of its own test, the directions on the edges of the table included.
THEOREM EachSampleIsCounted == TestSpec => []CountsThisTest
  <1>1. ASSUME ChiSquareInv PROVE CountsThisTest
    <2>1. DOMAIN obs = Cells /\ SumIs(obs, Cardinality(drawn))
      BY <1>1 DEF ChiSquareInv, Counted
    <2>2. \E g : Adds(g, obs) /\ FoldFunction(LAMBDA a, b : a + b, 0, obs) = g[Cells]
      BY <2>1, FoldIs DEF SumIs
    <2> QED
      BY <2>1, <2>2 DEF SumIs, CountsThisTest
  <1> QED
    BY <1>1, TablesAreCounted, PTL

\* The entry a sample is counted in is the one whose expected frequency was
\* integrated over a rectangle with its direction, poles and seam included.
THEOREM ObservedMeetsExpected == TestSpec => []SameCell
  <1>1. ASSUME ChiSquareInv PROVE SameCell
    <2> SUFFICES ASSUME NEW s \in drawn, exp[Cell(s[2])] # <<>>
                 PROVE  /\ s[2][1] \in (2 * exp[Cell(s[2])][1])..(2 * exp[Cell(s[2])][1] + 2)
                        /\ s[2][2] \in (2 * exp[Cell(s[2])][2])..(2 * exp[Cell(s[2])][2] + 2)
      BY DEF SameCell
    <2>1. s[2] \in Directions
      BY <1>1 DEF ChiSquareInv, DrawnOnce
    <2>2. exp[Cell(s[2])] = <<Bin(s[2][1], Resolution), Bin(s[2][2], PhiResolution)>>
      BY <1>1, <2>1, CellInTable DEF ChiSquareInv, Expected
    <2> QED
      BY <2>1, <2>2, CellInTable
  <1> QED
    BY <1>1, TablesAreCounted, PTL

-------------------------------------------------------------------------------
(* The t-test                                                              *)

Outcomes == [subject : Nat, angle : Nat, reference : Nat, passed : BOOLEAN]

\* What the object was given; a second material is another matter (README).
Lists == bsdfs \in 0..1 /\ {scenes, angles, references} \subseteq Nat

\* Where the loops are, and how many references they have consumed.
Position ==
  /\ subject \in 0..TT!Subjects /\ i \in 0..TT!PerSubject
  /\ subject = TT!Subjects => i = 0
  /\ ctr = IF TT!TestsBsdfs THEN IF subject = 0 THEN i ELSE references ELSE subject + i

\* Each test has an entry of its own, with the angle or the scene of that index.
InOrder ==
  /\ tests \in Seq(Outcomes) /\ Len(tests) = ctr
  /\ \A t \in 1..ctr : /\ tests[t].reference = t - 1
                       /\ t - 1 = IF TT!TestsBsdfs THEN tests[t].angle ELSE tests[t].subject

\* Nothing is tested before the lists are checked.
CheckedFirst == ctr # 0 => TT!Admissible

Verdict ==
  verdict = "returned" => /\ TT!Admissible /\ ctr = references
                          /\ \A t \in 1..ctr : tests[t].passed

TTestInv == Lists /\ Position /\ InOrder /\ CheckedFirst /\ Verdict

\* The tests made so far fit in the list of references.
LEMMA ReferencesSuffice ==
    ASSUME Lists, Position, TT!Admissible
    PROVE  /\ ctr \in 0..references
           /\ TT!TestsBsdfs => angles = references
           /\ subject = TT!Subjects => ctr = references
  <1>1. CASE bsdfs = 1
    <2>1. references * 1 = references
      BY DEF Lists
    <2> QED
      BY <1>1, <2>1 DEF Lists, Position, TT!Admissible, TT!TestsBsdfs, TT!Subjects, TT!PerSubject
  <1>2. CASE bsdfs = 0
    BY <1>2 DEF Lists, Position, TT!Admissible, TT!TestsBsdfs, TT!Subjects, TT!PerSubject
  <1> QED
    BY <1>1, <1>2 DEF Lists

\* The instance of TTest has its own instance of FiniteSets.
LEMMA OneCardinality == \A S : TT!Cardinality(S) = Cardinality(S)
  BY DEF TT!Cardinality, Cardinality

\* When as many have passed as there were tests, all have.
LEMMA AllPassed ==
    ASSUME tests \in Seq(Outcomes), ~TT!SomeFailed
    PROVE  \A t \in 1..Len(tests) : tests[t].passed
  <1> DEFINE S == {t \in DOMAIN tests : tests[t].passed}
             n == Len(tests)
  <1>1. DOMAIN tests = 1..n /\ n \in Nat
    OBVIOUS
  <1>2. S \subseteq 1..n
    BY <1>1
  <1>3. IsFiniteSet(1..n) /\ Cardinality(1..n) = n
    BY <1>1, FS_Interval
  <1>4. ~(Cardinality(S) < n)
    BY OneCardinality DEF TT!SomeFailed, TT!Passed
  <1> HIDE DEF S, n
  <1>5. S = 1..n
    <2>1. /\ Cardinality(S) <= n
          /\ n = Cardinality(S) => 1..n = S
          /\ IsFiniteSet(S)
      <3>1. S \in SUBSET (1..n)
        BY <1>2
      <3> QED
        <4> DEFINE B == 1..n
        <4>1. IsFiniteSet(B) /\ S \in SUBSET B /\ Cardinality(B) = n
          BY <1>3, <3>1
        <4> HIDE DEF B
        <4>2. /\ Cardinality(S) <= Cardinality(B)
              /\ Cardinality(B) = Cardinality(S) => B = S
              /\ IsFiniteSet(S)
          BY ONLY <4>1, FS_Subset
        <4> QED
          BY <4>1, <4>2 DEF B
    <2>2. Cardinality(S) \in Nat
      BY <2>1, FS_CardinalityType
    <2> QED
      BY <1>1, <1>4, <2>1, <2>2
  <1> QED
    BY <1>5 DEF S, n

LEMMA TTestStarts ==
    ASSUME MaxBsdfs \in 0..1, {MaxScenes, MaxValues} \subseteq Nat, TestInit
    PROVE  TTestInv
  <1>1. Lists
    BY DEF TestInit, TT!Init, Lists
  <1>2. subject = 0 /\ i = 0 /\ ctr = 0 /\ tests = <<>> /\ verdict # "returned"
    BY DEF TestInit, TT!Init
  <1>3. Position
    BY <1>1, <1>2 DEF Lists, Position, TT!Subjects, TT!PerSubject, TT!TestsBsdfs
  <1> QED
    BY <1>1, <1>2, <1>3 DEF TTestInv, InOrder, CheckedFirst, Verdict

LEMMA TestKeeps ==
    ASSUME TTestInv, TT!Test
    PROVE  TTestInv'
  <1>1. /\ verdict = "running" /\ verdict' = "running" /\ TT!Admissible
        /\ subject < TT!Subjects /\ i < TT!PerSubject /\ subject' = subject
        /\ ctr' = ctr + 1 /\ i' = i + 1
        /\ bsdfs' = bsdfs /\ scenes' = scenes /\ angles' = angles /\ references' = references
    BY DEF TT!Test, TT!given
  <1>2. PICK ok \in BOOLEAN :
          tests' = Append(tests, [subject |-> subject, angle |-> TT!AngleOf(i),
                                  reference |-> ctr, passed |-> ok])
    BY DEF TT!Test, TT!ReferenceOf
  <1>3. /\ Lists' /\ Verdict' /\ CheckedFirst'
        /\ TT!Subjects' = TT!Subjects /\ TT!PerSubject' = TT!PerSubject
        /\ TT!TestsBsdfs' = TT!TestsBsdfs
    BY <1>1 DEF TTestInv, Lists, Verdict, CheckedFirst, TT!Admissible, TT!Subjects,
                TT!PerSubject, TT!TestsBsdfs
  <1>4. /\ bsdfs \in 0..1 /\ scenes \in Nat /\ references \in Nat
        /\ subject \in Nat /\ i \in Nat /\ ctr \in Nat
        /\ TT!TestsBsdfs => subject = 0 /\ ctr = i
        /\ ~TT!TestsBsdfs => i = 0 /\ ctr = subject
        /\ TT!Subjects \in Nat /\ TT!PerSubject \in Nat
    BY <1>1 DEF TTestInv, Lists, Position, TT!Subjects, TT!PerSubject, TT!TestsBsdfs
  <1>5. Position'
    BY <1>1, <1>3, <1>4 DEF Position
  <1>6. InOrder'
    <2> DEFINE t0 == [subject |-> subject, angle |-> TT!AngleOf(i),
                      reference |-> ctr, passed |-> ok]
    <2>1. /\ t0 \in Outcomes /\ t0.reference = ctr
          /\ ctr = IF TT!TestsBsdfs THEN t0.angle ELSE t0.subject
      BY <1>4 DEF Outcomes, TT!AngleOf
    <2> HIDE DEF t0
    <2>2. tests' = Append(tests, t0)
      BY <1>2 DEF t0
    <2>3. tests \in Seq(Outcomes) /\ Len(tests) = ctr
      BY DEF TTestInv, InOrder
    <2>4. /\ tests' \in Seq(Outcomes) /\ Len(tests') = ctr + 1
          /\ tests'[ctr + 1] = t0
          /\ \A t \in 1..ctr : tests'[t] = tests[t]
      BY <1>4, <2>1, <2>2, <2>3
    <2>5. ASSUME NEW t \in 1..(ctr + 1)
          PROVE  /\ tests'[t].reference = t - 1
                 /\ t - 1 = IF TT!TestsBsdfs THEN tests'[t].angle ELSE tests'[t].subject
      <3>1. CASE t = ctr + 1
        BY <1>4, <2>1, <2>4, <3>1
      <3>2. CASE t \in 1..ctr
        BY <2>4, <3>2 DEF TTestInv, InOrder
      <3> QED
        BY <1>4, <3>1, <3>2
    <2> QED
      BY <1>1, <1>3, <2>4, <2>5 DEF InOrder
  <1> QED
    BY <1>3, <1>5, <1>6 DEF TTestInv

LEMMA NextSubjectKeeps ==
    ASSUME TTestInv, TT!NextSubject
    PROVE  TTestInv'
  <1>1. /\ verdict = "running" /\ verdict' = "running" /\ TT!Admissible
        /\ subject < TT!Subjects /\ i = TT!PerSubject
        /\ subject' = subject + 1 /\ i' = 0 /\ ctr' = ctr /\ tests' = tests
        /\ bsdfs' = bsdfs /\ scenes' = scenes /\ angles' = angles /\ references' = references
    BY DEF TT!NextSubject, TT!given
  <1>2. (Lists /\ Verdict /\ CheckedFirst /\ InOrder)'
    BY <1>1 DEF TTestInv, Lists, Verdict, CheckedFirst, InOrder, TT!Admissible, TT!TestsBsdfs
  <1>3. Position'
    <2>1. /\ bsdfs \in 0..1 /\ scenes \in Nat /\ references \in Nat
          /\ subject \in 0..TT!Subjects /\ i \in 0..TT!PerSubject
          /\ ctr = IF TT!TestsBsdfs THEN IF subject = 0 THEN i ELSE references ELSE subject + i
      BY DEF TTestInv, Lists, Position
    <2>2. /\ TT!Subjects' = TT!Subjects /\ TT!PerSubject' = TT!PerSubject
          /\ TT!TestsBsdfs' = TT!TestsBsdfs
      BY <1>1 DEF TT!Subjects, TT!PerSubject, TT!TestsBsdfs
    <2>3. CASE bsdfs = 1
      <3>1. TT!TestsBsdfs /\ TT!Subjects = 1 /\ TT!PerSubject = references
        BY <2>3 DEF TT!Subjects, TT!PerSubject, TT!TestsBsdfs
      <3> QED
        BY <1>1, <2>1, <2>2, <3>1 DEF Position
    <2>4. CASE bsdfs = 0
      <3>1. ~TT!TestsBsdfs /\ TT!Subjects = scenes /\ TT!PerSubject = 1
        BY <2>4 DEF TT!Subjects, TT!PerSubject, TT!TestsBsdfs
      <3> QED
        BY <1>1, <2>1, <2>2, <3>1 DEF Position
    <2> QED
      BY <2>1, <2>3, <2>4
  <1> QED
    BY <1>2, <1>3 DEF TTestInv

LEMMA VerdictKeeps ==
    ASSUME TTestInv, TT!Finish
    PROVE  TTestInv'
  <1>1. /\ TT!Admissible /\ subject = TT!Subjects
        /\ verdict' = IF TT!SomeFailed THEN "failed" ELSE "returned"
        /\ subject' = subject /\ i' = i /\ ctr' = ctr /\ tests' = tests
        /\ bsdfs' = bsdfs /\ scenes' = scenes /\ angles' = angles /\ references' = references
    BY DEF TT!Finish, TT!given
  <1>2. (Lists /\ Position /\ InOrder /\ CheckedFirst)'
    BY <1>1 DEF TTestInv, Lists, Position, InOrder, CheckedFirst, TT!Admissible,
                TT!Subjects, TT!PerSubject, TT!TestsBsdfs
  <1>3. TT!Admissible' /\ ctr' = references'
    BY <1>1, ReferencesSuffice DEF TTestInv, TT!Admissible, TT!TestsBsdfs
  <1>4. Verdict'
    <2> SUFFICES ASSUME ~TT!SomeFailed PROVE \A t \in 1..ctr : tests[t].passed
      BY <1>1, <1>3 DEF Verdict
    <2> QED
      BY AllPassed DEF TTestInv, InOrder
  <1> QED
    BY <1>2, <1>4 DEF TTestInv

LEMMA TTestKeeps ==
    ASSUME TTestInv, [TestNext]_<<vars, ttestVars>>
    PROVE  TTestInv'
  <1>1. ASSUME UNCHANGED ttestVars PROVE TTestInv'
    BY <1>1 DEF ttestVars, TTestInv, Lists, Position, InOrder, CheckedFirst, Verdict,
                TT!Admissible, TT!Subjects, TT!PerSubject, TT!TestsBsdfs
  <1>2. ASSUME TT!Refuse PROVE TTestInv'
    BY <1>2 DEF TT!Refuse, TT!given, TTestInv, Lists, Position, InOrder, CheckedFirst, Verdict,
                TT!Admissible, TT!Subjects, TT!PerSubject, TT!TestsBsdfs
  <1> QED
    BY <1>1, <1>2, TestKeeps, NextSubjectKeeps, VerdictKeeps DEF TestNext, TT!Next

\* The invariant of the t-test, for an object with at most one material.
THEOREM TTestIsInOrder ==
    ASSUME MaxBsdfs \in 0..1, {MaxScenes, MaxValues} \subseteq Nat
    PROVE  TestSpec => []TTestInv
  <1>1. TestInit => TTestInv
    BY TTestStarts
  <1>2. TTestInv /\ [TestNext]_<<vars, ttestVars>> => TTestInv'
    BY TTestKeeps
  <1> QED
    BY <1>1, <1>2, PTL DEF TestSpec

\* Every test of an object with at most one material compares with an entry
\* of the list of references, at an angle of the list of angles (ttest.cpp 58).
THEOREM ReferencesAreRead ==
    ASSUME MaxBsdfs \in 0..1, {MaxScenes, MaxValues} \subseteq Nat
    PROVE  TestSpec => []ReadsInBounds
  <1>1. ASSUME TTestInv PROVE ReadsInBounds
    <2> SUFFICES ASSUME NEW t \in DOMAIN tests
                 PROVE  /\ tests[t].reference < references
                        /\ TT!TestsBsdfs => tests[t].angle < angles
      BY DEF ReadsInBounds, TT!ReadsInBounds
    <2>1. t \in 1..ctr /\ ctr \in Nat
      BY <1>1 DEF TTestInv, InOrder
    <2>2. ctr \in 0..references /\ (TT!TestsBsdfs => angles = references)
      BY <1>1, <2>1, ReferencesSuffice DEF TTestInv, CheckedFirst
    <2>3. references \in Nat
      BY <1>1 DEF TTestInv, Lists
    <2> QED
      BY <1>1, <2>1, <2>2, <2>3 DEF TTestInv, InOrder
  <1> QED
    BY <1>1, TTestIsInOrder, PTL

\* An object that returns has made one test with every entry of the list of
\* references, each with the scene or the angle of that index, and no test failed.
THEOREM ReturnsAfterEveryTest ==
    ASSUME MaxBsdfs \in 0..1, {MaxScenes, MaxValues} \subseteq Nat
    PROVE  TestSpec => []ReturnsOnlyIfAllPassed
  <1>1. ASSUME TTestInv PROVE ReturnsOnlyIfAllPassed
    <2> SUFFICES ASSUME verdict = "returned"
                 PROVE  /\ \A t \in DOMAIN tests : tests[t].passed
                        /\ \A r \in 0..(references - 1) :
                             Cardinality({t \in DOMAIN tests : tests[t].reference = r}) = 1
                        /\ \A t \in DOMAIN tests :
                             tests[t].reference = IF TT!TestsBsdfs THEN tests[t].angle
                                                  ELSE tests[t].subject
      BY OneCardinality, Zenon DEF ReturnsOnlyIfAllPassed, TT!ReturnsOnlyIfAllPassed
    <2>1. DOMAIN tests = 1..ctr /\ ctr = references /\ references \in Nat
      BY <1>1 DEF TTestInv, InOrder, Verdict, Lists
    <2>2. \A t \in 1..ctr : tests[t].reference = t - 1
      BY <1>1 DEF TTestInv, InOrder
    <2>3. ASSUME NEW r \in 0..(references - 1)
          PROVE  Cardinality({t \in DOMAIN tests : tests[t].reference = r}) = 1
      <3>1. {t \in DOMAIN tests : tests[t].reference = r} = {r + 1}
        BY <2>1, <2>2
      <3> QED
        BY <3>1, FS_Singleton
    <2> QED
      BY <1>1, <2>1, <2>3 DEF TTestInv, InOrder, Verdict
  <1> QED
    BY <1>1, TTestIsInOrder, PTL
=============================================================================
