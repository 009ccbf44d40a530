---------------------------- MODULE ChiSquareTest ----------------------------
(***************************************************************************)
(* ChiSquareTest::activate() (chi2test.cpp 81-185): the observed and the    *)
(* expected contingency tables, one after the other for each material and   *)
(* incident direction. A direction is its height and its azimuth in half    *)
(* cells of the table, so that both edges of the table are directions.      *)
(***************************************************************************)
EXTENDS Integers, FiniteSets, FiniteSetsExt, Functions

CONSTANTS Resolution,    \* "resolution": rows of the table
          SampleCount, TestCount, Bsdfs

ASSUME ChiSquareAssumption ==
  Resolution \in Nat \ {0} /\ {SampleCount, TestCount, Bsdfs} \subseteq Nat

PhiResolution == 2 * Resolution
Cells == 0..(Resolution * PhiResolution - 1)

\* Heights from pole to pole and azimuths once around, 1 included: atan2
\* just below zero becomes 1 in float.
Directions == (0..(2 * Resolution)) \X (0..(2 * PhiResolution))

VARIABLES
  done,       \* tests finished
  sample,     \* samples drawn in the current test
  obs, exp,   \* obsFrequencies; expFrequencies: which cell was integrated there
  ptr,        \* next cell of expFrequencies
  drawn,      \* the directions of this test that were counted, for the properties
  passed, result

vars == <<done, sample, obs, exp, ptr, drawn, passed, result>>

Clamp(n, top) == IF n < 0 THEN 0 ELSE IF n > top THEN top ELSE n

\* floor(x * count) for x = half / (2 * count), kept inside the table.
Bin(half, count) == Clamp(half \div 2, count - 1)

\* Fault: the table is laid out column by column.
CellByColumn(d) == Bin(d[2], PhiResolution) * Resolution + Bin(d[1], Resolution)

Cell(d) == Bin(d[1], Resolution) * PhiResolution + Bin(d[2], PhiResolution)

Zero == [c \in Cells |-> 0]
NotIntegrated == [c \in Cells |-> <<>>]

Init ==
  /\ done = 0 /\ sample = 0 /\ ptr = 0 /\ passed = 0
  /\ obs = Zero /\ exp = NotIntegrated /\ drawn = {}
  /\ result = "running"

Running == result = "running" /\ done < Bsdfs * TestCount

\* One sample: a direction is counted, unless the sample has no weight.
Draw(d) ==
  /\ Running /\ sample < SampleCount
  /\ sample' = sample + 1
  /\ obs' = IF Cell(d) \in Cells THEN [obs EXCEPT ![Cell(d)] = @ + 1] ELSE obs
  /\ drawn' = drawn \cup {<<sample, d>>}
  /\ UNCHANGED <<done, exp, ptr, passed, result>>

DrawNothing ==
  /\ Running /\ sample < SampleCount
  /\ sample' = sample + 1
  /\ UNCHANGED <<done, obs, exp, ptr, drawn, passed, result>>

\* *ptr++ = integral, the loops going row by row over the rectangles.
Integrate ==
  /\ Running /\ sample = SampleCount /\ ptr \in Cells
  /\ exp' = [exp EXCEPT ![ptr] = <<ptr \div PhiResolution, ptr % PhiResolution>>]
  /\ ptr' = ptr + 1
  /\ UNCHANGED <<done, sample, obs, drawn, passed, result>>

\* Fault: the tables are cleared once, before the first test.
Kept(table) == obs

\* memset() at the start of the next test.
Cleared(table) == Zero

Compare ==
  /\ Running /\ sample = SampleCount /\ ptr \notin Cells
  /\ \E ok \in BOOLEAN : passed' = IF ok THEN passed + 1 ELSE passed
  /\ done' = done + 1
  /\ sample' = 0 /\ ptr' = 0 /\ drawn' = {}
  /\ obs' = Cleared(obs) /\ exp' = NotIntegrated
  /\ UNCHANGED result

Finish ==
  /\ result = "running" /\ done = Bsdfs * TestCount
  /\ result' = IF passed < done THEN "failed" ELSE "returned"
  /\ UNCHANGED <<done, sample, obs, exp, ptr, drawn, passed>>

Next ==
  \/ \E d \in Directions : Draw(d)
  \/ DrawNothing \/ Integrate \/ Compare \/ Finish

Spec == Init /\ [][Next]_vars

-------------------------------------------------------------------------------
(* Properties                                                              *)

\* The table that is compared counts the samples of this test and no other:
\* every counted direction, the poles and the seam included, is in a cell.
CountsThisTest == FoldFunction(LAMBDA a, b : a + b, 0, obs) = Cardinality(drawn)

\* A sample is counted in the entry whose expected frequency is integrated
\* over a rectangle that contains its direction.
SameCell ==
  \A s \in drawn : LET d == s[2] IN
    exp[Cell(d)] # <<>> =>
      /\ d[1] \in (2 * exp[Cell(d)][1])..(2 * exp[Cell(d)][1] + 2)
      /\ d[2] \in (2 * exp[Cell(d)][2])..(2 * exp[Cell(d)][2] + 2)
===============================================================================
