------------------------- MODULE MCStatisticalTests -------------------------
(***************************************************************************)
(* A test object of a scene file is a t-test or a chi-square test.          *)
(***************************************************************************)
EXTENDS ChiSquareTest

CONSTANTS MaxBsdfs, MaxScenes, MaxValues
VARIABLES bsdfs, scenes, angles, references, subject, i, ctr, tests, verdict

TT == INSTANCE TTest WITH result <- verdict
ttestVars == <<bsdfs, scenes, angles, references, subject, i, ctr, tests, verdict>>

IsTTest == verdict # "none"

TestInit ==
  /\ Init
  /\ \/ TT!Init
     \/ /\ bsdfs = 0 /\ scenes = 0 /\ angles = 0 /\ references = 0
        /\ subject = 0 /\ i = 0 /\ ctr = 0 /\ tests = <<>> /\ verdict = "none"

TestNext ==
  \/ IsTTest /\ TT!Next /\ UNCHANGED vars
  \/ ~IsTTest /\ Next /\ UNCHANGED ttestVars

TestSpec == TestInit /\ [][TestNext]_<<vars, ttestVars>>

\* See TTest: each test is made against an entry of the list of references.
ReadsInBounds == TT!ReadsInBounds

\* See TTest: an object that returns has made every test, and all have passed.
ReturnsOnlyIfAllPassed == TT!ReturnsOnlyIfAllPassed
===============================================================================
