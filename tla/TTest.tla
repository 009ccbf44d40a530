-------------------------------- MODULE TTest --------------------------------
(***************************************************************************)
(* StudentsTTest::activate() (ttest.cpp 91-186): which material or scene is *)
(* tested against which entry of the list of references, and the verdict.   *)
(* The sampling and the statistic of one test are its outcome, passed or    *)
(* not. A test object is used once, from activate() to its end.             *)
(***************************************************************************)
EXTENDS Integers, Sequences, FiniteSets

CONSTANTS MaxBsdfs, MaxScenes,   \* children a test object may be given
          MaxValues              \* bound on the lengths of the two lists

VARIABLES
  bsdfs, scenes,         \* how many of each were added
  angles, references,    \* lengths of the two lists
  subject, i,            \* the loops: which child, which reference of its own
  ctr,                   \* entries of references consumed
  tests,                 \* the tests run: child, angle, reference, passed
  result                 \* "running", "refused", "returned", "failed"

vars == <<bsdfs, scenes, angles, references, subject, i, ctr, tests, result>>
given == <<bsdfs, scenes, angles, references>>

TestsBsdfs == bsdfs > 0

\* Fault: the number of references is not checked.
NothingChecked == ~(TestsBsdfs /\ scenes > 0)

\* The checks of activate() before the first test.
Admissible ==
  IF TestsBsdfs THEN references * bsdfs = angles /\ scenes = 0
  ELSE references = scenes

\* How many references each child is tested with, and the angle of the i-th.
PerSubject == IF TestsBsdfs THEN references ELSE 1
Subjects == IF TestsBsdfs THEN bsdfs ELSE scenes
AngleOf(k) == IF TestsBsdfs THEN k ELSE 0

Init ==
  /\ bsdfs \in 0..MaxBsdfs /\ scenes \in 0..MaxScenes
  /\ angles \in 0..MaxValues /\ references \in 0..MaxValues
  /\ subject = 0 /\ i = 0 /\ ctr = 0 /\ tests = <<>>
  /\ result = "running"

Refuse ==
  /\ result = "running" /\ tests = <<>> /\ ~Admissible
  /\ result' = "refused"
  /\ UNCHANGED <<given, subject, i, ctr, tests>>

ReferenceOf(k, c) == c

\* One test; an index past the end of the list reads some value, and the
\* verdict may be either.
Test ==
  /\ result = "running" /\ Admissible
  /\ subject < Subjects /\ i < PerSubject
  /\ \E passed \in BOOLEAN :
       tests' = Append(tests, [subject |-> subject, angle |-> AngleOf(i),
                               reference |-> ReferenceOf(i, ctr), passed |-> passed])
  /\ ctr' = ctr + 1 /\ i' = i + 1
  /\ UNCHANGED <<given, subject, result>>

NextSubject ==
  /\ result = "running" /\ Admissible
  /\ subject < Subjects /\ i = PerSubject
  /\ subject' = subject + 1 /\ i' = 0
  /\ UNCHANGED <<given, ctr, tests, result>>

Passed == Cardinality({t \in DOMAIN tests : tests[t].passed})

\* Fault: only the last test decides.
VerdictOfLast == tests # <<>> /\ ~tests[Len(tests)].passed

SomeFailed == Passed < Len(tests)

Finish ==
  /\ result = "running" /\ Admissible /\ subject = Subjects
  /\ result' = IF SomeFailed THEN "failed" ELSE "returned"
  /\ UNCHANGED <<given, subject, i, ctr, tests>>

Next == Refuse \/ Test \/ NextSubject \/ Finish

Spec == Init /\ [][Next]_vars

-------------------------------------------------------------------------------
(* Properties                                                              *)

\* "a list of reference values, one for each angle" (ttest.cpp 58): every
\* test compares with an entry of the list, for an angle that was given.
ReadsInBounds ==
  \A t \in DOMAIN tests : /\ tests[t].reference < references
                          /\ TestsBsdfs => tests[t].angle < angles

\* A test object that returns has compared each scene, or the material at each
\* angle, with the entry of the same index, once, and every one has passed.
ReturnsOnlyIfAllPassed ==
  result = "returned" =>
    /\ \A t \in DOMAIN tests : tests[t].passed
    /\ \A r \in 0..(references - 1) :
         Cardinality({t \in DOMAIN tests : tests[t].reference = r}) = 1
    /\ \A t \in DOMAIN tests :
         tests[t].reference = IF TestsBsdfs THEN tests[t].angle ELSE tests[t].subject
===============================================================================
