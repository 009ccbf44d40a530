----------------------------- MODULE PathTracing -----------------------------
(***************************************************************************)
(* Li() of the integrators that follow light paths: path_mats, path_ems,    *)
(* path_mis and whitted. A path is what carries light from an emitter to    *)
(* the camera; it can be found by scattering into the emitter or, from a    *)
(* diffuse vertex, by sampling the emitter. The arithmetic is left out      *)
(* except for the weights of the two strategies: fractions <<p, q>>.        *)
(* The scene is met on the way: each step sees any surface of Surfaces.     *)
(***************************************************************************)
EXTENDS Integers, Sequences

CONSTANTS
  Renderings,    \* what is tried: an integrator and the surfaces of its scene
  Lights,        \* m_lights, the meshes with an emitter
  NoLight, Nothing,
  Densities,     \* values of the densities pdfMats and pdfEms
  MaxVertices    \* bound on the length of a path

ASSUME PathAssumption ==
  /\ NoLight \notin Lights /\ Lights # {}
  /\ \A r \in Renderings :
       /\ r.integrator \in {"mats", "ems", "mis", "whitted"}
       /\ Nothing \notin r.surfaces
       /\ \A s \in r.surfaces : s.light \in Lights \cup {NoLight}
  /\ Densities \subseteq Nat /\ MaxVertices \in Nat

VARIABLES
  rendering,           \* the one of Renderings that runs
  pc,                  \* "trace", "emit", "direct", "scatter", "done"
  vertex,              \* vertices so far
  its,                 \* the surface hit last
  aim,                 \* what nextRay will hit, with both densities of that direction
  previousIsSpecular, pdfMats,
  RR, depth,           \* the survival probability of the next test, by name
  hit,                 \* weight of the emission of its
  direct,              \* the last sample of an emitter: [light, mats, ems, visible, weight]
  factors,             \* BSDF values in the throughput
  divisors, survived   \* probabilities divided by, and those of the tests passed

vars == <<rendering, pc, vertex, its, aim, previousIsSpecular, pdfMats, RR, depth, hit, direct,
          factors, divisors, survived>>

\* A surface is [diffuse, light]; light = NoLight if it emits nothing.
Integrator == rendering.integrator
Surfaces == rendering.surfaces

Zero == <<0, 1>>
One == <<1, 1>>
SumIsOne(w, v) == w[1] * v[2] + v[1] * w[2] = w[2] * v[2]

\* weight(), the power heuristic, with the guard of its two callers.
Weight(a, b) == IF a > 0 /\ b > 0 THEN <<a * a, a * a + b * b>> ELSE Zero

NoSample == [light |-> NoLight, mats |-> 0, ems |-> 0, visible |-> FALSE, weight |-> Zero]

\* "from" is the kind of vertex the ray leaves: it is what previousIsSpecular remembers.
Aims(from, mats) ==
  [surface : Surfaces, from : {from}, mats : mats, ems : Densities]
    \cup {[surface |-> Nothing, from |-> from, mats |-> 1, ems |-> 0]}

Init ==
  /\ rendering \in Renderings
  /\ pc = "trace" /\ vertex = 0 /\ its = Nothing
  /\ aim \in Aims("camera", {0})
  /\ previousIsSpecular = TRUE /\ pdfMats = 0
  /\ RR = "one" /\ depth = 0
  /\ hit = Zero /\ direct = NoSample
  /\ factors = 0 /\ divisors = <<>> /\ survived = <<>>

\* The loop's test next1D() < RR, and rayIntersect(nextRay).
Trace ==
  /\ pc = "trace"
  /\ \/ /\ aim.surface # Nothing /\ vertex < MaxVertices
        /\ its' = aim.surface /\ vertex' = vertex + 1 /\ pc' = "emit"
        /\ survived' = IF RR = "one" THEN survived ELSE Append(survived, RR)
     \/ /\ aim.surface = Nothing \/ RR # "one" \/ vertex = MaxVertices
        /\ pc' = "done" /\ UNCHANGED <<its, vertex, survived>>
  /\ UNCHANGED <<rendering, aim, previousIsSpecular, pdfMats, RR, depth, hit, direct, factors, divisors>>

HitWeight ==
  CASE Integrator = "mats" -> One
    [] Integrator = "ems" -> IF previousIsSpecular THEN One ELSE Zero
    [] Integrator = "mis" -> IF previousIsSpecular THEN One ELSE Weight(pdfMats, aim.ems)
    [] Integrator = "whitted" -> IF its.diffuse THEN One ELSE Zero

\* The emission of the surface, if it is an emitter.
Emit ==
  /\ pc = "emit"
  /\ hit' = IF its.light = NoLight THEN Zero ELSE HitWeight
  /\ pc' = IF its.diffuse /\ Integrator # "mats" THEN "direct" ELSE "scatter"
  /\ previousIsSpecular' = IF its.diffuse THEN previousIsSpecular ELSE TRUE
  /\ UNCHANGED <<rendering, vertex, its, aim, pdfMats, RR, depth, direct, factors, divisors, survived>>

DirectWeight(mats, ems) == IF Integrator = "mis" THEN Weight(ems, mats) ELSE One

\* sampleLight(), Emitter::sample() and the shadow ray. There is a light:
\* without one sampleLight() would read past the end of an empty vector.
SampleEmitter ==
  /\ pc = "direct"
  /\ \E light \in Lights, mats, ems \in Densities, visible \in BOOLEAN :
       /\ direct' = [light |-> light, mats |-> mats, ems |-> ems, visible |-> visible,
                     weight |-> IF visible THEN DirectWeight(mats, ems) ELSE Zero]
       /\ pdfMats' = IF visible /\ Integrator = "mis" THEN mats ELSE pdfMats
  /\ previousIsSpecular' = FALSE
  /\ pc' = IF Integrator = "whitted" THEN "done" ELSE "scatter"
  /\ UNCHANGED <<rendering, vertex, its, aim, RR, depth, hit, factors, divisors, survived>>

\* A direction towards the sampled point of a light is that of the sample:
\* same densities, and it only gets there if the shadow ray did.
Agrees(a) ==
  a.surface # Nothing /\ a.surface.light = direct.light /\ direct.light # NoLight =>
    direct.visible /\ a.mats = direct.mats /\ a.ems = direct.ems

NextRR == IF Integrator = "whitted" THEN "fixed"
          ELSE IF depth + 1 > 4 THEN "throughput" ELSE "one"

\* Fault: the throughput is divided before the new probability is computed.
DividedTooEarly(new) == RR

\* The order of lines 94 and 95 of path_mis.cpp (48 and 49, 79 and 80 of the others).
DividedBy(new) == new

\* Fault: pdfMats is left as sampling the emitter has set it.
PdfOfEmitterSample(density) == pdfMats

PdfAfterScatter(density) == IF Integrator = "mis" THEN density ELSE pdfMats

\* BSDF::sample(), the throughput and the next survival probability.
Scatter ==
  /\ pc = "scatter"
  /\ \/ /\ \E a \in Aims(IF its.diffuse THEN "diffuse" ELSE "specular",
                         IF its.diffuse THEN Densities \ {0} ELSE {0}) :
             /\ its.diffuse /\ Integrator # "mats" => Agrees(a)
             /\ aim' = a /\ pdfMats' = PdfAfterScatter(a.mats)
        /\ depth' = depth + 1 /\ RR' = NextRR
        /\ factors' = factors + 1
        /\ divisors' = IF DividedBy(NextRR) = "one" THEN divisors
                       ELSE Append(divisors, DividedBy(NextRR))
        /\ pc' = "trace"
     \/ /\ pc' = "done"     \* the sample has no weight
        /\ UNCHANGED <<aim, pdfMats, depth, RR, factors, divisors>>
  /\ UNCHANGED <<rendering, vertex, its, previousIsSpecular, hit, direct, survived>>

Next == Trace \/ Emit \/ SampleEmitter \/ Scatter

Spec == Init /\ [][Next]_vars

-------------------------------------------------------------------------------
(* Properties                                                              *)

\* The emission of its has been added, and direct is still the sample that
\* was taken at the vertex before.
EmissionAdded == pc = "direct" \/ (pc = "scatter" /\ ~its.diffuse)

\* Each light path is counted exactly once, whatever finds it: an emitter met
\* from the camera or a specular vertex with full weight, one met from a
\* diffuse vertex with what sampling the same point there leaves over. (A
\* point seen from behind has density 0 and emits nothing.)
CountedOnce ==
  EmissionAdded /\ its.light # NoLight /\ aim.ems > 0 =>
    IF aim.from # "diffuse" THEN hit = One
    ELSE /\ SumIsOne(hit, IF Integrator = "mats" THEN Zero ELSE DirectWeight(aim.mats, aim.ems))
         /\ direct.light = its.light => SumIsOne(hit, direct.weight)

\* A contribution at the k-th vertex carries the k - 1 BSDF values before it
\* and is divided by the probability of every survival test it has passed.
ThroughputMatchesPath ==
  pc \in {"emit", "direct"} => factors = vertex - 1 /\ divisors = survived
===============================================================================
