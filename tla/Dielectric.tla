------------------------------ MODULE Dielectric ------------------------------
(***************************************************************************)
(* A path through a dielectric: Dielectric::sample() (dielectric.cpp 33-64) *)
(* and the reflectance it asks for (common.cpp 268-297), which each decide  *)
(* by themselves what medium the ray comes from and whether it can be       *)
(* refracted at all. Squared cosines are fractions of Grid and the indices  *)
(* of refraction integers, so both decisions are exact. Bodies are disjoint *)
(* and of one material: a ray that has entered next meets a surface from    *)
(* inside.                                                                  *)
(***************************************************************************)
EXTENDS Integers

CONSTANTS IORs,         \* pairs <<m_intIOR, m_extIOR>> tried, two different numbers
          Grid,         \* unit of squared cosines
          MaxBounces    \* bound on the length of the path

VARIABLES
  ior, inside,    \* the material; whether the ray is in the body
  cos2,           \* squared cosine of the next incident direction
  bounces,
  wo              \* what became of the last ray

vars == <<ior, inside, cos2, bounces, wo>>

intIOR == ior[1]
extIOR == ior[2]

Init ==
  /\ ior \in IORs /\ inside = FALSE /\ cos2 \in 0..Grid
  /\ bounces = 0 /\ wo = "none"

\* cosThetaI < 0: wi is below the surface. A direction along it is not.
FromBelow == inside /\ cos2 > 0

\* Fault: the indices are not swapped for a ray from inside.
SidesNotSwapped == <<extIOR, intIOR>>

\* etaI and etaT of fresnel().
Sides == IF FromBelow THEN <<intIOR, extIOR>> ELSE <<extIOR, intIOR>>

\* fresnel() is 1: total internal reflection, or one of the two directions is
\* along the surface. It is below 1 otherwise.
ReflectsAll ==
  LET etaI == Sides[1]  etaT == Sides[2] IN
  cos2 = 0 \/ etaI * etaI * (Grid - cos2) >= etaT * etaT * Grid

\* cosThetaTSqr > 0, with the eta that sample() computes for itself.
Transmits ==
  LET etaOf == IF FromBelow THEN <<intIOR, extIOR>> ELSE <<extIOR, intIOR>> IN
  etaOf[2] * etaOf[2] * Grid > (Grid - cos2) * etaOf[1] * etaOf[1]

\* sample.x() < f, and eta = 1.
Reflect ==
  /\ bounces < MaxBounces /\ wo # "zero"
  /\ wo' = "reflected" /\ bounces' = bounces + 1
  /\ cos2' \in 0..Grid
  /\ UNCHANGED <<ior, inside>>

Refract ==
  /\ bounces < MaxBounces /\ wo # "zero"
  /\ ~ReflectsAll
  /\ wo' = IF Transmits THEN "refracted" ELSE "zero"
  /\ inside' = IF Transmits THEN ~FromBelow ELSE inside
  /\ bounces' = bounces + 1
  /\ cos2' \in 0..Grid
  /\ UNCHANGED ior

Next == Reflect \/ Refract

Spec == Init /\ [][Next]_vars

-------------------------------------------------------------------------------
(* Properties                                                              *)

\* A ray that fresnel() lets through has a direction to go on with: sample()
\* never takes its branch for total internal reflection.
DirectionExists == wo # "zero"
===============================================================================
