-------------------------- MODULE PathTracingProofs --------------------------
(***************************************************************************)
(* Theorems about PathTracing, for every scene, any densities and paths of *)
(* any length, and about the surfaces a path meets (MCSurface), for every   *)
(* dielectric and every square texture.                                    *)
(***************************************************************************)
EXTENDS PathTracing, MCSurface, TLAPS

-----------------------------------------------------------------------------
(* The throughput.                                                         *)

\* Between Scatter and Trace the throughput is already that of the next vertex:
\* it has one factor more, and is divided by a test that is still to come.
Throughput ==
  /\ pc \in {"trace", "emit", "direct", "scatter", "done"}
  /\ vertex \in Nat
  /\ pc = "trace" => /\ factors = vertex
                     /\ divisors = IF RR = "one" THEN survived ELSE Append(survived, RR)
  /\ pc \in {"emit", "direct", "scatter"} => factors = vertex - 1 /\ divisors = survived

\* Along a path of any length a contribution carries the BSDF values of the
\* vertices before it, and is divided by the survival tests it has passed.
THEOREM ThroughputIsExact == Spec => []ThroughputMatchesPath
  <1>1. Init => Throughput
    BY DEF Init, Throughput
  <1>2. ASSUME Throughput, [Next]_vars PROVE Throughput'
    <2>1. CASE Trace
      BY <1>2, <2>1 DEF Throughput, Trace
    <2>2. CASE Emit
      BY <1>2, <2>2 DEF Throughput, Emit
    <2>3. CASE SampleEmitter
      BY <1>2, <2>3 DEF Throughput, SampleEmitter
    <2>4. CASE Scatter
      BY <1>2, <2>4 DEF Throughput, Scatter, DividedBy
    <2>5. CASE UNCHANGED vars
      BY <1>2, <2>5 DEF Throughput, vars
    <2> QED
      BY <1>2, <2>1, <2>2, <2>3, <2>4, <2>5 DEF Next
  <1>3. Throughput => ThroughputMatchesPath
    BY DEF Throughput, ThroughputMatchesPath
  <1> QED
    BY <1>1, <1>2, <1>3, PTL DEF Spec

-----------------------------------------------------------------------------
(* The two strategies.                                                     *)

\* The power heuristic is a partition of one, and so are its two degenerate forms.
LEMMA WeightsAddUp ==
  /\ \A m, e \in Nat \ {0} : SumIsOne(Weight(m, e), Weight(e, m))
  /\ SumIsOne(Zero, One) /\ SumIsOne(One, Zero)
  <1>1. ASSUME NEW m \in Nat \ {0}, NEW e \in Nat \ {0}
        PROVE  SumIsOne(Weight(m, e), Weight(e, m))
    <2>1. PICK p, q \in Int : p = m * m /\ q = e * e
      OBVIOUS
    <2>2. Weight(m, e) = <<p, p + q>> /\ Weight(e, m) = <<q, q + p>>
      BY <2>1 DEF Weight
    <2>3. p * (q + p) + q * (p + q) = (p + q) * (q + p)
      OBVIOUS
    <2> QED
      BY <2>2, <2>3 DEF SumIsOne
  <1> QED
    BY <1>1 DEF SumIsOne, Zero, One

LEMMA AimTypes ==
  ASSUME rendering \in Renderings, NEW from, NEW mats \in SUBSET Nat, NEW a \in Aims(from, mats)
  PROVE  /\ a.surface \in Surfaces \cup {Nothing} /\ a.from = from
         /\ a.ems \in Nat /\ a.mats \in mats \cup {1}
  <1>1. CASE a \in [surface : Surfaces, from : {from}, mats : mats, ems : Densities]
    BY <1>1, PathAssumption
  <1>2. CASE a = [surface |-> Nothing, from |-> from, mats |-> 1, ems |-> 0]
    BY <1>2
  <1> QED
    BY <1>1, <1>2 DEF Aims

\* What the next ray will hit, and what the integrator knows about it.
Aimed ==
  /\ rendering \in Renderings
  /\ aim.surface \in Surfaces \cup {Nothing} /\ aim.ems \in Nat /\ aim.mats \in Nat
  /\ aim.from = "diffuse" => aim.mats # 0 /\ Integrator # "whitted"
  /\ aim.from = "diffuse" /\ Integrator # "mats" =>
       Agrees(aim) \/ (pc = "scatter" /\ its.diffuse) \/ pc = "done"

\* The bookkeeping of the loop: previousIsSpecular and pdfMats are those of the
\* vertex the next ray leaves, and of the direction it takes.
Remembered ==
  Integrator \in {"ems", "mis"} =>
    /\ pc \in {"trace", "emit"} =>
         /\ previousIsSpecular <=> aim.from # "diffuse"
         /\ aim.from = "diffuse" /\ Integrator = "mis" => pdfMats = aim.mats
    /\ pc = "scatter" => (previousIsSpecular <=> ~its.diffuse)

Sampled ==
  /\ direct.light # NoLight =>
       /\ Integrator # "mats"
       /\ direct.weight = IF direct.visible THEN DirectWeight(direct.mats, direct.ems) ELSE Zero
  /\ pc \in {"emit", "direct", "scatter"} => its = aim.surface /\ its \in Surfaces
  /\ pc = "direct" => its.diffuse /\ Integrator # "mats"
  /\ pc = "scatter" /\ its.diffuse => Integrator # "whitted"

Once ==
  EmissionAdded /\ its.light # NoLight /\ aim.ems > 0 =>
    /\ Integrator = "mats" => hit = One
    /\ Integrator = "whitted" => hit = One
    /\ Integrator \in {"ems", "mis"} =>
         hit = IF aim.from # "diffuse" THEN One
               ELSE IF Integrator = "ems" THEN Zero ELSE Weight(aim.mats, aim.ems)

PathInv == Aimed /\ Remembered /\ Sampled /\ Once

LEMMA InitPathInv == Init => PathInv
  <1> SUFFICES ASSUME Init PROVE PathInv
    OBVIOUS
  <1>1. /\ aim.surface \in Surfaces \cup {Nothing} /\ aim.from = "camera"
        /\ aim.ems \in Nat /\ aim.mats \in {0} \cup {1}
    BY AimTypes DEF Init
  <1> QED
    BY <1>1 DEF Init, PathInv, Aimed, Remembered, Sampled, Once, EmissionAdded, NoSample

LEMMA TraceStep == ASSUME PathInv, Trace PROVE PathInv'
  BY DEF PathInv, Aimed, Remembered, Sampled, Once, EmissionAdded, Trace, Agrees, DirectWeight,
         Integrator, Surfaces

\* What HitWeight gives depends on the bookkeeping; on a specular surface nothing
\* but the emission of the surface is added.
LEMMA EmitStep ==
  ASSUME PathInv, Emit,
         Integrator = "whitted" => \A s \in Surfaces : s.light # NoLight => s.diffuse
  PROVE  PathInv'
  <1> USE DEF PathInv, Emit
  <1>1. Aimed' /\ Sampled'
    BY DEF Aimed, Sampled, Agrees, DirectWeight, Integrator, Surfaces
  <1>2. Remembered'
    BY DEF Remembered, Integrator
  <1>3. Once'
    <2> SUFFICES ASSUME its.light # NoLight, aim.ems > 0
                 PROVE  /\ Integrator = "mats" => hit' = One
                        /\ Integrator = "whitted" => hit' = One
                        /\ Integrator \in {"ems", "mis"} =>
                             hit' = IF aim.from # "diffuse" THEN One
                                    ELSE IF Integrator = "ems" THEN Zero
                                    ELSE Weight(aim.mats, aim.ems)
      BY DEF Once, Integrator
    <2>1. hit' = HitWeight /\ its \in Surfaces
      BY DEF Sampled
    <2> QED
      BY <2>1 DEF HitWeight, Remembered
  <1> QED
    BY <1>1, <1>2, <1>3

LEMMA SampleEmitterStep == ASSUME PathInv, SampleEmitter PROVE PathInv'
  <1> USE DEF PathInv, SampleEmitter
  <1>1. its \in Surfaces /\ its.diffuse /\ Integrator # "mats"
    BY DEF Sampled
  <1>2. Aimed' /\ Remembered' /\ Once'
    BY <1>1 DEF Aimed, Remembered, Once, EmissionAdded, Integrator, Surfaces
  <1>3. Sampled'
    BY <1>1 DEF Sampled, DirectWeight, Integrator, Surfaces
  <1> QED
    BY <1>2, <1>3

LEMMA ScatterStep == ASSUME PathInv, Scatter PROVE PathInv'
  <1> USE DEF PathInv
  <1>1. CASE pc' = "trace"
    <2> DEFINE From == IF its.diffuse THEN "diffuse" ELSE "specular"
               Mats == IF its.diffuse THEN Densities \ {0} ELSE {0}
    <2>1. PICK a \in Aims(From, Mats) :
             /\ its.diffuse /\ Integrator # "mats" => Agrees(a)
             /\ aim' = a /\ pdfMats' = PdfAfterScatter(a.mats)
      BY <1>1 DEF Scatter
    <2>2. UNCHANGED <<rendering, its, previousIsSpecular, hit, direct>> /\ pc = "scatter"
      BY DEF Scatter
    <2>3. rendering \in Renderings /\ Mats \in SUBSET Nat
      BY PathAssumption DEF Aimed
    <2> HIDE DEF Mats
    <2>4. /\ a.surface \in Surfaces \cup {Nothing} /\ a.from = From
          /\ a.ems \in Nat /\ a.mats \in Mats \cup {1}
      BY <2>3, AimTypes
    <2> USE DEF Mats
    <2>5. Aimed'
      <3>1. a.from = "diffuse" <=> its.diffuse
        BY <2>4
      <3>2. a.mats \in Nat /\ (its.diffuse => a.mats # 0 /\ Integrator # "whitted")
        BY <2>2, <2>3, <2>4 DEF Sampled
      <3> QED
        BY <2>1, <2>2, <2>4, <3>1, <3>2 DEF Aimed, Agrees, Integrator, Surfaces
    <2>6. Remembered'
      BY <1>1, <2>1, <2>2, <2>4 DEF Remembered, PdfAfterScatter, Integrator
    <2>7. Sampled' /\ Once'
      BY <1>1, <2>1, <2>2 DEF Sampled, Once, EmissionAdded, DirectWeight, Integrator, Surfaces
    <2> QED
      BY <2>5, <2>6, <2>7
  <1>2. CASE pc' # "trace"
    BY <1>2 DEF Scatter, Aimed, Remembered, Sampled, Once, EmissionAdded, Agrees, DirectWeight,
                Integrator, Surfaces
  <1> QED
    BY <1>1, <1>2

LEMMA StutterPathInv == ASSUME PathInv, UNCHANGED vars PROVE PathInv'
  BY DEF PathInv, vars, Aimed, Remembered, Sampled, Once, EmissionAdded, Agrees, DirectWeight,
         Integrator, Surfaces

\* The two weights an emitter has from a diffuse vertex add up to one, because the
\* direction that was scattered has the densities the emitter was sampled with.
LEMMA OnceIsOnce == PathInv => CountedOnce
  <1> SUFFICES ASSUME PathInv, EmissionAdded, its.light # NoLight, aim.ems > 0
               PROVE  IF aim.from # "diffuse" THEN hit = One
                      ELSE /\ SumIsOne(hit, IF Integrator = "mats" THEN Zero
                                            ELSE DirectWeight(aim.mats, aim.ems))
                           /\ direct.light = its.light => SumIsOne(hit, direct.weight)
    BY DEF CountedOnce
  <1> USE DEF PathInv, Aimed, Sampled
  <1>1. Integrator \in {"mats", "ems", "mis", "whitted"}
    BY PathAssumption DEF Integrator
  <1>2. CASE aim.from # "diffuse"
    BY <1>1, <1>2 DEF Once
  <1>3. CASE aim.from = "diffuse"
    <2>1. aim.mats \in Nat \ {0} /\ aim.ems \in Nat \ {0} /\ Integrator # "whitted"
      BY <1>3
    <2>2. SumIsOne(hit, IF Integrator = "mats" THEN Zero ELSE DirectWeight(aim.mats, aim.ems))
      BY <1>1, <1>3, <2>1, WeightsAddUp DEF Once, DirectWeight
    <2>3. ASSUME direct.light = its.light PROVE SumIsOne(hit, direct.weight)
      <3>1. its = aim.surface /\ its \in Surfaces /\ its # Nothing
        BY PathAssumption DEF EmissionAdded, Surfaces
      <3>2. Integrator # "mats" /\ Agrees(aim)
        BY <1>3, <2>3 DEF EmissionAdded
      <3>3. direct.weight = DirectWeight(aim.mats, aim.ems)
        BY <2>3, <3>1, <3>2 DEF Agrees
      <3> QED
        BY <2>2, <3>2, <3>3
    <2> QED
      BY <1>3, <2>2, <2>3
  <1> QED
    BY <1>2, <1>3

\* Whatever densities the surfaces and the emitters have, no light path is counted
\* twice or with a part of its weight.  WhittedIntegrator adds the emission of the
\* surfaces it shades only, so its emitters are taken to be diffuse.
THEOREM EveryPathCountedOnce ==
  ASSUME \A r \in Renderings : r.integrator = "whitted" =>
           \A s \in r.surfaces : s.light # NoLight => s.diffuse
  PROVE  Spec => []CountedOnce
  <1>1. Init => PathInv
    BY InitPathInv
  <1>2. ASSUME PathInv, [Next]_vars PROVE PathInv'
    <2>1. Integrator = "whitted" => \A s \in Surfaces : s.light # NoLight => s.diffuse
      BY <1>2 DEF PathInv, Aimed, Integrator, Surfaces
    <2> QED
      BY <1>2, <2>1, TraceStep, EmitStep, SampleEmitterStep, ScatterStep, StutterPathInv DEF Next
  <1> QED
    BY <1>1, <1>2, OnceIsOnce, PTL DEF Spec

-----------------------------------------------------------------------------
(* What a path meets: the two sides of a dielectric, and textures.         *)

\* A body is of one of the materials tried; the pair of zeros is no body.
OnDielectric == ior \in IORs \cup {<<0, 0>>} /\ cos2 \in 0..Grid /\ wo # "zero"

\* fresnel() and sample() agree: whichever of the two indices comes first, what is
\* not reflected as a whole has a direction on the other side.
LEMMA LetThroughIsRefracted ==
    ASSUME NEW p \in IORs \cup {<<0, 0>>}, ior = p, cos2 \in 0..Grid, ~Body!ReflectsAll
    PROVE  Body!Transmits
  <1>1. ior[1] \in Nat /\ ior[2] \in Nat /\ Grid \in Nat
    BY DielectricAssumption
  <1>2. ASSUME NEW a \in Nat, NEW b \in Nat, ~(a * a * (Grid - cos2) >= b * b * Grid)
        PROVE  b * b * Grid > (Grid - cos2) * a * a
    <2>1. Grid - cos2 \in Nat /\ a * a \in Nat
      BY <1>1
    <2>2. (Grid - cos2) * a * a = a * a * (Grid - cos2)
      BY <2>1
    <2>3. a * a * (Grid - cos2) \in Nat /\ b * b * Grid \in Nat
      BY <1>1, <2>1
    <2> QED
      BY <1>1, <1>2, <2>2, <2>3
  <1>3. CASE Body!FromBelow
    BY <1>1, <1>2, <1>3 DEF Body!ReflectsAll, Body!Transmits, Body!Sides, Body!intIOR, Body!extIOR
  <1>4. CASE ~Body!FromBelow
    BY <1>1, <1>2, <1>4 DEF Body!ReflectsAll, Body!Transmits, Body!Sides, Body!intIOR, Body!extIOR
  <1> QED
    BY <1>3, <1>4

\* A ray that fresnel() lets through a dielectric has a direction to go on with,
\* for all pairs of different indices and at every angle.
THEOREM RefractedRaysExist == SurfaceSpec => []DirectionExists
  <1>1. SurfaceInit => OnDielectric
    BY DielectricAssumption DEF SurfaceInit, Body!Init, OnDielectric
  <1>2. ASSUME OnDielectric, [SurfaceNext]_<<bodyVars, textureVars>> PROVE OnDielectric'
    <2>1. CASE UNCHANGED bodyVars
      BY <1>2, <2>1 DEF OnDielectric, bodyVars
    <2>2. CASE Body!Reflect
      BY <1>2, <2>2 DEF OnDielectric, Body!Reflect
    <2>3. CASE Body!Refract
      <3>1. Body!Transmits
        BY <1>2, <2>3, LetThroughIsRefracted DEF OnDielectric, Body!Refract
      <3> QED
        BY <1>2, <2>3, <3>1 DEF OnDielectric, Body!Refract
    <2> QED
      BY <1>2, <2>1, <2>2, <2>3 DEF SurfaceNext, Body!Next
  <1>3. OnDielectric => DirectionExists
    BY DEF OnDielectric, DirectionExists, Body!DirectionExists
  <1> QED
    BY <1>1, <1>2, <1>3, PTL DEF SurfaceSpec

\* The index that the filters wrap around an image of n texels, and the one that has
\* another after it.
LEMMA WrapsAround ==
    ASSUME NEW P \in Int, NEW n \in Nat \ {0, 1}
    PROVE  /\ Texture!Wrap(P, n) \in 0..(n - 1)
           /\ Texture!NotLast(Texture!Wrap(P, n), n) \in 0..(n - 2)
  <1>1. Texture!Trunc(P) \in Int
    BY DEF Texture!Trunc, Texture!Abs
  <1>2. ASSUME NEW a \in Int PROVE Texture!CRemainder(a, n) \in (1 - n)..(n - 1)
    BY DEF Texture!CRemainder, Texture!Abs
  <1>3. Texture!Wrap(P, n) \in 0..(n - 1)
    BY <1>1, <1>2 DEF Texture!Wrap
  <1> QED
    BY <1>3 DEF Texture!NotLast

\* An image has a size of those tried and coordinates; what was read is in it.
OnTexture ==
  /\ size # <<0, 0>> => size \in Sizes /\ u \in Int /\ v \in Int
  /\ ReadsInImage
  /\ ior = <<0, 0>> => size # <<0, 0>>

\* No filter reads a texel that does not exist, whatever the texture coordinate,
\* if an image has as many rows as columns, and more than one.
THEOREM TexelsExist ==
  ASSUME Sizes \subseteq {<<n, n>> : n \in Nat \ {0, 1}}, Repeats \in Nat
  PROVE  SurfaceSpec => []ReadsInImage
  <1>1. ASSUME NEW s \in Sizes PROVE \E n \in Nat \ {0, 1} : s = <<n, n>>
    OBVIOUS
  <1>2. SurfaceInit => OnTexture
    <2>1. ASSUME Body!Init, size = <<0, 0>>, reads = {} PROVE OnTexture
      BY <2>1, DielectricAssumption DEF Body!Init, OnTexture, ReadsInImage, Texture!ReadsInImage
    <2>2. ASSUME Texture!Init, ior = <<0, 0>> PROVE OnTexture
      <3>1. PICK n \in Nat \ {0, 1} : size = <<n, n>>
        BY <2>2 DEF Texture!Init
      <3>2. /\ u \in (-2 * Repeats * n)..(2 * Repeats * n)
            /\ v \in (-2 * Repeats * n)..(2 * Repeats * n)
        BY <2>2, <3>1 DEF Texture!Init, Texture!cols, Texture!rows
      <3>3. -2 * Repeats * n \in Int /\ 2 * Repeats * n \in Int
        OBVIOUS
      <3>4. u \in Int /\ v \in Int
        BY <3>2, <3>3
      <3>5. size \in Sizes /\ reads = {} /\ size # <<0, 0>>
        BY <2>2, <3>1 DEF Texture!Init
      <3> QED
        BY <3>4, <3>5 DEF OnTexture, ReadsInImage, Texture!ReadsInImage
    <2> QED
      BY <2>1, <2>2 DEF SurfaceInit
  <1>3. ASSUME OnTexture, [SurfaceNext]_<<bodyVars, textureVars>> PROVE OnTexture'
    <2>1. CASE UNCHANGED textureVars /\ (UNCHANGED ior)
      BY <1>3, <2>1 DEF OnTexture, textureVars, ReadsInImage, Texture!ReadsInImage,
                        Texture!rows, Texture!cols
    <2>2. CASE Texture!Next /\ ior = <<0, 0>> /\ UNCHANGED ior
      <3>1. PICK n \in Nat \ {0, 1} : size = <<n, n>> /\ size' = size /\ u' = u /\ v' = v
        BY <1>3, <2>2, <1>1
           DEF OnTexture, Texture!Next, Texture!Bilinear, Texture!Nearest
      <3>2. Texture!cols = n /\ Texture!rows = n
            /\ Texture!cols' = n /\ Texture!rows' = n
        BY <3>1 DEF Texture!cols, Texture!rows
      <3>3. u - 1 \in Int /\ v - 1 \in Int /\ size \in Sizes /\ size # <<0, 0>>
        BY <1>3, <2>2 DEF OnTexture
      <3> DEFINE W(P) == Texture!Wrap(P, n)
                 L(P) == Texture!NotLast(W(P), n)
      <3>4. \A P \in {u - 1, v - 1} : W(P) \in 0..(n - 1) /\ L(P) \in 0..(n - 2)
        BY <3>3, WrapsAround
      <3> HIDE DEF W, L
      <3>5. \A r \in reads' : r[1] \in 0..(n - 1) /\ r[2] \in 0..(n - 1)
        <4>1. CASE Texture!Bilinear
          <5>1. reads' = {<<L(u - 1), L(v - 1)>>, <<L(u - 1) + 1, L(v - 1)>>,
                          <<L(u - 1), L(v - 1) + 1>>, <<L(u - 1) + 1, L(v - 1) + 1>>}
            BY <3>2, <4>1 DEF Texture!Bilinear, W, L
          <5>2. L(u - 1) \in 0..(n - 2) /\ L(v - 1) \in 0..(n - 2)
            BY <3>4
          <5> QED
            BY <5>1, <5>2
        <4>2. CASE Texture!Nearest
          <5>1. reads' = {<<W(u - 1), W(v - 1)>>}
            BY <3>2, <4>2 DEF Texture!Nearest, W
          <5> QED
            BY <3>4, <5>1
        <4> QED
          BY <2>2, <4>1, <4>2 DEF Texture!Next
      <3> QED
        BY <2>2, <3>1, <3>2, <3>3, <3>5, <1>3
           DEF OnTexture, ReadsInImage, Texture!ReadsInImage
    <2> QED
      BY <1>3, <2>1, <2>2 DEF SurfaceNext, IsDielectric, IsTextured, Body!Next,
         Body!Reflect, Body!Refract, bodyVars, textureVars
  <1>4. OnTexture => ReadsInImage
    BY DEF OnTexture
  <1> QED
    BY <1>2, <1>3, <1>4, PTL DEF SurfaceSpec
=============================================================================
