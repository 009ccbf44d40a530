------------------------------ MODULE MCSurface ------------------------------
(***************************************************************************)
(* What a path meets: a surface with an image as its texture, of which the  *)
(* texels are read, or the two sides of a dielectric.                       *)
(***************************************************************************)
EXTENDS Integers

CONSTANTS IORs, Grid, MaxBounces, Sizes, Repeats

\* With equal indices a grazing ray is refracted along the surface, and loses
\* its direction.
ASSUME DielectricAssumption ==
  /\ \A p \in IORs : {p[1], p[2]} \subseteq Nat \ {0} /\ p[1] # p[2]
  /\ Grid \in Nat \ {0} /\ MaxBounces \in Nat

VARIABLES ior, inside, cos2, bounces, wo, size, filter, u, v, reads

Body == INSTANCE Dielectric
bodyVars == <<ior, inside, cos2, bounces, wo>>

Texture == INSTANCE TextureFilter
textureVars == <<size, filter, u, v, reads>>

\* As many rows as columns, and more than one.
Square == {<<n, n>> : n \in 2..4}

\* Glass, a bubble, and indices with a critical angle on the grid of ninths.
SomeIORs == {<<3, 2>>, <<2, 3>>, <<3, 1>>, <<5, 4>>}

IsDielectric == size = <<0, 0>>
IsTextured == ior = <<0, 0>>

SurfaceInit ==
  \/ /\ Body!Init
     /\ size = <<0, 0>> /\ filter = "none" /\ u = 0 /\ v = 0 /\ reads = {}
  \/ /\ Texture!Init
     /\ ior = <<0, 0>> /\ inside = FALSE /\ cos2 = 0 /\ bounces = 0 /\ wo = "none"

SurfaceNext ==
  \/ IsDielectric /\ Body!Next /\ UNCHANGED textureVars
  \/ IsTextured /\ Texture!Next /\ UNCHANGED bodyVars

SurfaceSpec == SurfaceInit /\ [][SurfaceNext]_<<bodyVars, textureVars>>

\* A ray that is let through a dielectric has a direction (see Dielectric).
DirectionExists == Body!DirectionExists

\* Every texel a filter reads is one of the image (see TextureFilter).
ReadsInImage == Texture!ReadsInImage
===============================================================================
