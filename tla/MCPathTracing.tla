---------------------------- MODULE MCPathTracing ----------------------------
EXTENDS PathTracing

AllSurfaces == [diffuse : BOOLEAN, light : Lights \cup {NoLight}]

\* No emitter on a mirror or a dielectric.
DiffuseLights == {s \in AllSurfaces : s.light # NoLight => s.diffuse}

EachIntegrator ==
  [integrator : {"mats", "ems", "mis"}, surfaces : {AllSurfaces}]
    \cup {[integrator |-> "whitted", surfaces |-> DiffuseLights]}
===============================================================================
