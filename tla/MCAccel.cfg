\* No mesh, or up to three of one or two triangles; leaves of up to two triangles.
CONSTANTS
    Infinity = 20
    MeshChoices <- SomeMeshes
    MinMeshes = 0
    MaxMeshes = 3
    LeafSpan = 2
    MaxIndex = 255
    Queries <- SomeQueries
    None = None
SPECIFICATION Spec
INVARIANTS TypeOK NearestHit OverrunOnlyWhenEmpty EachTriangleInOneLeaf TreeBalanced BoxesNested

\* A build without triangles is undefined and goes no further.
CHECK_DEADLOCK FALSE
