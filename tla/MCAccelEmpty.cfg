\* A scene without meshes, which Scene::activate accepts.
CONSTANTS
    Infinity = 20
    MeshChoices <- SomeMeshes
    MinMeshes = 0
    MaxMeshes = 1
    LeafSpan = 2
    MaxIndex = 255
    Queries <- SomeQueries
    None = None
SPECIFICATION Spec
INVARIANT BuildInBounds
