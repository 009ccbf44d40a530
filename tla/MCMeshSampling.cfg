SPECIFICATION MeshSpec
CONSTANTS
  Faces <- SomeFaces
  Points <- SomePoints
  MaxFaces = 3
  MaxListed = 4
INVARIANTS FacesAreKept AttributesExist SharesAreAreas
CHECK_DEADLOCK FALSE
