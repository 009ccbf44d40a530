SPECIFICATION Spec
CONSTANTS
  Renderings <- EachIntegrator
  Lights = {l1, l2}
  NoLight = NoLight
  Nothing = Nothing
  Densities = {0, 1, 2}
  MaxVertices = 7
INVARIANTS CountedOnce ThroughputMatchesPath
CHECK_DEADLOCK FALSE
