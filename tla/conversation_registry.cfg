SPECIFICATION Spec
CONSTANTS
  Ids <- MCIds
  Coords = {k1, k2}
  Handlers = {h1, h2}
  Requests = {r1}
  None = None
  Torn = Torn
  MaxArrivals = 3
  MaxRestarts = 1
SYMMETRY Symmetry
INVARIANTS
  TypeOK
  ThreadsAreNotShared
  OneOpenThread
PROPERTIES
  RestartKeepsRoutes
CHECK_DEADLOCK FALSE
