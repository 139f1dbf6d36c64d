SPECIFICATION FairSpec
CONSTANTS
  discord = discord
  file = file
  Connectors <- MCConnectors
  Restart = {discord}
  None = None
  p1 = p1
  p2 = p2
  p3 = p3
  p4 = p4
  Pids <- MCPids
INVARIANTS
  TypeOK
  OneProcessEach
  StoppedUnlessCrossed
PROPERTIES
  CrashedComesBack
CHECK_DEADLOCK FALSE
