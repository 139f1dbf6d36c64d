SPECIFICATION FairSpec
CONSTANTS
  Callers = {t1, t2, t3}
  Threshold = 2
INVARIANTS
  TypeOK
  OneProbeAtATime
  HalfOpenIsAwaited
PROPERTIES
  ShortCircuitEndsUnlessLost
