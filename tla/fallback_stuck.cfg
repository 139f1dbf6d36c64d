SPECIFICATION FairSpec
CONSTANTS
  Callers = {t1, t2, t3}
  Threshold = 2
PROPERTIES
  ShortCircuitEnds
