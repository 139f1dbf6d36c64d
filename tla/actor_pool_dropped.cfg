SPECIFICATION Spec
CONSTANTS
  single = single
  double = double
  Providers = {single, double}
  Slots <- SlotsOfProviders
  Tasks = {t1, t2, s1}
  Schedules = {s1}
  None = None
INVARIANTS
  BusyActorsAreHeld
