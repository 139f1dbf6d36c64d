SPECIFICATION Spec
CONSTANTS
  cron = cron
  interval = interval
  event = event
  Entries <- MCEntries
  Trigger <- MCTrigger
  Minutes <- MCMinutes
  Interval <- MCInterval
  Cooldown <- MCCooldown
  MaxRuns <- MCMaxRuns
  EventTypes = {"done"}
  Minute = 3
  MaxLate = 1
  None = None
  MaxTime = 8
  MaxManual = 1
  MaxEntries = 2
INVARIANTS
  TypeOK
  RunsWithinLimit
  FiringsAreSpaced
  KeepsPace
CHECK_DEADLOCK FALSE
