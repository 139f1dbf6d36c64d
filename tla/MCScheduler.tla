------------------------------- MODULE MCScheduler -------------------------------
EXTENDS Scheduler

CONSTANTS cron, interval, event

MCEntries == {cron, interval, event}
MCTrigger == [e \in MCEntries |-> CASE e = cron -> "cron"
                                    [] e = interval -> "interval"
                                    [] OTHER -> "done"]
MCMinutes == [e \in MCEntries |-> 0 .. MaxTime]
MCInterval == [e \in MCEntries |-> IF e = interval THEN 2 ELSE 0]
MCCooldown == [e \in MCEntries |-> 3]
MCMaxRuns == [e \in MCEntries |-> IF e = event THEN 2 ELSE 0]
=============================================================================
