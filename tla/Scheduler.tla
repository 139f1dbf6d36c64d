-------------------------------- MODULE Scheduler --------------------------------
(***************************************************************************)
(* The scheduler's entries and the four ways one fires: the cron timer,    *)
(* the interval timer, an event, and the trigger_schedule tool.  Time      *)
(* counts ticks of the interval timer.  The loop that handles timers and   *)
(* events is one task; it may be late, and a tokio timer delivers what was *)
(* missed as soon as it can.  Each automatic firing starts a task of its   *)
(* own; a manual one is only counted.                                      *)
(***************************************************************************)
EXTENDS Naturals, Sequences, FiniteSets

CONSTANTS
  Entries,    \* the entries that may be scheduled, each once
  Trigger,    \* "cron", "interval" or the event type of each entry
  Minutes,    \* the minutes that the cron expression of each entry matches
  Interval,   \* interval_sec of each entry, 0 when it has none; schedule_task
              \* accepts none below 5 (native/schedule/create.rs:105)
  Cooldown,   \* cooldown_sec of each entry
  MaxRuns,    \* max_runs of each entry, 0 for no limit
  EventTypes,
  Minute,     \* length of a minute
  MaxLate,    \* how long the loop leaves a due timer waiting
  None,
  MaxTime,    \* bound: when the model's clock stops
  MaxManual,  \* bound: runs triggered by hand
  MaxEntries  \* bound: entries created

ASSUME SchedulerAssumption ==
  /\ Trigger \in [Entries -> {"cron", "interval"} \cup EventTypes]
  /\ Minutes \in [Entries -> SUBSET Nat]
  /\ Interval \in [Entries -> Nat]
  /\ \A e \in Entries : Trigger[e] = "interval" => Interval[e] > 0
  /\ Cooldown \in [Entries -> Nat]
  /\ MaxRuns \in [Entries -> Nat]
  /\ Minute \in Nat \ {0}
  /\ MaxLate \in Nat /\ MaxTime \in Nat /\ MaxManual \in Nat
  /\ MaxEntries \in Nat
  /\ None \notin Nat

VARIABLES
  now,      \* the clock
  cronDue,  \* the next instant of the cron timer
  tickDue,  \* the next instant of the interval timer
  entries,  \* Scheduler::entries, None where there is none
  created,  \* the entries scheduled so far
  manuals,  \* runs triggered by hand so far
  history   \* ghost: when each entry fired, and whether by hand

vars == <<now, cronDue, tickDue, entries, created, manuals, history>>

Entry == [enabled : BOOLEAN, run_count : Nat, last_run_at : Nat \cup {None},
          created_at : Nat]

Firing == [at : Nat, manual : BOOLEAN]

TypeOK ==
  /\ now \in Nat
  /\ cronDue \in Nat /\ tickDue \in Nat
  /\ entries \in [Entries -> Entry \cup {None}]
  /\ created \subseteq Entries
  /\ manuals \in 0 .. MaxManual
  /\ history \in [Entries -> Seq(Firing)]
  /\ \A e \in Entries : entries[e] # None =>
       /\ entries[e].created_at <= now
       /\ entries[e].last_run_at # None =>
            entries[e].created_at <= entries[e].last_run_at
              /\ entries[e].last_run_at <= now

Init ==
  /\ now \in 0 .. Minute - 1
  /\ cronDue = now
  /\ tickDue = now
  /\ entries = [e \in Entries |-> None]
  /\ created = {}
  /\ manuals = 0
  /\ history = [e \in Entries |-> <<>>]

-----------------------------------------------------------------------------
Exists(e) == entries[e] # None
Enabled(e) == Exists(e) /\ entries[e].enabled

\* Mutant: the cooldown is compared with a clock that is one ahead.
CooldownAlmostOk(e) ==
  entries[e].last_run_at = None \/ now + 1 >= entries[e].last_run_at + Cooldown[e]

CooldownOk(e) ==
  entries[e].last_run_at = None \/ now >= entries[e].last_run_at + Cooldown[e]

MaxRunsReached(e) == MaxRuns[e] > 0 /\ entries[e].run_count >= MaxRuns[e]

\* What each of the three checks asks of an entry that its trigger concerns.
MayFire(e) == Enabled(e) /\ CooldownOk(e) /\ ~MaxRunsReached(e)

\* The entry after one more run; the last one it may have disables it.
AfterRun(e) ==
  LET count == entries[e].run_count + 1
  IN  [entries[e] EXCEPT !.last_run_at = now, !.run_count = count,
                         !.enabled = MaxRuns[e] = 0 \/ count < MaxRuns[e]]

Fire(due, manual) ==
  /\ entries' = [e \in Entries |-> IF e \in due THEN AfterRun(e) ELSE entries[e]]
  /\ history' = [e \in Entries |->
                   IF e \in due
                     THEN Append(history[e], [at |-> now, manual |-> manual])
                     ELSE history[e]]

\* check_cron: every entry whose expression matches the minute of the clock.
CronTick ==
  /\ cronDue <= now
  /\ cronDue' = cronDue + Minute
  /\ Fire({e \in Entries : /\ Trigger[e] = "cron"
                           /\ now \div Minute \in Minutes[e]
                           /\ MayFire(e)}, FALSE)
  /\ UNCHANGED <<now, tickDue, created, manuals>>

IntervalElapsed(e) ==
  entries[e].last_run_at = None \/ now >= entries[e].last_run_at + Interval[e]

\* Mutant: the timer ticks without the interval entries that never ran.
IntervalTickLater ==
  /\ tickDue <= now
  /\ tickDue' = tickDue + 1
  /\ Fire({e \in Entries : /\ Interval[e] > 0
                           /\ MayFire(e)
                           /\ entries[e].last_run_at # None
                           /\ IntervalElapsed(e)}, FALSE)
  /\ UNCHANGED <<now, cronDue, created, manuals>>

\* check_intervals.
IntervalTick ==
  /\ tickDue <= now
  /\ tickDue' = tickDue + 1
  /\ Fire({e \in Entries : /\ Interval[e] > 0
                           /\ MayFire(e)
                           /\ IntervalElapsed(e)}, FALSE)
  /\ UNCHANGED <<now, cronDue, created, manuals>>

\* check_events: an event of another source than the scheduler.
HandleEvent(type) ==
  /\ Fire({e \in Entries : Trigger[e] = type /\ MayFire(e)}, FALSE)
  /\ UNCHANGED <<now, cronDue, tickDue, created, manuals>>

\* Mutant: the last run allowed does not disable the entry.
TriggerForever(e) ==
  /\ Enabled(e)
  /\ manuals < MaxManual
  /\ manuals' = manuals + 1
  /\ entries' = [entries EXCEPT ![e].last_run_at = now, ![e].run_count = @ + 1]
  /\ history' = [history EXCEPT ![e] = Append(@, [at |-> now, manual |-> TRUE])]
  /\ UNCHANGED <<now, cronDue, tickDue, created>>

\* trigger_entry: neither the trigger nor the cooldown counts.
TriggerEntry(e) ==
  /\ Enabled(e)
  /\ manuals < MaxManual
  /\ manuals' = manuals + 1
  /\ Fire({e}, TRUE)
  /\ UNCHANGED <<now, cronDue, tickDue, created>>

\* Mutant: a new entry counts as if it had just run at the clock's origin.
CreateBackdated(e) ==
  /\ e \notin created
  /\ Cardinality(created) < MaxEntries
  /\ created' = created \cup {e}
  /\ entries' = [entries EXCEPT ![e] =
                   [enabled |-> TRUE, run_count |-> 0, last_run_at |-> 0,
                    created_at |-> now]]
  /\ UNCHANGED <<now, cronDue, tickDue, manuals, history>>

\* schedule_task.  The identifier is the millisecond of the call, so the entry
\* may take the place of another that was made at this very instant.
Create(e) ==
  /\ e \notin created
  /\ Cardinality(created) < MaxEntries
  /\ created' = created \cup {e}
  /\ \E old \in {e} \cup {d \in Entries : Exists(d) /\ entries[d].created_at = now} :
       entries' = [entries EXCEPT
                     ![old] = None,
                     ![e] = [enabled |-> TRUE, run_count |-> 0, last_run_at |-> None,
                             created_at |-> now]]
  /\ UNCHANGED <<now, cronDue, tickDue, manuals, history>>

\* unschedule_task.
Remove(e) ==
  /\ Exists(e)
  /\ entries' = [entries EXCEPT ![e] = None]
  /\ UNCHANGED <<now, cronDue, tickDue, created, manuals, history>>

\* Time passes; the loop handles a timer at most MaxLate after it is due.
Advance ==
  /\ now < MaxTime
  /\ now < cronDue + MaxLate
  /\ now < tickDue + MaxLate
  /\ now' = now + 1
  /\ UNCHANGED <<cronDue, tickDue, entries, created, manuals, history>>

Next ==
  \/ CronTick \/ IntervalTick \/ Advance
  \/ \E type \in EventTypes : HandleEvent(type)
  \/ \E e \in Entries : TriggerEntry(e) \/ Create(e) \/ Remove(e)

Spec == Init /\ [][Next]_vars

-----------------------------------------------------------------------------
\* Whatever fires an entry, it has run as often as its record says and never
\* more often than it may; it is disabled exactly when it has had its last run.
RunsWithinLimit ==
  \A e \in Entries :
    /\ MaxRuns[e] > 0 => Len(history[e]) <= MaxRuns[e]
    /\ Exists(e) =>
         /\ entries[e].run_count = Len(history[e])
         /\ entries[e].enabled <=> MaxRuns[e] = 0 \/ Len(history[e]) < MaxRuns[e]

\* After a run, by hand or not, none of the timers and events fires an entry
\* again within its cooldown; with a cooldown of a minute or more, timers that
\* fall into one minute because the loop was late fire a cron entry once.
FiringsAreSpaced ==
  \A e \in Entries : \A i, j \in 1 .. Len(history[e]) :
    i < j /\ ~history[e][j].manual =>
      /\ history[e][j].at >= history[e][i].at + Cooldown[e]
      /\ Trigger[e] = "cron" /\ Cooldown[e] >= Minute =>
           history[e][j].at \div Minute # history[e][i].at \div Minute

Longer(a, b) == IF a > b THEN a ELSE b

\* The time an entry counts from: its last run, or when it was created.
Since(e) == IF entries[e].last_run_at = None THEN entries[e].created_at
                                             ELSE entries[e].last_run_at

\* An enabled interval entry is never later than its interval or cooldown and
\* the delay of the loop.  An entry for every minute is never later than a minute
\* and its cooldown: the default cooldown is the period of the cron timer, so it
\* skips one minute when a tick is handled with less delay than the one before,
\* but never two in a row.
KeepsPace ==
  \A e \in Entries : Enabled(e) =>
    /\ Trigger[e] = "interval" =>
         now <= Since(e) + Longer(Interval[e], Cooldown[e]) + MaxLate
    /\ Trigger[e] = "cron" /\ (\A m \in 0 .. MaxTime : m \in Minutes[e]) =>
         now <= Since(e) + Minute + Cooldown[e] + MaxLate
=============================================================================
