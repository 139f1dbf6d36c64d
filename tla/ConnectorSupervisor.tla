--------------------------- MODULE ConnectorSupervisor ---------------------------
(***************************************************************************)
(* The supervisor of the connector processes.  start_all starts them one   *)
(* after the other; from then on the monitor does, also one at a time; at  *)
(* the gateway's shutdown stop_all runs while the monitor still does.  The *)
(* lock on the table of processes is free between the monitor's decision   *)
(* to restart, the start itself and the record of the new process.  A stop *)
(* may fail to kill, and the gateway may end without stopping anything.    *)
(***************************************************************************)
EXTENDS Naturals, FiniteSets

CONSTANTS
  Connectors,
  Restart,    \* those configured to be restarted
  None,
  Pids        \* bound: the processes that can be started, each once

ASSUME SupervisorAssumption ==
  /\ Restart \subseteq Connectors
  /\ None \notin Connectors \cup Pids

VARIABLES
  entry,     \* ProcessSupervisor::processes: status, child, and whether the
             \* restart cooldown has elapsed since the last failure
  owner,     \* the connector of each process started so far
  alive,     \* the processes that run
  phase,     \* of the gateway: start_all, serving, stop_all, gone
  starter,   \* the task that starts processes: its step, connector and process
  toStart,   \* names start_all or the monitor's round has still to look at
  stopped,   \* connectors stop_all has stopped
  unkilled,  \* ghost: processes whose kill failed at their connector's stop
  crossed    \* ghost: connectors stopped while they were being started

vars == <<entry, owner, alive, phase, starter, toStart, stopped, unkilled,
          crossed>>

Entry == [status : {"stopped", "starting", "running", "failed"},
          child  : Pids \cup {None},
          cooled : BOOLEAN]

Start == [step : {"idle", "decided", "spawning", "spawned", "failed"},
          name : Connectors \cup {None},
          pid  : Pids \cup {None}]

TypeOK ==
  /\ entry \in [Connectors -> Entry]
  /\ owner \in [Pids -> Connectors \cup {None}]
  /\ alive \subseteq {p \in Pids : owner[p] # None}
  /\ phase \in {"startup", "serving", "stopping", "gone"}
  /\ starter \in Start
  /\ toStart \subseteq Connectors
  /\ stopped \subseteq Connectors
  /\ unkilled \subseteq Pids
  /\ crossed \subseteq Connectors
  /\ \A c \in Connectors :
       /\ entry[c].status = "running" <=> entry[c].child # None
       /\ entry[c].child # None => owner[entry[c].child] = c
  /\ starter.step # "idle" <=> starter.name # None
  /\ starter.step = "spawned" <=> starter.pid # None

Idle == [step |-> "idle", name |-> None, pid |-> None]

\* register() was called for every configured connector.
Init ==
  /\ entry = [c \in Connectors |->
                [status |-> "stopped", child |-> None, cooled |-> FALSE]]
  /\ owner = [p \in Pids |-> None]
  /\ alive = {}
  /\ phase = "startup"
  /\ starter = Idle
  /\ toStart = Connectors
  /\ stopped = {}
  /\ unkilled = {}
  /\ crossed = {}

-----------------------------------------------------------------------------
\* start_all takes the next name; the map has no order.
StartNext(c) ==
  /\ phase = "startup"
  /\ starter = Idle
  /\ c \in toStart
  /\ toStart' = toStart \ {c}
  /\ starter' = [Idle EXCEPT !.step = "decided", !.name = c]
  /\ UNCHANGED <<entry, owner, alive, phase, stopped, unkilled, crossed>>

\* start_all has returned: the monitor and the server start.
Serve ==
  /\ phase = "startup"
  /\ starter = Idle
  /\ toStart = {}
  /\ phase' = "serving"
  /\ UNCHANGED <<entry, owner, alive, starter, toStart, stopped, unkilled, crossed>>

\* start_one, under the lock ...
Starting ==
  /\ starter.step = "decided"
  /\ IF entry[starter.name].status = "running"
       THEN /\ starter' = Idle
            /\ UNCHANGED entry
       ELSE /\ entry' = [entry EXCEPT ![starter.name].status = "starting"]
            /\ starter' = [starter EXCEPT !.step = "spawning"]
  /\ UNCHANGED <<owner, alive, phase, toStart, stopped, unkilled, crossed>>

\* ... without it: the process is started, or cannot be ...
Spawn(p) ==
  /\ starter.step = "spawning"
  /\ owner[p] = None
  /\ owner' = [owner EXCEPT ![p] = starter.name]
  /\ alive' = alive \cup {p}
  /\ starter' = [starter EXCEPT !.step = "spawned", !.pid = p]
  /\ UNCHANGED <<entry, phase, toStart, stopped, unkilled, crossed>>

SpawnFails ==
  /\ starter.step = "spawning"
  /\ starter' = [starter EXCEPT !.step = "failed"]
  /\ UNCHANGED <<entry, owner, alive, phase, toStart, stopped, unkilled, crossed>>

\* Mutant: the child is not kept.
RecordStatusOnly ==
  /\ starter.step = "spawned"
  /\ entry' = [entry EXCEPT ![starter.name] =
                 [status |-> "running", child |-> None, cooled |-> FALSE]]
  /\ starter' = Idle
  /\ UNCHANGED <<owner, alive, phase, toStart, stopped, unkilled, crossed>>

\* ... and under the lock again.
Record ==
  /\ starter.step = "spawned"
  /\ entry' = [entry EXCEPT ![starter.name] =
                 [status |-> "running", child |-> starter.pid, cooled |-> FALSE]]
  /\ starter' = Idle
  /\ UNCHANGED <<owner, alive, phase, toStart, stopped, unkilled, crossed>>

RecordFailure ==
  /\ starter.step = "failed"
  /\ entry' = [entry EXCEPT ![starter.name] =
                 [@ EXCEPT !.status = "failed", !.cooled = FALSE]]
  /\ starter' = Idle
  /\ UNCHANGED <<owner, alive, phase, toStart, stopped, unkilled, crossed>>

-----------------------------------------------------------------------------
Monitoring == phase \in {"serving", "stopping"}

\* Every two seconds the monitor goes over the names.
Round ==
  /\ Monitoring
  /\ starter = Idle
  /\ toStart = {}
  /\ toStart' = Connectors
  /\ UNCHANGED <<entry, owner, alive, phase, starter, stopped, unkilled, crossed>>

Exited(c) == entry[c].child # None /\ entry[c].child \notin alive

\* The monitor decides to restart c ...
Decide(c) ==
  /\ toStart' = toStart \ {c}
  /\ starter' = [Idle EXCEPT !.step = "decided", !.name = c]

\* ... or goes on to the next name.
Pass(c) ==
  /\ toStart' = toStart \ {c}
  /\ UNCHANGED starter

\* Mutant: a child that has exited is only noted; nothing restarts it.
CheckAndForget(c) ==
  /\ Monitoring
  /\ starter = Idle
  /\ c \in toStart
  /\ IF Exited(c)
       THEN /\ entry' = [entry EXCEPT ![c] = [status |-> "stopped",
                                              child |-> None, cooled |-> FALSE]]
            /\ Pass(c)
       ELSE /\ UNCHANGED entry
            /\ IF c \in Restart /\ entry[c].status = "failed" /\ entry[c].cooled
                 THEN Decide(c) ELSE Pass(c)
  /\ UNCHANGED <<owner, alive, phase, stopped, unkilled, crossed>>

\* Mutant: a child the monitor cannot reach is started once more.
CheckAnyway(c) ==
  /\ Monitoring
  /\ starter = Idle
  /\ c \in toStart
  /\ entry' = [entry EXCEPT ![c] = [status |-> "failed", child |-> None,
                                    cooled |-> FALSE]]
  /\ IF c \in Restart THEN Decide(c) ELSE Pass(c)
  /\ UNCHANGED <<owner, alive, phase, stopped, unkilled, crossed>>

\* An exited child is restarted at once, a failed start after the cooldown.
Check(c) ==
  /\ Monitoring
  /\ starter = Idle
  /\ c \in toStart
  /\ IF Exited(c)
       THEN /\ entry' = [entry EXCEPT ![c] = [status |-> "failed",
                                              child |-> None, cooled |-> FALSE]]
            /\ IF c \in Restart THEN Decide(c) ELSE Pass(c)
       ELSE /\ UNCHANGED entry
            /\ IF c \in Restart /\ entry[c].status = "failed" /\ entry[c].cooled
                 THEN Decide(c) ELSE Pass(c)
  /\ UNCHANGED <<owner, alive, phase, stopped, unkilled, crossed>>

\* try_wait cannot tell: the child that has exited waits for the next round.
CheckFails(c) ==
  /\ Monitoring
  /\ starter = Idle
  /\ c \in toStart
  /\ Exited(c)
  /\ Pass(c)
  /\ UNCHANGED <<entry, owner, alive, phase, stopped, unkilled, crossed>>

\* Five seconds have passed since the last failure.
CoolDown(c) ==
  /\ entry[c].status = "failed"
  /\ ~entry[c].cooled
  /\ entry' = [entry EXCEPT ![c].cooled = TRUE]
  /\ UNCHANGED <<owner, alive, phase, starter, toStart, stopped, unkilled, crossed>>

\* A connector process ends on its own.
Crash(p) ==
  /\ p \in alive
  /\ alive' = alive \ {p}
  /\ UNCHANGED <<entry, owner, phase, starter, toStart, stopped, unkilled, crossed>>

-----------------------------------------------------------------------------
\* The server ends or Ctrl+C: stop_all begins.
Shutdown ==
  /\ phase = "serving"
  /\ phase' = "stopping"
  /\ UNCHANGED <<entry, owner, alive, starter, toStart, stopped, unkilled, crossed>>

\* Mutant: a process that outlives the wait after SIGTERM is given up.
StopPolitely(c) ==
  /\ phase = "stopping"
  /\ c \notin stopped
  /\ stopped' = stopped \cup {c}
  /\ entry' = [entry EXCEPT ![c] = [status |-> "stopped", child |-> None,
                                    cooled |-> FALSE]]
  /\ \/ alive' = alive \ {entry[c].child}
     \/ UNCHANGED alive
  /\ crossed' = IF starter.name = c THEN crossed \cup {c} ELSE crossed
  /\ UNCHANGED <<owner, phase, starter, toStart, unkilled>>

\* stop_one, under the lock throughout: SIGTERM, a wait, SIGKILL if need be.
\* The child is let go of also when it cannot be killed.
StopOne(c) ==
  /\ phase = "stopping"
  /\ c \notin stopped
  /\ stopped' = stopped \cup {c}
  /\ entry' = [entry EXCEPT ![c] = [status |-> "stopped", child |-> None,
                                    cooled |-> FALSE]]
  /\ \/ /\ alive' = alive \ {entry[c].child}
        /\ UNCHANGED unkilled
     \/ /\ entry[c].child # None
        /\ unkilled' = unkilled \cup {entry[c].child}
        /\ UNCHANGED alive
  /\ crossed' = IF starter.name = c THEN crossed \cup {c} ELSE crossed
  /\ UNCHANGED <<owner, phase, starter, toStart>>

\* The gateway ends, after stop_all or without it: the log file cannot be set
\* up, or a signal other than Ctrl+C.  Processes are not killed with their Child.
Exit ==
  /\ phase # "gone"
  /\ phase' = "gone"
  /\ starter' = Idle
  /\ toStart' = {}
  /\ UNCHANGED <<entry, owner, alive, stopped, unkilled, crossed>>

Next ==
  \/ \E c \in Connectors :
       StartNext(c) \/ Check(c) \/ CheckFails(c) \/ CoolDown(c) \/ StopOne(c)
  \/ Serve \/ Starting \/ SpawnFails \/ Record \/ RecordFailure
  \/ Round \/ Shutdown \/ Exit
  \/ \E p \in Pids : Spawn(p) \/ Crash(p)

Spec == Init /\ [][Next]_vars

\* The tasks are scheduled and time passes; a connector's start may fail always.
FairSpec ==
  /\ Spec
  /\ WF_vars(Serve) /\ WF_vars(Starting) /\ WF_vars(SpawnFails \/ \E p \in Pids : Spawn(p))
  /\ WF_vars(Record) /\ WF_vars(RecordFailure) /\ WF_vars(Round)
  /\ \A c \in Connectors :
       /\ WF_vars(StartNext(c)) /\ WF_vars(Check(c) \/ CheckFails(c))
       /\ WF_vars(CoolDown(c))

-----------------------------------------------------------------------------
Alive(c) == {p \in alive : owner[p] = c}

\* Starts, restarts and stops together never leave two processes of a connector:
\* the gateway would answer every message of its channel twice.  A stop that
\* crosses a restart is no exception.
OneProcessEach ==
  \A c \in Connectors : Cardinality(Alive(c)) <= 1

\* A connector that stop_all has stopped has no process, then or after the
\* gateway's end, but one that was being started at that moment or could not be
\* killed: the monitor, which still runs, does not bring it back.
StoppedUnlessCrossed ==
  \A c \in stopped \ crossed : Alive(c) \subseteq unkilled

Down(c) ==
  /\ phase = "serving"
  /\ Alive(c) = {}
  /\ starter.name # c

\* A connector to be restarted that is down is started again, or the gateway
\* shuts down: no exit and no failed start is forgotten, as long as the check of
\* its child does not go on failing for ever.
CrashedComesBack ==
  \A c \in Restart : (<>[][~CheckFails(c)]_vars) => (Down(c) ~> ~Down(c))
=============================================================================
