------------------------ MODULE ConnectorSupervisorProofs ------------------------
(***************************************************************************)
(* For any connectors and any number of restarts: the types, one process   *)
(* of a connector at most, and no process after a stop unless the stop     *)
(* crossed a start or could not kill it.  The invariant says who holds     *)
(* each process: the entry of its connector, the starter until it has      *)
(* recorded it, or nobody after a failed kill, its connector then at rest. *)
(***************************************************************************)
EXTENDS ConnectorSupervisor, FiniteSetTheorems, TLAPS

\* A start works on an entry without a child, and the process it has started is
\* its connector's and in no entry.
StartIsFresh ==
  /\ phase = "startup" =>
       \A c \in toStart : entry[c].status = "stopped" /\ starter.name # c
  /\ starter.step # "idle" => entry[starter.name].status # "running"
  /\ starter.step = "spawned" =>
       /\ owner[starter.pid] = starter.name
       /\ \A c \in Connectors : entry[c].child # starter.pid

\* Until the gateway is gone every process has a holder, and only one.
ProcessesAreHeld ==
  phase # "gone" =>
    \A p \in alive : entry[owner[p]].child = p \/ starter.pid = p \/ p \in unkilled

\* A process nobody could kill is its connector's last.
UnkilledIsLast ==
  \A p \in unkilled :
    /\ owner[p] # None
    /\ entry[owner[p]].status = "stopped"
    /\ starter.name # owner[p]

OneEach == \A p, q \in alive : owner[p] = owner[q] => p = q

\* A stop that crossed no start leaves the connector alone for good.
StoppedIsIdle ==
  /\ stopped \cup unkilled # {} => phase \in {"stopping", "gone"}
  /\ phase = "gone" => starter = Idle /\ toStart = {}
  /\ \A c \in stopped \ crossed :
       entry[c].status = "stopped" /\ starter.name # c /\ Alive(c) \subseteq unkilled

Inv == TypeOK /\ StartIsFresh /\ ProcessesAreHeld /\ UnkilledIsLast /\ OneEach
         /\ StoppedIsIdle

LEMMA InvInit == Init => Inv
BY SupervisorAssumption
   DEF Init, Inv, TypeOK, Entry, Start, StartIsFresh, ProcessesAreHeld, UnkilledIsLast,
       OneEach, StoppedIsIdle, Idle, Alive

\* A changed entry keeps its type when its new value has one.
LEMMA EntryUpdate ==
  ASSUME TypeOK, NEW c \in Connectors, NEW e \in Entry,
         e.status = "running" <=> e.child # None,
         e.child # None => owner[e.child] = c,
         entry' = [entry EXCEPT ![c] = e], UNCHANGED owner
  PROVE  /\ entry' \in [Connectors -> Entry]
         /\ \A d \in Connectors :
              /\ entry'[d].status = "running" <=> entry'[d].child # None
              /\ entry'[d].child # None => owner'[entry'[d].child] = d
BY DEF TypeOK

LEMMA DecideStart ==
  ASSUME NEW c, Decide(c)
  PROVE  starter' = [step |-> "decided", name |-> c, pid |-> None]
BY DEF Decide, Idle

\* The cooldown elapsing and a failure to start leave the child alone.
LEMMA EntryEdits ==
  ASSUME NEW e \in Entry
  PROVE  LET cooled == [e EXCEPT !.cooled = TRUE]
             failed == [e EXCEPT !.status = "failed", !.cooled = FALSE]
         IN  /\ cooled \in Entry /\ failed \in Entry
             /\ cooled.status = e.status /\ cooled.child = e.child
             /\ failed.status = "failed" /\ failed.child = e.child
BY DEF Entry

LEMMA InvNext == Inv /\ [Next]_vars => Inv'
<1> SUFFICES ASSUME Inv, [Next]_vars PROVE Inv'
  OBVIOUS
<1> USE SupervisorAssumption
        DEF Inv, TypeOK, Entry, Start, StartIsFresh, ProcessesAreHeld, UnkilledIsLast,
            OneEach, StoppedIsIdle, Idle, Alive
<1>1. ASSUME NEW c \in Connectors, StartNext(c) PROVE Inv'
  <2>1. TypeOK'
    BY <1>1 DEF StartNext
  <2>2. StartIsFresh'
    BY <1>1 DEF StartNext
  <2>3. ProcessesAreHeld'
    BY <1>1 DEF StartNext
  <2>4. OneEach'
    BY <1>1 DEF StartNext
  <2>5. StoppedIsIdle'
    BY <1>1 DEF StartNext
  <2>6. UnkilledIsLast'
    BY <1>1 DEF StartNext
  <2> QED
    BY <2>1, <2>2, <2>3, <2>4, <2>5, <2>6
<1>2. ASSUME NEW c \in Connectors, Check(c) PROVE Inv'
  <2> DEFINE failed == [status |-> "failed", child |-> None, cooled |-> FALSE]
  <2>1. /\ starter = Idle /\ Monitoring
        /\ toStart' = toStart \ {c}
        /\ UNCHANGED <<owner, alive, phase, stopped, unkilled, crossed>>
    BY <1>2 DEF Check, Decide, Pass
  <2> DEFINE decided == [step |-> "decided", name |-> c, pid |-> None]
  <2>0. Decide(c) => starter' = decided
    BY DecideStart
  <2>2. \/ starter' = Idle
        \/ /\ starter' = decided /\ entry'[c].status = "failed"
           /\ Exited(c) \/ entry[c].status = "failed"
    BY <1>2, <2>0 DEF Check, Pass
  <2>3. \/ entry' = entry
        \/ entry' = [entry EXCEPT ![c] = failed] /\ Exited(c)
    BY <1>2 DEF Check, Decide, Pass
  <2>4. TypeOK'
    <3>1. CASE entry' = entry
      BY <2>1, <2>2, <3>1
    <3>2. CASE entry' = [entry EXCEPT ![c] = failed]
      BY <2>1, <2>2, <3>2, EntryUpdate
    <3> QED
      BY <2>3, <3>1, <3>2
  <2>5. StartIsFresh'
    BY <2>1, <2>2, <2>3 DEF Monitoring, Exited
  <2>6. ProcessesAreHeld'
    BY <2>1, <2>2, <2>3 DEF Exited
  <2>7. UnkilledIsLast'
    BY <2>1, <2>2, <2>3 DEF Exited
  <2>8. OneEach'
    BY <2>1
  <2>9. StoppedIsIdle'
    <3>1. (stopped \cup unkilled # {} => phase \in {"stopping", "gone"})'
          /\ (phase = "gone" => starter = Idle /\ toStart = {})'
      BY <2>1 DEF Monitoring
    <3>2. ASSUME NEW d \in stopped \ crossed
          PROVE entry'[d].status = "stopped" /\ starter'.name # d
      BY <2>1, <2>2, <2>3 DEF Exited
    <3> QED
      BY <2>1, <3>1, <3>2
  <2> QED
    BY <2>4, <2>5, <2>6, <2>7, <2>8, <2>9
<1>17. ASSUME NEW c \in Connectors, CheckFails(c) PROVE Inv'
  BY <1>17 DEF CheckFails, Pass, Monitoring
<1>3. ASSUME NEW c \in Connectors, CoolDown(c) PROVE Inv'
  <2>1. entry' = [entry EXCEPT ![c] = [entry[c] EXCEPT !.cooled = TRUE]]
    BY <1>3 DEF CoolDown
  <2>2. UNCHANGED <<owner, alive, phase, starter, toStart, stopped, unkilled, crossed>>
    BY <1>3 DEF CoolDown
  <2>3. TypeOK'
    <3> DEFINE e == [entry[c] EXCEPT !.cooled = TRUE]
    <3>1. e \in Entry /\ (e.status = "running" <=> e.child # None)
          /\ (e.child # None => owner[e.child] = c)
      BY EntryEdits
    <3> QED
      BY <2>1, <2>2, <3>1, EntryUpdate
  <2>4. StartIsFresh' /\ ProcessesAreHeld' /\ UnkilledIsLast' /\ OneEach' /\ StoppedIsIdle'
    BY <2>1, <2>2
  <2> QED
    BY <2>3, <2>4
<1>4. ASSUME NEW c \in Connectors, StopOne(c) PROVE Inv'
  <2> DEFINE e == [status |-> "stopped", child |-> None, cooled |-> FALSE]
  <2>1. /\ phase = "stopping" /\ stopped' = stopped \cup {c}
        /\ entry' = [entry EXCEPT ![c] = e]
        /\ crossed' = IF starter.name = c THEN crossed \cup {c} ELSE crossed
        /\ UNCHANGED <<owner, phase, starter, toStart>>
    BY <1>4 DEF StopOne
  <2>2. \/ alive' = alive \ {entry[c].child} /\ unkilled' = unkilled
        \/ /\ entry[c].child # None
           /\ unkilled' = unkilled \cup {entry[c].child}
           /\ alive' = alive
    BY <1>4 DEF StopOne
  <2>3. TypeOK'
    BY <2>1, <2>2, EntryUpdate
  <2>4. StartIsFresh'
    BY <2>1
  <2>5. ProcessesAreHeld'
    BY <2>1, <2>2
  <2>6. UnkilledIsLast'
    BY <2>1, <2>2
  <2>7. OneEach'
    BY <2>1, <2>2
  <2>8. StoppedIsIdle'
    <3>1. ASSUME NEW d \in (stopped \ crossed)', d # c
          PROVE (entry[d].status = "stopped" /\ starter.name # d
                  /\ Alive(d) \subseteq unkilled)'
      BY <2>1, <2>2, <3>1
    <3>2. ASSUME c \notin crossed' PROVE starter.name # c /\ (Alive(c) \subseteq unkilled)'
      BY <2>1, <2>2, <3>2
    <3> QED
      BY <2>1, <2>2, <3>1, <3>2
  <2> QED
    BY <2>3, <2>4, <2>5, <2>6, <2>7, <2>8
<1>5. CASE Serve
  BY <1>5 DEF Serve
<1>6. CASE Starting
  <2> DEFINE c == starter.name
  <2>1. /\ starter.step = "decided" /\ c \in Connectors
        /\ entry' = [entry EXCEPT ![c].status = "starting"]
        /\ starter' = [starter EXCEPT !.step = "spawning"]
        /\ UNCHANGED <<owner, alive, phase, toStart, stopped, unkilled, crossed>>
    BY <1>6 DEF Starting
  <2>2. TypeOK' /\ StartIsFresh'
    BY <2>1
  <2>3. ProcessesAreHeld' /\ UnkilledIsLast' /\ OneEach'
    BY <2>1
  <2>4. StoppedIsIdle'
    BY <2>1
  <2> QED
    BY <2>2, <2>3, <2>4
<1>7. CASE SpawnFails
  BY <1>7 DEF SpawnFails
<1>8. CASE Record
  <2>1. TypeOK'
    BY <1>8 DEF Record
  <2>2. StartIsFresh'
    BY <1>8 DEF Record
  <2>3. ProcessesAreHeld'
    BY <1>8 DEF Record
  <2>4. OneEach'
    BY <1>8 DEF Record
  <2>5. StoppedIsIdle'
    BY <1>8 DEF Record
  <2>6. UnkilledIsLast'
    BY <1>8 DEF Record
  <2> QED
    BY <2>1, <2>2, <2>3, <2>4, <2>5, <2>6
<1>9. CASE RecordFailure
  <2>1. entry' = [entry EXCEPT ![starter.name] =
                    [entry[starter.name] EXCEPT !.status = "failed", !.cooled = FALSE]]
    BY <1>9 DEF RecordFailure
  <2>2. /\ starter.step = "failed" /\ starter' = Idle
        /\ UNCHANGED <<owner, alive, phase, toStart, stopped, unkilled, crossed>>
    BY <1>9 DEF RecordFailure
  <2>3. TypeOK'
    <3> DEFINE c == starter.name
               e == [entry[c] EXCEPT !.status = "failed", !.cooled = FALSE]
    <3>1. c \in Connectors
      BY <2>2
    <3>2. e \in Entry /\ e.status = "failed" /\ e.child = entry[c].child
      BY <3>1, EntryEdits
    <3>3. entry[c].child = None
      BY <2>2, <3>1
    <3>4. e \in Entry /\ (e.status = "running" <=> e.child # None)
          /\ (e.child # None => owner[e.child] = c)
      BY <3>2, <3>3
    <3> QED
      BY <2>1, <2>2, <3>1, <3>4, EntryUpdate
  <2>4. StartIsFresh' /\ ProcessesAreHeld' /\ UnkilledIsLast' /\ OneEach' /\ StoppedIsIdle'
    BY <2>1, <2>2
  <2> QED
    BY <2>3, <2>4
<1>10. CASE Round
  BY <1>10 DEF Round, Monitoring
<1>11. CASE Shutdown
  BY <1>11 DEF Shutdown
<1>12. CASE Exit
  BY <1>12 DEF Exit
<1>13. ASSUME NEW p \in Pids, Spawn(p) PROVE Inv'
  <2>1. TypeOK'
    <3>1. owner' \in [Pids -> Connectors \cup {None}] /\ starter' \in Start
      BY <1>13 DEF Spawn
    <3>4. alive' \subseteq {q \in Pids : owner'[q] # None}
      BY <1>13 DEF Spawn
    <3>2. \A d \in Connectors : entry[d].child # p
      BY <1>13 DEF Spawn
    <3>3. \A d \in Connectors : entry[d].child # None => owner'[entry[d].child] = d
      BY <1>13, <3>2 DEF Spawn
    <3> QED
      BY <1>13, <3>1, <3>3, <3>4 DEF Spawn
  <2>2. StartIsFresh'
    BY <1>13 DEF Spawn
  <2>3. ProcessesAreHeld'
    BY <1>13 DEF Spawn
  <2>4. OneEach'
    BY <1>13 DEF Spawn
  <2>5. StoppedIsIdle'
    BY <1>13 DEF Spawn
  <2>6. UnkilledIsLast'
    BY <1>13 DEF Spawn
  <2> QED
    BY <2>1, <2>2, <2>3, <2>4, <2>5, <2>6
<1>14. ASSUME NEW p \in Pids, Crash(p) PROVE Inv'
  BY <1>14 DEF Crash
<1>15. CASE UNCHANGED vars
  BY <1>15 DEF vars
<1>16. QED
  BY <1>1, <1>2, <1>3, <1>4, <1>5, <1>6, <1>7, <1>8, <1>9, <1>10, <1>11, <1>12,
     <1>13, <1>14, <1>15, <1>17 DEF Next

LEMMA InvHolds == Spec => []Inv
<1> QED
  BY InvInit, InvNext, PTL DEF Spec

-----------------------------------------------------------------------------
\* Whatever the monitor, the starts and the stops interleave, an entry is
\* running exactly when it has a child, and the child is its own process.
THEOREM TypesCorrect == Spec => []TypeOK
<1>1. Inv => TypeOK
  BY DEF Inv
<1> QED
  BY <1>1, InvHolds, PTL

\* No connector ever has two processes, also when its stop crosses a restart.
THEOREM OneProcess == Spec => []OneProcessEach
<1>1. Inv => OneProcessEach
  <2> SUFFICES ASSUME Inv, NEW c \in Connectors
               PROVE Cardinality(Alive(c)) <= 1
    BY DEF OneProcessEach
  <2>1. CASE Alive(c) = {}
    BY <2>1, FS_EmptySet
  <2>2. CASE Alive(c) # {}
    <3>1. PICK p \in Alive(c) : TRUE
      BY <2>2
    <3>2. Alive(c) = {p}
      BY <3>1 DEF Alive, Inv, OneEach
    <3> QED
      <4>1. Cardinality({p}) = 1
        BY FS_Singleton
      <4> QED
        BY <3>2, <4>1
  <2> QED
    BY <2>1, <2>2
<1> QED
  BY <1>1, InvHolds, PTL

\* A process that outlives its connector's stop was being started at that moment
\* or is one whose kill failed, then and after the gateway's end.
THEOREM StopsHold == Spec => []StoppedUnlessCrossed
<1>1. Inv => StoppedUnlessCrossed
  BY DEF Inv, StoppedIsIdle, StoppedUnlessCrossed
<1> QED
  BY <1>1, InvHolds, PTL
=============================================================================
