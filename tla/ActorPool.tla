------------------------------ MODULE ActorPool ------------------------------
(***************************************************************************)
(* The pool of LLM capacity slots, and the tasks that take one: handlers   *)
(* of conversations, which go on without a slot when they get none, and    *)
(* scheduled tasks, which give up.                                         *)
(*                                                                         *)
(* A provider's capacity is kept twice: in a fair semaphore, and in the    *)
(* status of its actors behind a mutex.  acquire takes a permit and then   *)
(* marks an actor, release marks the actor and then drops the permit; a    *)
(* cooldown is looked at once, before the wait for the permit.             *)
(***************************************************************************)
EXTENDS Naturals, Sequences, FiniteSets

CONSTANTS
  Providers,  \* configured providers
  Slots,      \* actors per provider: max_concurrent, raised to 1 if it is 0
  Tasks,      \* tasks that use the pool
  Schedules,  \* those that run scheduled tasks
  None        \* no provider, no actor

ASSUME PoolAssumption ==
  /\ Slots \in [Providers -> Nat \ {0}]
  /\ IsFiniteSet(Tasks) /\ Schedules \subseteq Tasks
  /\ None \notin Providers /\ None \notin Providers \X Nat

VARIABLES
  busy,     \* actors whose status is Busy
  permits,  \* available permits of each provider's semaphore
  waiters,  \* tasks queued at each semaphore, first come first served
  cooling,  \* providers whose cooldown has not run out
  task,     \* where each task is, its provider and its actor
  dropped   \* providers one of whose slots was dropped without release

vars == <<busy, permits, waiters, cooling, task, dropped>>

ActorsOf(p) == {<<p, i>> : i \in 0 .. Slots[p] - 1}
Actors == UNION {ActorsOf(p) : p \in Providers}

\* idle; about to ask for a permit; queued for one; owns one and is about to
\* mark an actor; runs with a slot; releases it (mark, then drop); runs
\* without a slot.
TaskSteps == {"idle", "ask", "wait", "permit", "run", "release", "drop",
              "unheld"}

TypeOK ==
  /\ busy \subseteq Actors
  /\ permits \in [Providers -> Nat]
  /\ waiters \in [Providers -> Seq(Tasks)]
  /\ cooling \subseteq Providers
  /\ task \in [Tasks -> [step     : TaskSteps,
                         provider : Providers \cup {None},
                         actor    : Actors \cup {None}]]
  /\ \A t \in Tasks : task[t].actor \in Actors <=> task[t].step \in {"run", "release"}
  /\ dropped \subseteq Providers

NoTask == [step |-> "idle", provider |-> None, actor |-> None]

At(t, s) == task[t].step = s

\* Tasks that own a permit of p.
Holders(p) == {t \in Tasks : /\ task[t].provider = p
                             /\ task[t].step \in {"permit", "run", "release", "drop"}}

IdleActors(p) == ActorsOf(p) \ busy

Init ==
  /\ busy = {}
  /\ permits = Slots
  /\ waiters = [p \in Providers |-> <<>>]
  /\ cooling = {}
  /\ task = [t \in Tasks |-> NoTask]
  /\ dropped = {}

\* What acquire's caller does with an error.
Refused(t) == IF t \in Schedules THEN NoTask ELSE [NoTask EXCEPT !.step = "unheld"]

\* t leaves in state s and its permit of p is dropped: the semaphore hands it
\* to the task that has waited longest.
ReturnPermit(t, p, s) ==
  IF waiters[p] = <<>>
    THEN /\ permits' = [permits EXCEPT ![p] = @ + 1]
         /\ task' = [task EXCEPT ![t] = s]
         /\ UNCHANGED waiters
    ELSE /\ waiters' = [waiters EXCEPT ![p] = Tail(@)]
         /\ task' = [task EXCEPT ![t] = s,
                                 ![Head(waiters[p])].step = "permit"]
         /\ UNCHANGED permits

-----------------------------------------------------------------------------
\* acquire looks at the cooldown of the provider...
CheckCooldown(t, p) ==
  /\ At(t, "idle")
  /\ task' = [task EXCEPT ![t] =
                IF p \in cooling
                  THEN Refused(t)
                  ELSE [step |-> "ask", provider |-> p, actor |-> None]]
  /\ UNCHANGED <<busy, permits, waiters, cooling, dropped>>

\* Mutant: a task does not wait for a permit.
TakeAnyway(t) ==
  /\ At(t, "ask")
  /\ permits' = [permits EXCEPT ![task[t].provider] = @ - 1]
  /\ task' = [task EXCEPT ![t].step = "permit"]
  /\ UNCHANGED <<busy, waiters, cooling, dropped>>

\* ... takes a permit of its semaphore, or waits for one...
TakePermit(t) ==
  LET p == task[t].provider IN
  /\ At(t, "ask")
  /\ IF permits[p] > 0
       THEN /\ permits' = [permits EXCEPT ![p] = @ - 1]
            /\ task' = [task EXCEPT ![t].step = "permit"]
            /\ UNCHANGED waiters
       ELSE /\ waiters' = [waiters EXCEPT ![p] = Append(@, t)]
            /\ task' = [task EXCEPT ![t].step = "wait"]
            /\ UNCHANGED permits
  /\ UNCHANGED <<busy, cooling, dropped>>

\* Mutant: the actor found is not marked.
FindActor(t) ==
  LET p == task[t].provider IN
  /\ At(t, "permit")
  /\ IF IdleActors(p) # {}
       THEN /\ \E a \in IdleActors(p) :
                 /\ \A b \in IdleActors(p) : a[2] <= b[2]
                 /\ task' = [task EXCEPT ![t] =
                              [step |-> "run", provider |-> p, actor |-> a]]
            /\ UNCHANGED <<permits, waiters>>
       ELSE ReturnPermit(t, p, Refused(t))
  /\ UNCHANGED <<busy, cooling, dropped>>

\* ... and marks the first idle actor; there may be none (Unavailable), and
\* then the permit is dropped.
MarkBusy(t) ==
  LET p == task[t].provider IN
  /\ At(t, "permit")
  /\ IF IdleActors(p) # {}
       THEN /\ \E a \in IdleActors(p) :
                 /\ \A b \in IdleActors(p) : a[2] <= b[2]
                 /\ busy' = busy \cup {a}
                 /\ task' = [task EXCEPT ![t] =
                              [step |-> "run", provider |-> p, actor |-> a]]
            /\ UNCHANGED <<permits, waiters>>
       ELSE ReturnPermit(t, p, Refused(t)) /\ UNCHANGED busy
  /\ UNCHANGED <<cooling, dropped>>

\* The loop has ended; a scheduled task sets a cooldown when the model was
\* unavailable.
EndRun(t) ==
  /\ At(t, "run")
  /\ \/ UNCHANGED cooling
     \/ t \in Schedules /\ cooling' = cooling \cup {task[t].provider}
  /\ task' = [task EXCEPT ![t].step = "release"]
  /\ UNCHANGED <<busy, permits, waiters, dropped>>

\* Mutant: release does not drop the permit.
ForgetPermit(t) ==
  /\ At(t, "release")
  /\ busy' = busy \ {task[t].actor}
  /\ task' = [task EXCEPT ![t] = NoTask]
  /\ UNCHANGED <<permits, waiters, cooling, dropped>>

\* Mutant: release leaves the actor busy.
KeepBusy(t) ==
  /\ At(t, "release")
  /\ task' = [task EXCEPT ![t].step = "drop", ![t].actor = None]
  /\ UNCHANGED <<busy, permits, waiters, cooling, dropped>>

\* release: the actor becomes idle under the mutex...
MarkIdle(t) ==
  /\ At(t, "release")
  /\ busy' = busy \ {task[t].actor}
  /\ task' = [task EXCEPT ![t].step = "drop", ![t].actor = None]
  /\ UNCHANGED <<permits, waiters, cooling, dropped>>

\* Mutant: nobody in the queue is woken.
WakeNobody(t) ==
  /\ At(t, "drop")
  /\ permits' = [permits EXCEPT ![task[t].provider] = @ + 1]
  /\ task' = [task EXCEPT ![t] = NoTask]
  /\ UNCHANGED <<busy, waiters, cooling, dropped>>

\* ... and the permit goes with the slot, when release returns.
DropPermit(t) ==
  /\ At(t, "drop")
  /\ ReturnPermit(t, task[t].provider, NoTask)
  /\ UNCHANGED <<busy, cooling, dropped>>

\* A task panics inside the loop: its slot is dropped by the unwinding.
Panic(t) ==
  LET p == task[t].provider IN
  /\ At(t, "run")
  /\ ReturnPermit(t, p, NoTask)
  /\ dropped' = dropped \cup {p}
  /\ UNCHANGED <<busy, cooling>>

\* A loop that runs without a slot ends.
EndUnheld(t) ==
  /\ At(t, "unheld")
  /\ task' = [task EXCEPT ![t] = NoTask]
  /\ UNCHANGED <<busy, permits, waiters, cooling, dropped>>

\* Time passes, or clear_cooldown.
CooldownEnds(p) ==
  /\ p \in cooling
  /\ cooling' = cooling \ {p}
  /\ UNCHANGED <<busy, permits, waiters, task, dropped>>

Step(t) ==
  \/ TakePermit(t) \/ MarkBusy(t) \/ EndRun(t) \/ MarkIdle(t)
  \/ DropPermit(t) \/ EndUnheld(t)

Next ==
  \/ \E t \in Tasks : Step(t) \/ Panic(t)
  \/ \E t \in Tasks, p \in Providers : CheckCooldown(t, p)
  \/ \E p \in Providers : CooldownEnds(p)

Spec == Init /\ [][Next]_vars

\* A task that is polled goes on.  How long a loop runs is not the pool's
\* business: EndRun has no fairness here.
FairStep(t) ==
  \/ TakePermit(t) \/ MarkBusy(t) \/ MarkIdle(t) \/ DropPermit(t)
  \/ EndUnheld(t)

FairSpec == Spec /\ \A t \in Tasks : WF_vars(FairStep(t))

-----------------------------------------------------------------------------
\* No permit is created or lost, however acquire, release and panics
\* interleave: what is available and what is held add up to the capacity,
\* and nobody waits while a permit is available.
PermitsConserved ==
  \A p \in Providers :
    /\ permits[p] + Cardinality(Holders(p)) = Slots[p]
    /\ waiters[p] # <<>> => permits[p] = 0

\* An actor serves one task at a time, of the provider that task asked for.
ActorsAreExclusive ==
  \A t, u \in Tasks :
    /\ At(t, "run") => task[t].actor \in busy \cap ActorsOf(task[t].provider)
    /\ At(t, "run") /\ At(u, "run") /\ task[t].actor = task[u].actor => t = u

\* The two books agree: as long as no slot of the provider was dropped, a task
\* that got a permit finds an idle actor for it, and a task that leaves leaves
\* its actor idle.
PermitFindsActor ==
  \A p \in Providers \ dropped :
    Cardinality(IdleActors(p)) >=
      permits[p] + Cardinality({t \in Holders(p) : At(t, "permit")})

\* Nobody waits forever for a permit if every loop ends.
LoopsEnd == \A t \in Tasks : []<>(~At(t, "run"))

WaitersAreServed ==
  LoopsEnd => \A t \in Tasks : At(t, "wait") ~> ~At(t, "wait")

\* pool.rs, ActorSlot: "A held actor slot. Releases on drop."  A busy actor is
\* held by somebody.
BusyActorsAreHeld ==
  \A a \in busy : \E t \in Tasks : task[t].actor = a
=============================================================================
