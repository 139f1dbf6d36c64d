--------------------------- MODULE ActorPoolProofs ---------------------------
(***************************************************************************)
(* For any providers, numbers of slots and tasks: the actors and permits   *)
(* of the pool under every interleaving of acquire, release and panics.    *)
(***************************************************************************)
EXTENDS ActorPool, FiniteSetTheorems, SequenceTheorems, TLAPS

TaskState == [step     : TaskSteps,
              provider : Providers \cup {None},
              actor    : Actors \cup {None}]

\* A task between CheckCooldown and the end of its slot has a provider.
TasksArePlaced ==
  \A t \in Tasks :
    task[t].step \notin {"idle", "unheld"} => task[t].provider \in Providers

\* A queue holds tasks that wait for its provider, each once.
QueuesAreWaiters ==
  \A p \in Providers :
    /\ \A i \in 1 .. Len(waiters[p]) :
         At(waiters[p][i], "wait") /\ task[waiters[p][i]].provider = p
    /\ \A i, j \in 1 .. Len(waiters[p]) :
         waiters[p][i] = waiters[p][j] => i = j

\* An actor that is held is busy, of the right provider, and held once.
HeldActorsAreBusy ==
  /\ \A t \in Tasks :
       task[t].actor # None =>
         task[t].actor \in busy \cap ActorsOf(task[t].provider)
  /\ \A t, u \in Tasks :
       task[t].actor # None /\ task[t].actor = task[u].actor => t = u

PoolInv == TypeOK /\ TasksArePlaced /\ QueuesAreWaiters /\ HeldActorsAreBusy

-----------------------------------------------------------------------------
(* Actors and the queues of the semaphores.                                *)

LEMMA ActorsOfProviders ==
  /\ None \notin Actors
  /\ \A p \in Providers : ActorsOf(p) \subseteq Actors
  /\ \A p, q \in Providers : p # q => ActorsOf(p) \cap ActorsOf(q) = {}
<1>1. \A p \in Providers : ActorsOf(p) \subseteq Providers \X Nat
  BY PoolAssumption DEF ActorsOf
<1>2. None \notin Actors
  BY <1>1, PoolAssumption DEF Actors
<1>3. QED
  BY <1>2 DEF Actors, ActorsOf

LEMMA NoTaskState ==
  \A t \in Tasks :
    /\ Refused(t) \in TaskState /\ NoTask \in TaskState
    /\ Refused(t).step \in {"idle", "unheld"} /\ NoTask.step = "idle"
    /\ Refused(t).actor = None /\ NoTask.actor = None
    /\ Refused(t).provider = None /\ NoTask.provider = None
BY DEF Refused, NoTask, TaskState, TaskSteps

\* What a returned permit does: it becomes available when nobody waits, else
\* the first task of the queue owns it; no other task changes.
PermitFreed(t, p, s) ==
  /\ waiters[p] = <<>> /\ waiters' = waiters
  /\ permits' = [permits EXCEPT ![p] = @ + 1]
  /\ task' = [task EXCEPT ![t] = s]

PermitGiven(t, p, s, h) ==
  /\ waiters[p] # <<>> /\ h = waiters[p][1]
  /\ At(h, "wait") /\ task[h].provider = p
  /\ waiters' = [waiters EXCEPT ![p] = Tail(@)]
  /\ permits' = permits
  /\ task' = [task EXCEPT ![t] = s, ![h].step = "permit"]

LEMMA PermitReturns ==
  ASSUME PoolInv, NEW t \in Tasks, NEW p \in Providers, NEW s \in TaskState,
         ~At(t, "wait"), ReturnPermit(t, p, s)
  PROVE  \/ PermitFreed(t, p, s)
         \/ \E h \in Tasks \ {t} : PermitGiven(t, p, s, h)
<1>1. CASE waiters[p] = <<>>
  BY <1>1 DEF ReturnPermit, PermitFreed
<1>2. CASE waiters[p] # <<>>
  <2>1. waiters[p] \in Seq(Tasks)
    BY DEF PoolInv, TypeOK
  <2>2. Len(waiters[p]) >= 1 /\ Head(waiters[p]) = waiters[p][1]
    BY <1>2, <2>1, EmptySeq
  <2>3. waiters[p][1] \in Tasks
    BY <2>1, <2>2, LenProperties
  <2>4. At(waiters[p][1], "wait") /\ task[waiters[p][1]].provider = p
    <3>1. 1 \in 1 .. Len(waiters[p])
      BY <2>1, <2>2, LenProperties
    <3>2. QED
      BY <3>1 DEF PoolInv, QueuesAreWaiters
  <2>5. waiters[p][1] # t
    BY <2>4
  <2>6. QED
    BY <1>2, <2>2, <2>3, <2>4, <2>5 DEF ReturnPermit, PermitGiven
<1>3. QED
  BY <1>1, <1>2

\* The queues stay what they are when the tasks in them do.
LEMMA QueuesKept ==
  ASSUME PoolInv, waiters' = waiters,
         \A u \in Tasks : At(u, "wait") => task'[u] = task[u]
  PROVE  QueuesAreWaiters'
<1>1. \A p \in Providers : \A i \in 1 .. Len(waiters[p]) : waiters[p][i] \in Tasks
  BY LenProperties DEF PoolInv, TypeOK
<1>2. QED
  BY <1>1 DEF PoolInv, QueuesAreWaiters, At

LEMMA QueuesAdvance ==
  ASSUME PoolInv, NEW t \in Tasks, NEW p \in Providers, NEW h \in Tasks \ {t},
         ~At(t, "wait"), waiters[p] # <<>>, h = waiters[p][1],
         At(h, "wait"), task[h].provider = p,
         waiters' = [waiters EXCEPT ![p] = Tail(@)],
         \A u \in Tasks \ {t, h} : task'[u] = task[u]
  PROVE  QueuesAreWaiters'
<1>1. waiters \in [Providers -> Seq(Tasks)]
  BY DEF PoolInv, TypeOK
<1>2. /\ Tail(waiters[p]) \in Seq(Tasks)
      /\ Len(Tail(waiters[p])) = Len(waiters[p]) - 1
      /\ Len(waiters[p]) \in Nat
      /\ \A i \in 1 .. Len(Tail(waiters[p])) :
           Tail(waiters[p])[i] = waiters[p][i + 1]
  BY <1>1, HeadTailProperties, LenProperties
<1>3. \A q \in Providers : \A i \in 1 .. Len(waiters[q]) : waiters[q][i] \in Tasks
  BY <1>1, LenProperties
<1>4. ASSUME NEW q \in Providers, q = p
      PROVE  /\ \A i \in 1 .. Len(waiters'[q]) :
                  /\ task'[waiters'[q][i]].step = "wait"
                  /\ task'[waiters'[q][i]].provider = q
             /\ \A i, j \in 1 .. Len(waiters'[q]) :
                  waiters'[q][i] = waiters'[q][j] => i = j
  <2>1. waiters'[q] = Tail(waiters[p])
    BY <1>1, <1>4
  <2>2. \A i \in 1 .. Len(Tail(waiters[p])) :
          i + 1 \in 1 .. Len(waiters[p]) /\ 1 \in 1 .. Len(waiters[p]) /\ i + 1 # 1
    BY <1>2
  <2>3. \A i \in 1 .. Len(Tail(waiters[p])) :
          /\ waiters[p][i + 1] \in Tasks \ {t, h}
          /\ At(waiters[p][i + 1], "wait")
          /\ task[waiters[p][i + 1]].provider = p
    BY <1>3, <2>2 DEF PoolInv, QueuesAreWaiters
  <2>4. \A i, j \in 1 .. Len(Tail(waiters[p])) :
          waiters[p][i + 1] = waiters[p][j + 1] => i = j
    <3>1. SUFFICES ASSUME NEW i \in 1 .. Len(Tail(waiters[p])),
                          NEW j \in 1 .. Len(Tail(waiters[p])),
                          waiters[p][i + 1] = waiters[p][j + 1]
                   PROVE  i = j
      OBVIOUS
    <3>2. i + 1 = j + 1
      BY <2>2, <3>1 DEF PoolInv, QueuesAreWaiters
    <3>3. QED
      BY <3>2, <1>2
  <2>5. \A i \in 1 .. Len(Tail(waiters[p])) :
          /\ Tail(waiters[p])[i] = waiters[p][i + 1]
          /\ task'[waiters[p][i + 1]] = task[waiters[p][i + 1]]
    BY <1>2, <2>3
  <2>6. \A i \in 1 .. Len(Tail(waiters[p])) :
          /\ task'[Tail(waiters[p])[i]].step = "wait"
          /\ task'[Tail(waiters[p])[i]].provider = q
    BY <1>4, <2>3, <2>5 DEF At
  <2>7. \A i, j \in 1 .. Len(Tail(waiters[p])) :
          Tail(waiters[p])[i] = Tail(waiters[p])[j] => i = j
    BY <2>4, <2>5
  <2> DEFINE tl == Tail(waiters[p])
  <2>8. /\ waiters'[q] = tl
        /\ \A i \in 1 .. Len(tl) :
             task'[tl[i]].step = "wait" /\ task'[tl[i]].provider = q
        /\ \A i, j \in 1 .. Len(tl) : tl[i] = tl[j] => i = j
    BY <2>1, <2>6, <2>7
  <2> HIDE DEF tl
  <2>9. \A i \in 1 .. Len(waiters'[q]) :
          task'[waiters'[q][i]].step = "wait" /\ task'[waiters'[q][i]].provider = q
    BY ONLY <2>8, Zenon
  <2>10. \A i, j \in 1 .. Len(waiters'[q]) :
           waiters'[q][i] = waiters'[q][j] => i = j
    BY ONLY <2>8, Zenon
  <2>11. QED
    BY ONLY <2>9, <2>10, Zenon
<1>5. ASSUME NEW q \in Providers \ {p}
      PROVE  /\ \A i \in 1 .. Len(waiters'[q]) :
                  /\ task'[waiters'[q][i]].step = "wait"
                  /\ task'[waiters'[q][i]].provider = q
             /\ \A i, j \in 1 .. Len(waiters'[q]) :
                  waiters'[q][i] = waiters'[q][j] => i = j
  <2>1. waiters'[q] = waiters[q]
    BY <1>1
  <2>2. \A i \in 1 .. Len(waiters[q]) :
          /\ waiters[q][i] \in Tasks \ {t, h}
          /\ At(waiters[q][i], "wait")
          /\ task[waiters[q][i]].provider = q
    BY <1>3 DEF PoolInv, QueuesAreWaiters
  <2>3. QED
    BY <2>1, <2>2 DEF PoolInv, QueuesAreWaiters, At
<1>6. SUFFICES ASSUME NEW q \in Providers
               PROVE  /\ \A i \in 1 .. Len(waiters'[q]) :
                           /\ task'[waiters'[q][i]].step = "wait"
                           /\ task'[waiters'[q][i]].provider = q
                      /\ \A i, j \in 1 .. Len(waiters'[q]) :
                           waiters'[q][i] = waiters'[q][j] => i = j
  BY DEF QueuesAreWaiters, At
<1>7. CASE q = p
  BY <1>4, <1>7
<1>8. CASE q # p
  BY <1>5, <1>8
<1>9. QED
  BY <1>7, <1>8

LEMMA QueuesGrow ==
  ASSUME PoolInv, NEW t \in Tasks, NEW p \in Providers,
         At(t, "ask"), task[t].provider = p,
         waiters' = [waiters EXCEPT ![p] = Append(@, t)],
         task' = [task EXCEPT ![t].step = "wait"]
  PROVE  QueuesAreWaiters' /\ waiters' \in [Providers -> Seq(Tasks)]
<1>1. waiters \in [Providers -> Seq(Tasks)] /\ task \in [Tasks -> TaskState]
  BY DEF PoolInv, TypeOK, TaskState
<1>2. /\ Append(waiters[p], t) \in Seq(Tasks)
      /\ Len(Append(waiters[p], t)) = Len(waiters[p]) + 1
      /\ Len(waiters[p]) \in Nat
      /\ \A i \in 1 .. Len(waiters[p]) : Append(waiters[p], t)[i] = waiters[p][i]
      /\ Append(waiters[p], t)[Len(waiters[p]) + 1] = t
  BY <1>1, AppendProperties, LenProperties
<1>3. \A q \in Providers : \A i \in 1 .. Len(waiters[q]) :
        waiters[q][i] \in Tasks \ {t} /\ Len(waiters[q]) \in Nat
  BY <1>1, LenProperties DEF PoolInv, QueuesAreWaiters, At
<1>4. /\ \A u \in Tasks \ {t} : task'[u] = task[u]
      /\ task'[t].step = "wait" /\ task'[t].provider = p
  BY <1>1 DEF TaskState
<1>5. \A q \in Providers : waiters'[q] = IF q = p THEN Append(waiters[p], t)
                                                  ELSE waiters[q]
  BY <1>1
<1>6. ASSUME NEW q \in Providers, NEW i \in 1 .. Len(waiters'[q])
      PROVE  task'[waiters'[q][i]].step = "wait" /\ task'[waiters'[q][i]].provider = q
  BY <1>2, <1>3, <1>4, <1>5 DEF PoolInv, QueuesAreWaiters, At
<1>7. ASSUME NEW q \in Providers, NEW i \in 1 .. Len(waiters'[q]),
             NEW j \in 1 .. Len(waiters'[q]), waiters'[q][i] = waiters'[q][j]
      PROVE  i = j
  <2>1. CASE q # p
    BY <1>5, <1>7, <2>1 DEF PoolInv, QueuesAreWaiters
  <2>2. CASE q = p
    <3>1. \A k \in 1 .. Len(waiters'[q]) :
            \/ k \in 1 .. Len(waiters[p]) /\ waiters'[q][k] = waiters[p][k]
            \/ k = Len(waiters[p]) + 1 /\ waiters'[q][k] = t
      BY <1>2, <1>5, <2>2
    <3>2. QED
      BY <1>3, <1>7, <3>1 DEF PoolInv, QueuesAreWaiters
  <2>3. QED
    BY <2>1, <2>2
<1>8. QED
  BY <1>1, <1>2, <1>6, <1>7 DEF QueuesAreWaiters, At

-----------------------------------------------------------------------------
(* The invariant.                                                          *)

LEMMA HeldKept ==
  ASSUME PoolInv,
         \A u \in Tasks :
           task'[u].actor # None => /\ task'[u].actor = task[u].actor
                                    /\ task'[u].provider = task[u].provider
                                    /\ task'[u].actor \in busy'
  PROVE  HeldActorsAreBusy'
BY DEF PoolInv, HeldActorsAreBusy

\* A task that ends, or goes on without a slot, as its permit is returned.
LEMMA PoolReturn ==
  ASSUME PoolInv, NEW t \in Tasks, NEW p \in Providers, NEW s \in TaskState,
         ~At(t, "wait"), s.step \in {"idle", "unheld"}, s.actor = None,
         ReturnPermit(t, p, s), busy' = busy, cooling' = cooling,
         dropped' \subseteq Providers
  PROVE  PoolInv'
<1>1. /\ task \in [Tasks -> TaskState] /\ permits \in [Providers -> Nat]
      /\ waiters \in [Providers -> Seq(Tasks)]
      /\ \A u \in Tasks :
           task[u].actor # None <=> task[u].step \in {"run", "release"}
  BY ActorsOfProviders DEF PoolInv, TypeOK, TaskState
<1>2. s.step \in TaskSteps
  BY DEF TaskState
<1>3. CASE PermitFreed(t, p, s)
  <2>0. /\ waiters' = waiters
        /\ permits' = [permits EXCEPT ![p] = @ + 1]
        /\ task' = [task EXCEPT ![t] = s]
    BY <1>3 DEF PermitFreed
  <2>1. /\ task'[t] = s /\ \A u \in Tasks \ {t} : task'[u] = task[u]
        /\ task' \in [Tasks -> TaskState] /\ permits' \in [Providers -> Nat]
    BY <1>1, <2>0
  <2>2. QueuesAreWaiters'
    BY <2>0, <2>1, QueuesKept DEF At
  <2>3. HeldActorsAreBusy'
    BY <2>1, HeldKept DEF PoolInv, HeldActorsAreBusy
  <2>4. TasksArePlaced'
    BY <2>1 DEF PoolInv, TasksArePlaced
  <2>5. \A u \in Tasks :
          task'[u].actor \in Actors <=> task'[u].step \in {"run", "release"}
    BY <2>1, ActorsOfProviders DEF PoolInv, TypeOK
  <2>6. QED
    BY <1>1, <2>0, <2>1, <2>2, <2>3, <2>4, <2>5 DEF PoolInv, TypeOK, TaskState
<1>4. ASSUME NEW h \in Tasks \ {t}, PermitGiven(t, p, s, h) PROVE PoolInv'
  <2>0. /\ waiters[p] # <<>> /\ h = waiters[p][1]
        /\ At(h, "wait") /\ task[h].provider = p
        /\ waiters' = [waiters EXCEPT ![p] = Tail(@)]
        /\ permits' = permits
        /\ task' = [task EXCEPT ![t] = s, ![h].step = "permit"]
    BY <1>4 DEF PermitGiven
  <2> DEFINE woken == [task[h] EXCEPT !.step = "permit"]
  <2>1. woken \in TaskState /\ woken.step = "permit" /\ woken.provider = p
        /\ woken.actor = None
    <3>1. task[h] \in TaskState /\ task[h].step = "wait" /\ task[h].actor = None
      BY <1>1, <2>0 DEF At
    <3>2. QED
      BY <2>0, <3>1 DEF TaskState, TaskSteps
  <2>2. /\ task'[t] = s /\ task'[h] = woken
        /\ \A u \in Tasks \ {t, h} : task'[u] = task[u]
        /\ DOMAIN task' = Tasks
    BY <1>1, <2>0
  <2> HIDE DEF woken
  <2>2a. task' \in [Tasks -> TaskState]
    <3>1. task' = [task EXCEPT ![t] = s, ![h] = woken]
      BY <1>1, <2>0 DEF woken
    <3>2. QED
      BY <1>1, <2>1, <3>1
  <2>3. QueuesAreWaiters'
    <3>1. /\ waiters[p] # <<>> /\ h = waiters[p][1]
          /\ At(h, "wait") /\ task[h].provider = p
          /\ waiters' = [waiters EXCEPT ![p] = Tail(@)]
      BY <2>0
    <3>2. \A u \in Tasks \ {t, h} : task'[u] = task[u]
      BY <2>2
    <3>3. QED
      BY <3>1, <3>2, QueuesAdvance DEF At
  <2>4. HeldActorsAreBusy'
    BY <2>1, <2>2, HeldKept DEF PoolInv, HeldActorsAreBusy
  <2>5. TasksArePlaced'
    BY <2>1, <2>2 DEF PoolInv, TasksArePlaced
  <2>6. \A u \in Tasks :
          task'[u].actor \in Actors <=> task'[u].step \in {"run", "release"}
    BY <2>1, <2>2, ActorsOfProviders DEF PoolInv, TypeOK
  <2>7. waiters' \in [Providers -> Seq(Tasks)]
    BY <1>1, <2>0, HeadTailProperties
  <2>8. QED
    BY <2>0, <2>2a, <2>3, <2>4, <2>5, <2>6, <2>7
       DEF PoolInv, TypeOK, TaskState
<1>5. QED
  BY <1>3, <1>4, PermitReturns

\* A task moves while the queues, and what other tasks hold, stay.
LEMMA PoolMove ==
  ASSUME PoolInv, NEW t \in Tasks, NEW s \in TaskState,
         ~At(t, "wait"), s.step # "wait",
         s.step \notin {"idle", "unheld"} => s.provider \in Providers,
         s.actor # None <=> s.step \in {"run", "release"},
         s.actor # None => /\ s.actor = task[t].actor
                           /\ s.provider = task[t].provider,
         task' = [task EXCEPT ![t] = s], waiters' = waiters,
         permits' \in [Providers -> Nat], cooling' \subseteq Providers,
         dropped' \subseteq Providers, busy' \subseteq busy,
         \A u \in Tasks : task'[u].actor # None => task[u].actor \in busy'
  PROVE  PoolInv'
<1>1. task \in [Tasks -> TaskState]
  BY DEF PoolInv, TypeOK, TaskState
<1>2. /\ task'[t] = s /\ \A u \in Tasks \ {t} : task'[u] = task[u]
      /\ task' \in [Tasks -> TaskState]
  BY <1>1
<1>3. QueuesAreWaiters'
  BY <1>2, QueuesKept DEF At
<1>4. HeldActorsAreBusy'
  BY <1>2, HeldKept
<1>5. TasksArePlaced'
  BY <1>2 DEF PoolInv, TasksArePlaced
<1>6. \A u \in Tasks :
        task'[u].actor \in Actors <=> task'[u].step \in {"run", "release"}
  BY <1>2, ActorsOfProviders DEF PoolInv, TypeOK, TaskState
<1>7. QED
  BY <1>2, <1>3, <1>4, <1>5, <1>6 DEF PoolInv, TypeOK, TaskState

\* Where a task that moves on its own goes.
Moved(t, step, actor) ==
  [step |-> step, provider |-> task[t].provider, actor |-> actor]

LEMMA TaskUpdates ==
  ASSUME NEW r \in TaskState, NEW x
  PROVE  /\ [r EXCEPT !.step = x] =
              [step |-> x, provider |-> r.provider, actor |-> r.actor]
         /\ \A y : [[r EXCEPT !.step = x] EXCEPT !.actor = y] =
              [step |-> x, provider |-> r.provider, actor |-> y]
<1>1. [r EXCEPT !.step = x] =
        [step |-> x, provider |-> r.provider, actor |-> r.actor]
  BY DEF TaskState
<1> DEFINE q == [r EXCEPT !.step = x]
<1>2. /\ q \in [step : {x}, provider : {r.provider}, actor : {r.actor}]
      /\ q.step = x /\ q.provider = r.provider /\ q.actor = r.actor
  BY <1>1
<1> HIDE DEF q
<1>3. ASSUME NEW y
      PROVE  [q EXCEPT !.actor = y] =
               [step |-> x, provider |-> r.provider, actor |-> y]
  BY <1>2
<1>4. QED
  BY <1>1, <1>3 DEF q

LEMMA MovedState ==
  ASSUME PoolInv, NEW t \in Tasks, NEW step \in TaskSteps
  PROVE  /\ [task[t] EXCEPT !.step = step] = Moved(t, step, task[t].actor)
         /\ \A a : [[task[t] EXCEPT !.step = step] EXCEPT !.actor = a]
                     = Moved(t, step, a)
         /\ \A a \in Actors \cup {None} : Moved(t, step, a) \in TaskState
         /\ task[t].actor \in Actors \cup {None}
         /\ task[t].actor # None <=> task[t].step \in {"run", "release"}
         /\ task[t].step \notin {"idle", "unheld"} => task[t].provider \in Providers
<1>1. task[t] \in TaskState
  BY DEF PoolInv, TypeOK, TaskState
<1>2. /\ [task[t] EXCEPT !.step = step] = Moved(t, step, task[t].actor)
      /\ \A a : [[task[t] EXCEPT !.step = step] EXCEPT !.actor = a]
                  = Moved(t, step, a)
  BY <1>1, TaskUpdates DEF Moved
<1>3. task[t].provider \in Providers \cup {None} /\ task[t].actor \in Actors \cup {None}
  BY <1>1 DEF TaskState
<1>4. \A a \in Actors \cup {None} : Moved(t, step, a) \in TaskState
  BY <1>3 DEF Moved, TaskState
<1>5. task[t].actor # None <=> task[t].step \in {"run", "release"}
  BY <1>3, ActorsOfProviders DEF PoolInv, TypeOK
<1>6. QED
  BY <1>2, <1>3, <1>4, <1>5 DEF PoolInv, TasksArePlaced

LEMMA PoolAsk ==
  ASSUME PoolInv, NEW t \in Tasks, NEW p \in Providers, CheckCooldown(t, p)
  PROVE  PoolInv'
<1> DEFINE ask == [step |-> "ask", provider |-> p, actor |-> None]
           s == IF p \in cooling THEN Refused(t) ELSE ask
<1>2. /\ s \in TaskState /\ s.step # "wait" /\ s.actor = None
      /\ s.step \notin {"idle", "unheld", "run", "release"} => s.provider \in Providers
      /\ s.step \notin {"run", "release"}
  BY NoTaskState DEF TaskState, TaskSteps
<1>3. /\ ~At(t, "wait") /\ task' = [task EXCEPT ![t] = s]
      /\ UNCHANGED <<busy, permits, waiters, cooling, dropped>>
  BY DEF CheckCooldown, At
<1> HIDE DEF s
<1>4. /\ permits' \in [Providers -> Nat] /\ cooling' \subseteq Providers
      /\ dropped' \subseteq Providers /\ task \in [Tasks -> TaskState]
  BY <1>3 DEF PoolInv, TypeOK, TaskState
<1>5. \A u \in Tasks : task'[u].actor # None => task[u].actor \in busy'
  BY <1>2, <1>3, <1>4 DEF PoolInv, HeldActorsAreBusy
<1>6. QED
  BY <1>2, <1>3, <1>4, <1>5, PoolMove

LEMMA PoolTake ==
  ASSUME PoolInv, NEW t \in Tasks, TakePermit(t)
  PROVE  PoolInv'
<1> DEFINE p == task[t].provider
<1>1. /\ At(t, "ask") /\ p \in Providers /\ task[t].actor = None
      /\ UNCHANGED <<busy, cooling, dropped>>
  BY MovedState DEF TakePermit, At, TaskSteps
<1>2. /\ task \in [Tasks -> TaskState] /\ permits \in [Providers -> Nat]
      /\ cooling \subseteq Providers /\ dropped \subseteq Providers
  BY DEF PoolInv, TypeOK, TaskState
<1>3. CASE permits[p] > 0
  <2> DEFINE s == Moved(t, "permit", None)
  <2>1. task' = [task EXCEPT ![t] = s] /\ s \in TaskState
    BY <1>1, <1>2, <1>3, MovedState DEF TakePermit, TaskSteps
  <2>2. /\ s.step = "permit" /\ s.provider = p /\ s.actor = None
    BY DEF Moved
  <2>3. permits' \in [Providers -> Nat] /\ waiters' = waiters
    BY <1>1, <1>2, <1>3 DEF TakePermit
  <2> HIDE DEF s
  <2>4. \A u \in Tasks : task'[u].actor # None => task[u].actor \in busy'
    BY <1>1, <1>2, <2>1, <2>2 DEF PoolInv, HeldActorsAreBusy
  <2>5. ~At(t, "wait")
    BY <1>1 DEF At
  <2>6. QED
    BY <1>1, <1>2, <2>1, <2>2, <2>3, <2>4, <2>5, PoolMove
<1>4. CASE ~(permits[p] > 0)
  <2> DEFINE s == Moved(t, "wait", None)
  <2>1. task' = [task EXCEPT ![t] = s] /\ s \in TaskState
    BY <1>1, <1>2, <1>4, MovedState DEF TakePermit, TaskSteps
  <2>2. s.step = "wait" /\ s.provider = p /\ s.actor = None
    BY DEF Moved
  <2>3. /\ permits' = permits
        /\ waiters' = [waiters EXCEPT ![p] = Append(@, t)]
        /\ task' = [task EXCEPT ![t].step = "wait"]
    BY <1>4 DEF TakePermit
  <2>4. QueuesAreWaiters' /\ waiters' \in [Providers -> Seq(Tasks)]
    BY <1>1, <2>3, QueuesGrow
  <2> HIDE DEF s
  <2>5. /\ task'[t] = s /\ \A u \in Tasks \ {t} : task'[u] = task[u]
        /\ task' \in [Tasks -> TaskState]
    BY <1>2, <2>1
  <2>6. HeldActorsAreBusy'
    BY <1>1, <2>2, <2>5, HeldKept DEF PoolInv, HeldActorsAreBusy
  <2>7. TasksArePlaced'
    BY <1>1, <2>2, <2>5 DEF PoolInv, TasksArePlaced
  <2>8. \A u \in Tasks :
          task'[u].actor \in Actors <=> task'[u].step \in {"run", "release"}
    BY <2>2, <2>5, ActorsOfProviders DEF PoolInv, TypeOK
  <2>9. QED
    BY <1>1, <2>3, <2>4, <2>5, <2>6, <2>7, <2>8 DEF PoolInv, TypeOK, TaskState
<1>5. QED
  BY <1>3, <1>4

LEMMA PoolMark ==
  ASSUME PoolInv, NEW t \in Tasks, MarkBusy(t)
  PROVE  PoolInv'
<1> DEFINE p == task[t].provider
<1>1. /\ At(t, "permit") /\ p \in Providers /\ task[t].actor = None
      /\ ~At(t, "wait") /\ UNCHANGED <<cooling, dropped>>
  BY MovedState DEF MarkBusy, At, TaskSteps
<1>2. /\ task \in [Tasks -> TaskState] /\ dropped \subseteq Providers
  BY DEF PoolInv, TypeOK, TaskState
<1>3. CASE IdleActors(p) # {}
  <2>1. PICK a \in IdleActors(p) :
          /\ busy' = busy \cup {a}
          /\ task' = [task EXCEPT ![t] =
                        [step |-> "run", provider |-> p, actor |-> a]]
          /\ UNCHANGED <<permits, waiters>>
    BY <1>3 DEF MarkBusy
  <2>2. /\ a \in ActorsOf(p) /\ a \notin busy /\ a \in Actors /\ a # None
    BY <1>1, <2>1, ActorsOfProviders DEF IdleActors
  <2> DEFINE s == Moved(t, "run", a)
  <2>3. task' = [task EXCEPT ![t] = s] /\ s \in TaskState
    BY <2>1, <2>2, MovedState DEF Moved, TaskSteps
  <2>4. s.step = "run" /\ s.provider = p /\ s.actor = a
    BY DEF Moved
  <2> HIDE DEF s
  <2>5. /\ task'[t] = s /\ \A u \in Tasks \ {t} : task'[u] = task[u]
        /\ task' \in [Tasks -> TaskState]
    BY <1>2, <2>3
  <2>6. QueuesAreWaiters'
    BY <1>1, <2>1, <2>5, QueuesKept DEF At
  <2>7. \A u \in Tasks \ {t} : task[u].actor # a
    BY <2>2 DEF PoolInv, HeldActorsAreBusy
  <2>8. HeldActorsAreBusy'
    BY <2>1, <2>2, <2>4, <2>5, <2>7 DEF PoolInv, HeldActorsAreBusy
  <2>9. TasksArePlaced'
    BY <1>1, <2>4, <2>5 DEF PoolInv, TasksArePlaced
  <2>10. \A u \in Tasks :
           task'[u].actor \in Actors <=> task'[u].step \in {"run", "release"}
    BY <2>2, <2>4, <2>5 DEF PoolInv, TypeOK
  <2>11. busy' \subseteq Actors
    BY <2>1, <2>2 DEF PoolInv, TypeOK
  <2>12. QED
    BY <1>1, <2>1, <2>5, <2>6, <2>8, <2>9, <2>10, <2>11
       DEF PoolInv, TypeOK, TaskState
<1>4. CASE IdleActors(p) = {}
  BY <1>1, <1>2, <1>4, NoTaskState, PoolReturn DEF MarkBusy
<1>5. QED
  BY <1>3, <1>4

LEMMA PoolEnd ==
  ASSUME PoolInv, NEW t \in Tasks, EndRun(t)
  PROVE  PoolInv'
<1> DEFINE s == Moved(t, "release", task[t].actor)
<1>1. /\ task[t].step = "run" /\ task[t].provider \in Providers
      /\ task[t].actor # None
      /\ task' = [task EXCEPT ![t] = s] /\ s \in TaskState
      /\ UNCHANGED <<busy, permits, waiters, dropped>>
  BY MovedState DEF EndRun, At, TaskSteps
<1>2. /\ s.step = "release" /\ s.provider = task[t].provider
      /\ s.actor = task[t].actor
  BY DEF Moved
<1> HIDE DEF s
<1>3. /\ task \in [Tasks -> TaskState] /\ permits' \in [Providers -> Nat]
      /\ cooling' \subseteq Providers /\ dropped' \subseteq Providers
  BY <1>1 DEF EndRun, PoolInv, TypeOK, TaskState
<1>4. \A u \in Tasks : task'[u].actor # None => task[u].actor \in busy'
  BY <1>1, <1>2, <1>3 DEF PoolInv, HeldActorsAreBusy
<1>5. ~At(t, "wait")
  BY <1>1 DEF At
<1>6. QED
  BY <1>1, <1>2, <1>3, <1>4, <1>5, PoolMove

LEMMA PoolRelease ==
  ASSUME PoolInv, NEW t \in Tasks, MarkIdle(t)
  PROVE  PoolInv'
<1> DEFINE s == Moved(t, "drop", None)
<1>1. /\ task[t].step = "release" /\ task[t].provider \in Providers
      /\ task[t].actor # None
      /\ task' = [task EXCEPT ![t] = s] /\ s \in TaskState
      /\ busy' = busy \ {task[t].actor}
      /\ UNCHANGED <<permits, waiters, cooling, dropped>>
  BY MovedState DEF MarkIdle, At, TaskSteps
<1>2. s.step = "drop" /\ s.provider = task[t].provider /\ s.actor = None
  BY DEF Moved
<1> HIDE DEF s
<1>3. /\ task \in [Tasks -> TaskState] /\ permits' \in [Providers -> Nat]
      /\ cooling' \subseteq Providers /\ dropped' \subseteq Providers
  BY <1>1 DEF PoolInv, TypeOK, TaskState
<1>4. \A u \in Tasks : task'[u].actor # None => task[u].actor \in busy'
  BY <1>1, <1>2, <1>3 DEF PoolInv, HeldActorsAreBusy
<1>5. ~At(t, "wait")
  BY <1>1 DEF At
<1>6. QED
  BY <1>1, <1>2, <1>3, <1>4, <1>5, PoolMove

LEMMA PoolEndUnheld ==
  ASSUME PoolInv, NEW t \in Tasks, EndUnheld(t)
  PROVE  PoolInv'
<1>1. /\ task[t].step = "unheld" /\ task' = [task EXCEPT ![t] = NoTask]
      /\ UNCHANGED <<busy, permits, waiters, cooling, dropped>>
  BY DEF EndUnheld, At
<1>2. /\ task \in [Tasks -> TaskState] /\ permits' \in [Providers -> Nat]
      /\ cooling' \subseteq Providers /\ dropped' \subseteq Providers
  BY <1>1 DEF PoolInv, TypeOK, TaskState
<1>3. \A u \in Tasks : task'[u].actor # None => task[u].actor \in busy'
  BY <1>1, <1>2, NoTaskState DEF PoolInv, HeldActorsAreBusy
<1>4. ~At(t, "wait")
  BY <1>1 DEF At
<1>5. QED
  BY <1>1, <1>2, <1>3, <1>4, NoTaskState, PoolMove

LEMMA PoolNext == PoolInv /\ [Next]_vars => PoolInv'
<1> SUFFICES ASSUME PoolInv, [Next]_vars PROVE PoolInv'
  OBVIOUS
<1>1. ASSUME NEW t \in Tasks, Step(t) PROVE PoolInv'
  <2>1. CASE DropPermit(t)
    <3>1. /\ task[t].provider \in Providers /\ ~At(t, "wait")
          /\ UNCHANGED <<busy, cooling, dropped>>
      BY <2>1, MovedState DEF DropPermit, At, TaskSteps
    <3>2. dropped' \subseteq Providers
      BY <3>1 DEF PoolInv, TypeOK
    <3>3. QED
      BY <2>1, <3>1, <3>2, NoTaskState, PoolReturn DEF DropPermit
  <2>2. QED
    BY <1>1, <2>1, PoolTake, PoolMark, PoolEnd, PoolRelease, PoolEndUnheld
       DEF Step
<1>2. ASSUME NEW t \in Tasks, Panic(t) PROVE PoolInv'
  <2>1. /\ task[t].provider \in Providers /\ ~At(t, "wait")
        /\ UNCHANGED <<busy, cooling>>
    BY <1>2, MovedState DEF Panic, At, TaskSteps
  <2>2. dropped' \subseteq Providers
    BY <1>2, <2>1 DEF Panic, PoolInv, TypeOK
  <2>3. QED
    BY <1>2, <2>1, <2>2, NoTaskState, PoolReturn DEF Panic
<1>3. ASSUME NEW p \in Providers, CooldownEnds(p) PROVE PoolInv'
  BY <1>3 DEF CooldownEnds, PoolInv, TypeOK, TasksArePlaced,
              QueuesAreWaiters, HeldActorsAreBusy, At
<1>4. CASE UNCHANGED vars
  BY <1>4 DEF vars, PoolInv, TypeOK, TasksArePlaced,
              QueuesAreWaiters, HeldActorsAreBusy, At
<1>5. QED
  BY <1>1, <1>2, <1>3, <1>4, PoolAsk DEF Next

LEMMA PoolInit == Init => PoolInv
<1> SUFFICES ASSUME Init PROVE PoolInv
  OBVIOUS
<1>1. \A t \in Tasks : task[t] = NoTask
  BY DEF Init
<1>2. task \in [Tasks -> TaskState]
  BY NoTaskState DEF Init
<1>3. waiters \in [Providers -> Seq(Tasks)] /\ permits \in [Providers -> Nat]
  BY EmptySeq, PoolAssumption DEF Init
<1>4. \A t \in Tasks :
        task[t].actor \in Actors <=> task[t].step \in {"run", "release"}
  BY <1>1, NoTaskState, ActorsOfProviders
<1>5. QueuesAreWaiters
  BY EmptySeq DEF Init, QueuesAreWaiters
<1>6. TasksArePlaced /\ HeldActorsAreBusy
  BY <1>1, NoTaskState DEF TasksArePlaced, HeldActorsAreBusy
<1>7. QED
  BY <1>2, <1>3, <1>4, <1>5, <1>6 DEF Init, PoolInv, TypeOK, TaskState

LEMMA PoolInvariant == Spec => []PoolInv
BY PoolInit, PoolNext, PTL DEF Spec

\* A task of the pool carries an actor exactly from the mark in acquire to the
\* unmark in release, and permits never run below zero.
THEOREM TypesCorrect == Spec => []TypeOK
BY PoolInvariant, PTL DEF PoolInv

\* However acquire, release and panics interleave, no two running tasks share
\* an actor, and each runs with a busy actor of its own provider.
THEOREM ActorsExclusive == Spec => []ActorsAreExclusive
<1>1. PoolInv => ActorsAreExclusive
  <2> SUFFICES ASSUME PoolInv PROVE ActorsAreExclusive
    OBVIOUS
  <2>1. \A t \in Tasks : At(t, "run") => task[t].actor # None
    BY ActorsOfProviders DEF PoolInv, TypeOK, At
  <2>2. QED
    BY <2>1 DEF PoolInv, HeldActorsAreBusy, ActorsAreExclusive
<1>2. QED
  BY <1>1, PoolInvariant, PTL

-----------------------------------------------------------------------------
(* Counting.  The semaphore counts permits, the table counts idle actors;  *)
(* between a permit and its mark, or a mark and its permit, a task is      *)
(* counted by one of the two only.                                         *)

\* Holders of a permit of p for which no actor is marked busy.
Unmarked(p) == {t \in Tasks : /\ task[t].provider = p
                              /\ task[t].step \in {"permit", "drop"}}

\* The ways in which a step can touch the books of a provider.
Untouched(p) ==
  /\ Holders(p)' = Holders(p) /\ Unmarked(p)' = Unmarked(p)
  /\ IdleActors(p)' = IdleActors(p)
  /\ permits'[p] = permits[p]
  /\ waiters'[p] = waiters[p] \/ permits[p] = 0

Takes(p, t) ==
  /\ t \notin Holders(p) /\ Holders(p)' = Holders(p) \cup {t}
  /\ t \notin Unmarked(p) /\ Unmarked(p)' = Unmarked(p) \cup {t}
  /\ IdleActors(p)' = IdleActors(p)
  /\ permits[p] > 0 /\ permits'[p] = permits[p] - 1
  /\ waiters'[p] = waiters[p]

Marks(p, t, a) ==
  /\ Holders(p)' = Holders(p)
  /\ t \in Unmarked(p) /\ Unmarked(p)' = Unmarked(p) \ {t}
  /\ a \in IdleActors(p) /\ IdleActors(p)' = IdleActors(p) \ {a}
  /\ permits'[p] = permits[p] /\ waiters'[p] = waiters[p]

Unmarks(p, t, a) ==
  /\ Holders(p)' = Holders(p)
  /\ t \notin Unmarked(p) /\ Unmarked(p)' = Unmarked(p) \cup {t}
  /\ a \notin IdleActors(p) /\ IdleActors(p)' = IdleActors(p) \cup {a}
  /\ permits'[p] = permits[p] /\ waiters'[p] = waiters[p]

Returns(p, t) ==
  /\ t \in Holders(p) /\ Holders(p)' = Holders(p) \ {t}
  /\ \/ p \in dropped'
     \/ t \in Unmarked(p) /\ Unmarked(p)' = Unmarked(p) \ {t}
  /\ IdleActors(p)' = IdleActors(p)
  /\ permits'[p] = permits[p] + 1
  /\ waiters'[p] = <<>>

HandsOver(p, t, h) ==
  /\ t \in Holders(p) /\ h \notin Holders(p)
  /\ Holders(p)' = (Holders(p) \ {t}) \cup {h}
  /\ \/ p \in dropped'
     \/ /\ t \in Unmarked(p) /\ h \notin Unmarked(p)
        /\ Unmarked(p)' = (Unmarked(p) \ {t}) \cup {h}
  /\ IdleActors(p)' = IdleActors(p)
  /\ permits'[p] = permits[p] /\ waiters[p] # <<>>

Booked(p) ==
  \/ Untouched(p)
  \/ \E t \in Tasks : Takes(p, t) \/ Returns(p, t)
  \/ \E t, h \in Tasks : HandsOver(p, t, h)
  \/ \E t \in Tasks, a \in ActorsOf(p) : Marks(p, t, a) \/ Unmarks(p, t, a)

\* A step of one task that leaves the table and the permits of p alone and
\* does not change whether that task holds one.
LEMMA BooksUntouched ==
  ASSUME PoolInv, NEW p \in Providers, NEW t \in Tasks,
         \A u \in Tasks \ {t} : task'[u] = task[u],
         t \in Holders(p)' <=> t \in Holders(p),
         t \in Unmarked(p)' <=> t \in Unmarked(p),
         busy' = busy, permits'[p] = permits[p],
         waiters'[p] = waiters[p] \/ permits[p] = 0
  PROVE  Booked(p)
BY DEF Booked, Untouched, Holders, Unmarked, IdleActors

\* A permit returned by a task that holds it.
LEMMA BooksReturned ==
  ASSUME PoolInv, NEW t \in Tasks, NEW s \in TaskState, NEW q \in Providers,
         NEW p \in Providers, ReturnPermit(t, p, s),
         t \in Holders(p), s.step \in {"idle", "unheld"},
         p \in dropped' \/ t \in Unmarked(p), busy' = busy
  PROVE  Booked(q)
<1>1. /\ task \in [Tasks -> TaskState] /\ permits \in [Providers -> Nat]
      /\ waiters \in [Providers -> Seq(Tasks)]
  BY DEF PoolInv, TypeOK, TaskState
<1>2. ~At(t, "wait") /\ task[t].provider = p
  BY DEF Holders, At
<1>3. CASE PermitFreed(t, p, s)
  <2>0. /\ waiters[p] = <<>> /\ waiters' = waiters
        /\ permits' = [permits EXCEPT ![p] = @ + 1]
        /\ task' = [task EXCEPT ![t] = s]
    BY <1>3 DEF PermitFreed
  <2>1. task'[t] = s /\ \A u \in Tasks \ {t} : task'[u] = task[u]
    BY <1>1, <2>0
  <2>2. CASE q = p
    <3>1. Holders(p)' = Holders(p) \ {t} /\ Unmarked(p)' = Unmarked(p) \ {t}
      BY <2>1 DEF Holders, Unmarked
    <3>2. IdleActors(p)' = IdleActors(p) /\ waiters'[p] = <<>>
      BY <2>0 DEF IdleActors
    <3>3. permits'[p] = permits[p] + 1
      BY <1>1, <2>0
    <3>4. QED
      BY <2>2, <3>1, <3>2, <3>3 DEF Booked, Returns
  <2>3. CASE q # p
    <3>1. permits'[q] = permits[q] /\ waiters'[q] = waiters[q]
      BY <1>1, <2>0, <2>3
    <3>2. /\ t \in Holders(q)' <=> t \in Holders(q)
          /\ t \in Unmarked(q)' <=> t \in Unmarked(q)
      BY <1>2, <2>1, <2>3 DEF Holders, Unmarked
    <3>3. QED
      BY <2>1, <3>1, <3>2, BooksUntouched
  <2>4. QED
    BY <2>2, <2>3
<1>4. ASSUME NEW h \in Tasks \ {t}, PermitGiven(t, p, s, h) PROVE Booked(q)
  <2>1. /\ waiters[p] # <<>>
        /\ At(h, "wait") /\ task[h].provider = p
        /\ waiters' = [waiters EXCEPT ![p] = Tail(@)]
        /\ permits' = permits
        /\ task' = [task EXCEPT ![t] = s, ![h].step = "permit"]
    BY <1>4 DEF PermitGiven
  <2>2. /\ task'[t] = s /\ \A u \in Tasks \ {t, h} : task'[u] = task[u]
    BY <1>1, <2>1
  <2>3. task'[h].step = "permit" /\ task'[h].provider = p
    <3>1. task[h] \in TaskState /\ task[h].provider = p
      BY <1>1, <2>1
    <3>2. task'[h] = [task[h] EXCEPT !.step = "permit"]
      BY <1>1, <2>1
    <3>3. QED
      BY <3>1, <3>2 DEF TaskState
  <2>4. CASE q = p
    <3>1. /\ Holders(p)' = (Holders(p) \ {t}) \cup {h}
          /\ Unmarked(p)' = (Unmarked(p) \ {t}) \cup {h}
      BY <2>2, <2>3 DEF Holders, Unmarked
    <3>2. h \notin Holders(p) /\ h \notin Unmarked(p)
      BY <2>1 DEF Holders, Unmarked, At
    <3>3. IdleActors(p)' = IdleActors(p) /\ permits'[p] = permits[p]
      BY <2>1 DEF IdleActors
    <3>4. HandsOver(p, t, h)
      BY <2>1, <3>1, <3>2, <3>3 DEF HandsOver
    <3>5. QED
      BY <2>4, <3>4 DEF Booked
  <2>5. CASE q # p
    <3>0. /\ task'[t].step \in {"idle", "unheld"} /\ task[t].provider = p
          /\ task[h].provider = p /\ task'[h].provider = p
      BY <1>2, <2>1, <2>2, <2>3
    <3>1. Holders(q)' = Holders(q) /\ Unmarked(q)' = Unmarked(q)
      BY <2>2, <2>5, <3>0 DEF Holders, Unmarked
    <3>2. IdleActors(q)' = IdleActors(q) /\ permits'[q] = permits[q]
      BY <2>1 DEF IdleActors
    <3>3. waiters'[q] = waiters[q]
      BY <1>1, <2>1, <2>5
    <3>4. QED
      BY <3>1, <3>2, <3>3 DEF Booked, Untouched
  <2>6. QED
    BY <2>4, <2>5
<1>5. ~At(t, "wait")
  BY <1>2 DEF At
<1>6. QED
  BY <1>3, <1>4, <1>5, PermitReturns

LEMMA BooksStep ==
  ASSUME PoolInv, NEW t \in Tasks, Step(t), NEW q \in Providers
  PROVE  Booked(q) /\ dropped' = dropped
<1>0. PICK p : p = task[t].provider
  OBVIOUS
<1> USE <1>0
<1>1. /\ task \in [Tasks -> TaskState] /\ permits \in [Providers -> Nat]
      /\ waiters \in [Providers -> Seq(Tasks)]
      /\ task[t] \in TaskState
      /\ task[t].step \notin {"idle", "unheld"} => p \in Providers
  BY DEF PoolInv, TypeOK, TaskState, TasksArePlaced
<1>2. CASE TakePermit(t)
  <2>1. /\ task[t].step = "ask" /\ p \in Providers /\ UNCHANGED <<busy, dropped>>
    BY <1>1, <1>2 DEF TakePermit, At
  <2>2. CASE permits[p] > 0
    <3>1. /\ permits' = [permits EXCEPT ![p] = @ - 1] /\ waiters' = waiters
          /\ task' = [task EXCEPT ![t].step = "permit"]
      BY <1>2, <2>2 DEF TakePermit
    <3>2. /\ task'[t].step = "permit" /\ task'[t].provider = p
          /\ \A u \in Tasks \ {t} : task'[u] = task[u]
      BY <1>1, <3>1 DEF TaskState
    <3>3. CASE q = p
      <4>1. /\ Holders(p)' = Holders(p) \cup {t} /\ t \notin Holders(p)
            /\ Unmarked(p)' = Unmarked(p) \cup {t} /\ t \notin Unmarked(p)
        BY <2>1, <3>2 DEF Holders, Unmarked
      <4>2. /\ permits'[p] = permits[p] - 1 /\ IdleActors(p)' = IdleActors(p)
        BY <1>1, <2>1, <3>1 DEF IdleActors
      <4>3. QED
        BY <2>1, <2>2, <3>1, <3>3, <4>1, <4>2 DEF Booked, Takes
    <3>4. CASE q # p
      <4>1. /\ t \notin Holders(q)' /\ t \notin Holders(q)
            /\ t \notin Unmarked(q)' /\ t \notin Unmarked(q)
        BY <3>2, <3>4 DEF Holders, Unmarked
      <4>2. permits'[q] = permits[q] /\ waiters'[q] = waiters[q]
        BY <1>1, <3>1, <3>4
      <4>3. QED
        BY <2>1, <3>2, <4>1, <4>2, BooksUntouched
    <3>5. QED
      BY <3>3, <3>4
  <2>3. CASE ~(permits[p] > 0)
    <3>1. /\ permits' = permits /\ waiters' = [waiters EXCEPT ![p] = Append(@, t)]
          /\ task' = [task EXCEPT ![t].step = "wait"]
      BY <1>2, <2>3 DEF TakePermit
    <3>2. /\ task'[t].step = "wait"
          /\ \A u \in Tasks \ {t} : task'[u] = task[u]
      BY <1>1, <3>1 DEF TaskState
    <3>3. waiters'[q] = waiters[q] \/ permits[q] = 0
      BY <1>1, <2>1, <2>3, <3>1
    <3>4. /\ t \notin Holders(q)' /\ t \notin Holders(q)
          /\ t \notin Unmarked(q)' /\ t \notin Unmarked(q)
      BY <2>1, <3>2 DEF Holders, Unmarked
    <3>5. QED
      BY <2>1, <3>1, <3>2, <3>3, <3>4, BooksUntouched
  <2>4. QED
    BY <2>2, <2>3
<1>3. CASE MarkBusy(t)
  <2>1. /\ task[t].step = "permit" /\ p \in Providers /\ dropped' = dropped
        /\ t \in Holders(p) /\ t \in Unmarked(p)
    BY <1>1, <1>3 DEF MarkBusy, At, Holders, Unmarked
  <2>2. CASE IdleActors(p) = {}
    BY <1>3, <2>1, <2>2, NoTaskState, BooksReturned DEF MarkBusy
  <2>3. CASE IdleActors(p) # {}
    <3>1. PICK a \in IdleActors(p) :
            /\ busy' = busy \cup {a}
            /\ task' = [task EXCEPT ![t] =
                          [step |-> "run", provider |-> p, actor |-> a]]
            /\ UNCHANGED <<permits, waiters>>
      BY <1>3, <2>3 DEF MarkBusy
    <3>2. /\ task'[t].step = "run" /\ task'[t].provider = p
          /\ \A u \in Tasks \ {t} : task'[u] = task[u]
      BY <1>1, <3>1
    <3>3. Holders(q)' = Holders(q) /\ Unmarked(q)' = Unmarked(q) \ {t}
      BY <2>1, <3>2 DEF Holders, Unmarked
    <3>4. IdleActors(q)' = IdleActors(q) \ {a}
      BY <3>1 DEF IdleActors
    <3>5. CASE q = p
      BY <2>1, <3>1, <3>3, <3>4, <3>5 DEF Booked, Marks, IdleActors
    <3>6. CASE q # p
      <4>1. t \notin Unmarked(q) /\ a \notin IdleActors(q)
        BY <2>1, <3>1, <3>6, ActorsOfProviders DEF Unmarked, IdleActors
      <4>2. Unmarked(q)' = Unmarked(q) /\ IdleActors(q)' = IdleActors(q)
        BY <3>3, <3>4, <4>1
      <4>3. QED
        BY <2>1, <3>1, <3>3, <4>2 DEF Booked, Untouched
    <3>7. QED
      BY <2>1, <3>5, <3>6
  <2>4. QED
    BY <2>2, <2>3
<1>4. CASE EndRun(t)
  <2>1. /\ task[t].step = "run" /\ task' = [task EXCEPT ![t].step = "release"]
        /\ UNCHANGED <<busy, permits, waiters, dropped>>
    BY <1>4 DEF EndRun, At
  <2>2. /\ task'[t].step = "release" /\ task'[t].provider = p
        /\ \A u \in Tasks \ {t} : task'[u] = task[u]
    BY <1>1, <2>1 DEF TaskState
  <2>3. /\ t \in Holders(q)' <=> t \in Holders(q)
        /\ t \in Unmarked(q)' <=> t \in Unmarked(q)
    BY <2>1, <2>2 DEF Holders, Unmarked
  <2>4. QED
    BY <2>1, <2>2, <2>3, BooksUntouched
<1>5. CASE MarkIdle(t)
  <2>0. PICK a : a = task[t].actor
    OBVIOUS
  <2>1. /\ task[t].step = "release" /\ p \in Providers
        /\ busy' = busy \ {a}
        /\ task' = [task EXCEPT ![t] = Moved(t, "drop", None)]
        /\ UNCHANGED <<permits, waiters, dropped>>
    BY <1>1, <1>5, <2>0, MovedState DEF MarkIdle, At, TaskSteps
  <2>2. a \in busy /\ a \in ActorsOf(p)
    BY <2>0, <2>1, MovedState DEF PoolInv, HeldActorsAreBusy, TaskSteps
  <2>3. /\ task'[t].step = "drop" /\ task'[t].provider = p
        /\ \A u \in Tasks \ {t} : task'[u] = task[u]
    BY <1>1, <2>1 DEF Moved
  <2>4. Holders(q)' = Holders(q)
    BY <2>1, <2>3 DEF Holders
  <2>5. CASE q = p
    <3>1. t \notin Unmarked(p) /\ Unmarked(p)' = Unmarked(p) \cup {t}
      BY <2>1, <2>3 DEF Unmarked
    <3>2. a \notin IdleActors(p) /\ IdleActors(p)' = IdleActors(p) \cup {a}
      BY <2>1, <2>2 DEF IdleActors
    <3>3. Unmarks(p, t, a)
      BY <2>1, <2>4, <2>5, <3>1, <3>2 DEF Unmarks
    <3>4. QED
      BY <2>1, <2>2, <2>5, <3>3 DEF Booked
  <2>6. CASE q # p
    <3>1. Unmarked(q)' = Unmarked(q)
      BY <2>1, <2>3, <2>6 DEF Unmarked
    <3>2. IdleActors(q)' = IdleActors(q)
      BY <2>1, <2>2, <2>6, ActorsOfProviders DEF IdleActors
    <3>3. QED
      BY <2>1, <2>4, <3>1, <3>2 DEF Booked, Untouched
  <2>7. QED
    BY <2>5, <2>6
<1>6. CASE DropPermit(t)
  <2>1. /\ task[t].step = "drop" /\ p \in Providers /\ UNCHANGED <<busy, dropped>>
        /\ t \in Holders(p) /\ t \in Unmarked(p)
    BY <1>1, <1>6 DEF DropPermit, At, Holders, Unmarked
  <2>2. QED
    BY <1>6, <2>1, NoTaskState, BooksReturned DEF DropPermit
<1>7. CASE EndUnheld(t)
  <2>1. /\ task[t].step = "unheld" /\ task' = [task EXCEPT ![t] = NoTask]
        /\ UNCHANGED <<busy, permits, waiters, dropped>>
    BY <1>7 DEF EndUnheld, At
  <2>2. task'[t] = NoTask /\ \A u \in Tasks \ {t} : task'[u] = task[u]
    BY <1>1, <2>1
  <2>3. /\ t \in Holders(q)' <=> t \in Holders(q)
        /\ t \in Unmarked(q)' <=> t \in Unmarked(q)
    BY <2>1, <2>2, NoTaskState DEF Holders, Unmarked
  <2>4. QED
    BY <2>1, <2>2, <2>3, BooksUntouched
<1>8. QED
  BY <1>2, <1>3, <1>4, <1>5, <1>6, <1>7 DEF Step

LEMMA BooksNext ==
  ASSUME PoolInv, [Next]_vars, NEW q \in Providers
  PROVE  Booked(q) /\ dropped \subseteq dropped'
<1>1. ASSUME NEW t \in Tasks, Panic(t) PROVE Booked(q) /\ dropped \subseteq dropped'
  <2>0. PICK p : p = task[t].provider
    OBVIOUS
  <2>1. /\ p \in Providers /\ t \in Holders(p) /\ busy' = busy
        /\ ReturnPermit(t, p, NoTask) /\ dropped' = dropped \cup {p}
    BY <1>1, <2>0, MovedState DEF Panic, At, Holders, TaskSteps
  <2>2. QED
    BY <2>1, NoTaskState, BooksReturned
<1>2. ASSUME NEW t \in Tasks, NEW p \in Providers, CheckCooldown(t, p)
      PROVE  Booked(q) /\ dropped \subseteq dropped'
  <2>1. /\ task[t].step = "idle" /\ UNCHANGED <<busy, permits, waiters, dropped>>
        /\ task'[t].step \in {"idle", "unheld", "ask"}
        /\ \A u \in Tasks \ {t} : task'[u] = task[u]
    BY <1>2, NoTaskState DEF CheckCooldown, At, PoolInv, TypeOK
  <2>2. /\ t \in Holders(q)' <=> t \in Holders(q)
        /\ t \in Unmarked(q)' <=> t \in Unmarked(q)
    BY <2>1 DEF Holders, Unmarked
  <2>3. QED
    BY <2>1, <2>2, BooksUntouched
<1>3. ASSUME UNCHANGED <<busy, permits, waiters, task, dropped>>
      PROVE  Booked(q) /\ dropped \subseteq dropped'
  BY <1>3 DEF Booked, Untouched, Holders, Unmarked, IdleActors
<1>4. ASSUME NEW t \in Tasks, Step(t) PROVE Booked(q) /\ dropped \subseteq dropped'
  BY <1>4, BooksStep
<1>5. ASSUME NEW p \in Providers, CooldownEnds(p)
      PROVE  UNCHANGED <<busy, permits, waiters, task, dropped>>
  BY <1>5 DEF CooldownEnds
<1>6. QED
  BY <1>1, <1>2, <1>3, <1>4, <1>5 DEF Next, vars

\* The sets that are counted are finite.
LEMMA FiniteBooks ==
  ASSUME NEW p \in Providers
  PROVE  /\ IsFiniteSet(Holders(p)) /\ IsFiniteSet(Unmarked(p))
         /\ IsFiniteSet(ActorsOf(p)) /\ Cardinality(ActorsOf(p)) = Slots[p]
         /\ IsFiniteSet(IdleActors(p))
         /\ Cardinality(Holders(p)) \in Nat /\ Cardinality(Unmarked(p)) \in Nat
         /\ Cardinality(IdleActors(p)) \in Nat
<1>1. IsFiniteSet(Holders(p)) /\ IsFiniteSet(Unmarked(p))
  <2>1. Holders(p) \in SUBSET Tasks /\ Unmarked(p) \in SUBSET Tasks
    BY DEF Holders, Unmarked
  <2>2. QED
    BY <2>1, FS_Subset, PoolAssumption
<1>2. IsFiniteSet(ActorsOf(p)) /\ Cardinality(ActorsOf(p)) = Slots[p]
  <2> DEFINE n == Slots[p]
             f == [i \in 0 .. n - 1 |-> <<p, i>>]
  <2>1. n \in Nat \ {0}
    BY PoolAssumption
  <2>2. IsFiniteSet(0 .. n - 1) /\ Cardinality(0 .. n - 1) = n
    <3>1. /\ n - 1 \in Int /\ 0 \in Int /\ ~(0 > n - 1)
          /\ (n - 1) - 0 + 1 = n
      BY <2>1
    <3>2. QED
      BY <3>1, FS_Interval
  <2>3. f \in Bijection(0 .. n - 1, ActorsOf(p))
    <3>1. f \in [0 .. n - 1 -> ActorsOf(p)]
      BY DEF ActorsOf
    <3>2. \A i, j \in 0 .. n - 1 : f[i] = f[j] => i = j
      OBVIOUS
    <3>3. \A a \in ActorsOf(p) : \E i \in 0 .. n - 1 : f[i] = a
      BY DEF ActorsOf
    <3>4. QED
      BY <3>1, <3>2, <3>3 DEF Bijection, Injection, Surjection, IsInjective
  <2>4. ExistsBijection(0 .. n - 1, ActorsOf(p))
    BY <2>3 DEF ExistsBijection
  <2>5. QED
    BY <2>2, <2>4, FS_Bijection
<1>3. IsFiniteSet(IdleActors(p))
  <2>1. IdleActors(p) \in SUBSET ActorsOf(p)
    BY DEF IdleActors
  <2>2. QED
    BY <1>2, <2>1, FS_Subset
<1>4. QED
  BY <1>1, <1>2, <1>3, FS_CardinalityType

\* Replacing a member by another keeps the number of members.
LEMMA SwapKeepsCardinality ==
  ASSUME NEW S, IsFiniteSet(S), NEW x \in S, NEW y, y \notin S
  PROVE  Cardinality((S \ {x}) \cup {y}) = Cardinality(S)
<1>1. IsFiniteSet(S \ {x}) /\ Cardinality(S \ {x}) = Cardinality(S) - 1
  BY FS_RemoveElement
<1>2. Cardinality((S \ {x}) \cup {y}) = Cardinality(S \ {x}) + 1
  BY <1>1, FS_AddElement
<1>3. Cardinality(S) \in Nat
  BY FS_CardinalityType
<1>4. QED
  BY <1>1, <1>2, <1>3

\* What the semaphore and the table say of a provider whose slots were all
\* released: a permit is free, or owned and unmarked, for each idle actor.
BooksAgree ==
  \A p \in Providers \ dropped :
    Cardinality(IdleActors(p)) = permits[p] + Cardinality(Unmarked(p))

LEMMA BooksInit == Init => PermitsConserved /\ BooksAgree
<1> SUFFICES ASSUME Init, NEW p \in Providers
             PROVE  /\ permits[p] + Cardinality(Holders(p)) = Slots[p]
                    /\ waiters[p] = <<>>
                    /\ Cardinality(IdleActors(p)) =
                         permits[p] + Cardinality(Unmarked(p))
  BY DEF PermitsConserved, BooksAgree
<1>1. Holders(p) = {} /\ Unmarked(p) = {} /\ IdleActors(p) = ActorsOf(p)
  BY DEF Init, NoTask, Holders, Unmarked, IdleActors
<1>2. permits[p] = Slots[p] /\ Slots[p] \in Nat /\ waiters[p] = <<>>
  BY PoolAssumption DEF Init
<1>3. QED
  BY <1>1, <1>2, FiniteBooks, FS_EmptySet

LEMMA ConservedNext ==
  ASSUME PoolInv, PermitsConserved, [Next]_vars
  PROVE  PermitsConserved'
<1> SUFFICES ASSUME NEW p \in Providers
             PROVE  /\ permits'[p] + Cardinality(Holders(p)') = Slots[p]
                    /\ waiters'[p] # <<>> => permits'[p] = 0
  BY DEF PermitsConserved
<1>1. /\ permits[p] \in Nat /\ Slots[p] \in Nat
      /\ Cardinality(Holders(p)) \in Nat /\ IsFiniteSet(Holders(p))
      /\ permits[p] + Cardinality(Holders(p)) = Slots[p]
      /\ waiters[p] # <<>> => permits[p] = 0
  BY PoolAssumption, FiniteBooks DEF PoolInv, TypeOK, PermitsConserved
<1>2. CASE Untouched(p)
  BY <1>1, <1>2 DEF Untouched
<1>3. ASSUME NEW t, Takes(p, t)
      PROVE  /\ permits'[p] + Cardinality(Holders(p)') = Slots[p]
             /\ waiters'[p] # <<>> => permits'[p] = 0
  <2>1. Cardinality(Holders(p)') = Cardinality(Holders(p)) + 1
    BY <1>1, <1>3, FS_AddElement DEF Takes
  <2>2. QED
    BY <1>1, <1>3, <2>1 DEF Takes
<1>4. ASSUME NEW t, Returns(p, t)
      PROVE  /\ permits'[p] + Cardinality(Holders(p)') = Slots[p]
             /\ waiters'[p] # <<>> => permits'[p] = 0
  <2>1. Cardinality(Holders(p)') = Cardinality(Holders(p)) - 1
    BY <1>1, <1>4, FS_RemoveElement DEF Returns
  <2>2. QED
    BY <1>1, <1>4, <2>1 DEF Returns
<1>5. ASSUME NEW t, NEW h, HandsOver(p, t, h)
      PROVE  /\ permits'[p] + Cardinality(Holders(p)') = Slots[p]
             /\ waiters'[p] # <<>> => permits'[p] = 0
  <2>1. Cardinality(Holders(p)') = Cardinality(Holders(p))
    BY <1>1, <1>5, SwapKeepsCardinality DEF HandsOver
  <2>2. QED
    BY <1>1, <1>5, <2>1 DEF HandsOver
<1>6. ASSUME NEW t, NEW a, Marks(p, t, a) \/ Unmarks(p, t, a)
      PROVE  /\ permits'[p] + Cardinality(Holders(p)') = Slots[p]
             /\ waiters'[p] # <<>> => permits'[p] = 0
  BY <1>1, <1>6 DEF Marks, Unmarks
<1>7. QED
  BY <1>2, <1>3, <1>4, <1>5, <1>6, BooksNext DEF Booked

LEMMA AgreeNext ==
  ASSUME PoolInv, BooksAgree, [Next]_vars
  PROVE  BooksAgree'
<1> SUFFICES ASSUME NEW p \in Providers, p \notin dropped'
             PROVE  Cardinality(IdleActors(p)') =
                      permits'[p] + Cardinality(Unmarked(p)')
  BY DEF BooksAgree
<1>1. /\ permits[p] \in Nat
      /\ Cardinality(Unmarked(p)) \in Nat /\ IsFiniteSet(Unmarked(p))
      /\ Cardinality(IdleActors(p)) \in Nat /\ IsFiniteSet(IdleActors(p))
      /\ Cardinality(IdleActors(p)) = permits[p] + Cardinality(Unmarked(p))
  BY FiniteBooks, BooksNext DEF PoolInv, TypeOK, BooksAgree
<1>2. CASE Untouched(p)
  BY <1>1, <1>2 DEF Untouched
<1>3. ASSUME NEW t, Takes(p, t)
      PROVE  Cardinality(IdleActors(p)') = permits'[p] + Cardinality(Unmarked(p)')
  <2>1. Cardinality(Unmarked(p)') = Cardinality(Unmarked(p)) + 1
    <3>1. t \notin Unmarked(p) /\ Unmarked(p)' = Unmarked(p) \cup {t}
      BY <1>3 DEF Takes
    <3>2. Cardinality(Unmarked(p) \cup {t}) = Cardinality(Unmarked(p)) + 1
      BY <1>1, <3>1, FS_AddElement
    <3>3. QED
      BY <3>1, <3>2
  <2>2. QED
    BY <1>1, <1>3, <2>1 DEF Takes
<1>4. ASSUME NEW t, Returns(p, t)
      PROVE  Cardinality(IdleActors(p)') = permits'[p] + Cardinality(Unmarked(p)')
  <2>1. Cardinality(Unmarked(p)') = Cardinality(Unmarked(p)) - 1
    BY <1>1, <1>4, FS_RemoveElement DEF Returns
  <2>2. QED
    BY <1>1, <1>4, <2>1 DEF Returns
<1>5. ASSUME NEW t, NEW h, HandsOver(p, t, h)
      PROVE  Cardinality(IdleActors(p)') = permits'[p] + Cardinality(Unmarked(p)')
  <2>1. Cardinality(Unmarked(p)') = Cardinality(Unmarked(p))
    BY <1>1, <1>5, SwapKeepsCardinality DEF HandsOver
  <2>2. QED
    BY <1>1, <1>5, <2>1 DEF HandsOver
<1>6. ASSUME NEW t, NEW a, Marks(p, t, a)
      PROVE  Cardinality(IdleActors(p)') = permits'[p] + Cardinality(Unmarked(p)')
  <2>1. /\ Cardinality(Unmarked(p)') = Cardinality(Unmarked(p)) - 1
        /\ Cardinality(IdleActors(p)') = Cardinality(IdleActors(p)) - 1
    <3>1. /\ t \in Unmarked(p) /\ Unmarked(p)' = Unmarked(p) \ {t}
          /\ a \in IdleActors(p) /\ IdleActors(p)' = IdleActors(p) \ {a}
      BY <1>6 DEF Marks
    <3>2. /\ Cardinality(Unmarked(p) \ {t}) = Cardinality(Unmarked(p)) - 1
          /\ Cardinality(IdleActors(p) \ {a}) = Cardinality(IdleActors(p)) - 1
      BY <1>1, <3>1, FS_RemoveElement
    <3>3. QED
      BY <3>1, <3>2
  <2>2. QED
    BY <1>1, <1>6, <2>1 DEF Marks
<1>7. ASSUME NEW t, NEW a, Unmarks(p, t, a)
      PROVE  Cardinality(IdleActors(p)') = permits'[p] + Cardinality(Unmarked(p)')
  <2>1. /\ Cardinality(Unmarked(p)') = Cardinality(Unmarked(p)) + 1
        /\ Cardinality(IdleActors(p)') = Cardinality(IdleActors(p)) + 1
    <3>1. /\ t \notin Unmarked(p) /\ Unmarked(p)' = Unmarked(p) \cup {t}
          /\ a \notin IdleActors(p) /\ IdleActors(p)' = IdleActors(p) \cup {a}
      BY <1>7 DEF Unmarks
    <3>2. /\ Cardinality(Unmarked(p) \cup {t}) = Cardinality(Unmarked(p)) + 1
          /\ Cardinality(IdleActors(p) \cup {a}) = Cardinality(IdleActors(p)) + 1
      BY <1>1, <3>1, FS_AddElement
    <3>3. QED
      BY <3>1, <3>2
  <2>2. QED
    BY <1>1, <1>7, <2>1 DEF Unmarks
<1>8. QED
  BY <1>2, <1>3, <1>4, <1>5, <1>6, <1>7, BooksNext DEF Booked

\* No permit is created or lost for any numbers of slots and tasks, and no
\* task waits while a permit is available.
THEOREM Conservation == Spec => []PermitsConserved
<1>1. Init => PermitsConserved
  BY BooksInit
<1>2. PoolInv /\ PermitsConserved /\ [Next]_vars => PermitsConserved'
  BY ConservedNext
<1>3. QED
  BY <1>1, <1>2, PoolInvariant, PTL DEF Spec

\* Semaphore and table agree, so that acquire finds an actor for its permit
\* unless a slot of the provider was dropped without release.
THEOREM PermitsFindActors == Spec => []PermitFindsActor
<1>1. Init => BooksAgree
  BY BooksInit
<1>2. PoolInv /\ BooksAgree /\ [Next]_vars => BooksAgree'
  BY AgreeNext
<1>3. PoolInv /\ BooksAgree => PermitFindsActor
  <2> SUFFICES ASSUME PoolInv, BooksAgree, NEW p \in Providers \ dropped
               PROVE  Cardinality(IdleActors(p)) >=
                        permits[p] + Cardinality({t \in Holders(p) : At(t, "permit")})
    BY DEF PermitFindsActor
  <2> DEFINE P == {t \in Holders(p) : At(t, "permit")}
  <2>1. P \in SUBSET Unmarked(p)
    BY DEF Holders, Unmarked, At
  <2>2. /\ IsFiniteSet(P) /\ Cardinality(P) <= Cardinality(Unmarked(p))
        /\ Cardinality(P) \in Nat
    BY <2>1, FiniteBooks, FS_Subset, FS_CardinalityType
  <2>3. permits[p] \in Nat /\ Cardinality(Unmarked(p)) \in Nat
    BY FiniteBooks DEF PoolInv, TypeOK
  <2> HIDE DEF P
  <2>4. Cardinality(IdleActors(p)) >= permits[p] + Cardinality(P)
    BY <2>2, <2>3 DEF BooksAgree
  <2>5. QED
    BY <2>4 DEF P
<1>4. QED
  BY <1>1, <1>2, <1>3, PoolInvariant, PTL DEF Spec
=============================================================================
