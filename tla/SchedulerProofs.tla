----------------------------- MODULE SchedulerProofs -----------------------------
(***************************************************************************)
(* For any entries, triggers, intervals, cooldowns and limits: the types,  *)
(* that an entry never runs more often than it may, that its runs keep     *)
(* their distance, whichever of the four ways fires it, and that a timed   *)
(* entry is late by a bounded delay only.                                  *)
(***************************************************************************)
EXTENDS Scheduler, SequenceTheorems, TLAPS

-----------------------------------------------------------------------------
(* One firing of one entry *)

LEMMA AppendFacts ==
  ASSUME NEW S, NEW s \in Seq(S), NEW x \in S
  PROVE  /\ Append(s, x) \in Seq(S)
         /\ Len(s) \in Nat /\ Len(Append(s, x)) = Len(s) + 1
         /\ Append(s, x)[Len(s) + 1] = x
         /\ \A i \in 1 .. Len(s) : Append(s, x)[i] = s[i]
BY AppendProperties, LenProperties

\* Two instants a period apart lie in different periods.
LEMMA PeriodsDiffer ==
  ASSUME NEW a \in Nat, NEW b \in Nat, NEW m \in Nat \ {0}, b >= a + m
  PROVE  b \div m # a \div m
BY Z3

LEMMA RunFacts ==
  ASSUME TypeOK, NEW e \in Entries, Exists(e)
  PROVE  /\ entries[e] \in Entry
         /\ AfterRun(e) \in Entry
         /\ AfterRun(e).last_run_at = now
         /\ AfterRun(e).run_count = entries[e].run_count + 1
         /\ AfterRun(e).created_at = entries[e].created_at
         /\ AfterRun(e).enabled <=>
              MaxRuns[e] = 0 \/ entries[e].run_count + 1 < MaxRuns[e]
<1>1. entries[e] \in Entry
  BY DEF TypeOK, Exists
<1>2. /\ now \in Nat /\ MaxRuns[e] \in Nat
      /\ entries[e].run_count \in Nat
  BY <1>1, SchedulerAssumption DEF TypeOK, Entry
<1> DEFINE count == entries[e].run_count + 1
           more == MaxRuns[e] = 0 \/ count < MaxRuns[e]
<1>3. AfterRun(e) = [entries[e] EXCEPT !.last_run_at = now, !.run_count = count,
                                       !.enabled = more]
  BY DEF AfterRun
<1>4. count \in Nat /\ more \in BOOLEAN
  BY <1>2
<1> HIDE DEF count, more
<1>5. AfterRun(e) = [enabled |-> more, run_count |-> count, last_run_at |-> now,
                     created_at |-> entries[e].created_at]
  BY <1>1, <1>3 DEF Entry
<1>6. AfterRun(e) \in Entry
  BY <1>1, <1>2, <1>4, <1>5 DEF Entry
<1>7. /\ AfterRun(e).last_run_at = now /\ AfterRun(e).run_count = count
      /\ AfterRun(e).created_at = entries[e].created_at
  BY <1>5
<1>8. AfterRun(e).enabled = more
  BY <1>5
<1>9. AfterRun(e).enabled <=> MaxRuns[e] = 0 \/ entries[e].run_count + 1 < MaxRuns[e]
  BY <1>8, Zenon DEF count, more
<1> QED
  BY <1>1, <1>6, <1>7, <1>9 DEF count

\* Every way to fire an enabled entry that exists.
FiresEnabled(due, manual) ==
  /\ due \subseteq {e \in Entries : Enabled(e)}
  /\ ~manual => due \subseteq {e \in Entries : MayFire(e)}
  /\ manual \in BOOLEAN
  /\ Fire(due, manual)
  /\ UNCHANGED <<now, created>>

LEMMA FireFacts ==
  ASSUME TypeOK, NEW due, NEW manual, FiresEnabled(due, manual), NEW e \in Entries
  PROVE  LET x == [at |-> now, manual |-> manual]
         IN  /\ e \notin due => entries'[e] = entries[e] /\ history'[e] = history[e]
             /\ e \in due => /\ Enabled(e) /\ Exists(e) /\ (manual \/ MayFire(e))
                             /\ entries'[e] = AfterRun(e)
                             /\ history'[e] = Append(history[e], x)
                             /\ history[e] \in Seq(Firing) /\ x \in Firing
BY DEF FiresEnabled, Fire, Enabled, TypeOK, Firing

-----------------------------------------------------------------------------
(* Types *)

LEMMA TypeFire ==
  ASSUME TypeOK, NEW due, NEW manual, FiresEnabled(due, manual)
  PROVE  /\ entries' \in [Entries -> Entry \cup {None}]
         /\ history' \in [Entries -> Seq(Firing)]
         /\ \A e \in Entries : entries'[e] # None =>
              /\ entries'[e].created_at <= now
              /\ entries'[e].last_run_at # None =>
                   entries'[e].created_at <= entries'[e].last_run_at
                     /\ entries'[e].last_run_at <= now
<1>1. ASSUME NEW e \in Entries
      PROVE  /\ entries'[e] \in Entry \cup {None}
             /\ history'[e] \in Seq(Firing)
             /\ entries'[e] # None =>
                  /\ entries'[e].created_at <= now
                  /\ entries'[e].last_run_at # None =>
                       entries'[e].created_at <= entries'[e].last_run_at
                         /\ entries'[e].last_run_at <= now
  <2>1. CASE e \notin due
    BY <2>1, FireFacts DEF TypeOK
  <2>2. CASE e \in due
    <3>1. /\ Exists(e) /\ entries'[e] = AfterRun(e)
          /\ history'[e] \in Seq(Firing)
      <4> DEFINE x == [at |-> now, manual |-> manual]
      <4>1. /\ Exists(e) /\ entries'[e] = AfterRun(e)
            /\ history'[e] = Append(history[e], x)
            /\ history[e] \in Seq(Firing) /\ x \in Firing
        BY <2>2, FireFacts
      <4> HIDE DEF x
      <4> QED
        BY <4>1, AppendFacts
    <3>2. entries[e].created_at <= now /\ now \in Nat
      BY <3>1 DEF TypeOK, Exists
    <3> QED
      BY <3>1, <3>2, RunFacts
  <2> QED
    BY <2>1, <2>2
<1>2. /\ entries' = [e \in Entries |-> entries'[e]]
      /\ history' = [e \in Entries |-> history'[e]]
  BY DEF FiresEnabled, Fire
<1> QED
  BY <1>1, <1>2

LEMMA TicksFire ==
  /\ CronTick => \E due : FiresEnabled(due, FALSE)
  /\ IntervalTick => \E due : FiresEnabled(due, FALSE)
  /\ \A type \in EventTypes : HandleEvent(type) => \E due : FiresEnabled(due, FALSE)
  /\ \A e \in Entries : TriggerEntry(e) => \E due : FiresEnabled(due, TRUE)
<1>1. CronTick => \E due : FiresEnabled(due, FALSE)
  BY DEF CronTick, FiresEnabled, MayFire
<1>2. IntervalTick => \E due : FiresEnabled(due, FALSE)
  BY DEF IntervalTick, FiresEnabled, MayFire
<1>3. ASSUME NEW type \in EventTypes, HandleEvent(type)
      PROVE \E due : FiresEnabled(due, FALSE)
  BY <1>3 DEF HandleEvent, FiresEnabled, MayFire
<1>4. ASSUME NEW e \in Entries, TriggerEntry(e) PROVE \E due : FiresEnabled(due, TRUE)
  BY <1>4 DEF TriggerEntry, FiresEnabled
<1> QED
  BY <1>1, <1>2, <1>3, <1>4

\* A creation puts the new entry in its place and ends at most the entry that had
\* the same identifier.
LEMMA CreateFacts ==
  ASSUME TypeOK, NEW e \in Entries, Create(e)
  PROVE  /\ entries' \in [Entries -> Entry \cup {None}]
         /\ entries'[e] = [enabled |-> TRUE, run_count |-> 0, last_run_at |-> None,
                           created_at |-> now]
         /\ \A d \in Entries \ {e} : entries'[d] = entries[d] \/ entries'[d] = None
<1> DEFINE new == [enabled |-> TRUE, run_count |-> 0, last_run_at |-> None,
                   created_at |-> now]
<1>1. PICK old \in Entries : entries' = [entries EXCEPT ![old] = None, ![e] = new]
  BY DEF Create
<1>2. new \in Entry
  BY DEF TypeOK, Entry
<1> HIDE DEF new
<1>3. /\ entries' \in [Entries -> Entry \cup {None}]
      /\ entries'[e] = new
      /\ \A d \in Entries \ {e} : entries'[d] = entries[d] \/ entries'[d] = None
  BY <1>1, <1>2 DEF TypeOK
<1> QED
  BY <1>3 DEF new

LEMMA TypeInit == Init => TypeOK
BY SchedulerAssumption, EmptySeq DEF Init, TypeOK

LEMMA TypeNext == TypeOK /\ [Next]_vars => TypeOK'
<1> SUFFICES ASSUME TypeOK, [Next]_vars PROVE TypeOK'
  OBVIOUS
<1> USE SchedulerAssumption
<1>1. ASSUME NEW due, NEW manual, FiresEnabled(due, manual),
             cronDue' \in Nat, tickDue' \in Nat, manuals' \in 0 .. MaxManual
      PROVE  TypeOK'
  BY <1>1, TypeFire DEF FiresEnabled, TypeOK
<1>2. CASE CronTick
  <2>1. PICK due : FiresEnabled(due, FALSE)
    BY <1>2, TicksFire
  <2>2. cronDue' \in Nat /\ tickDue' \in Nat /\ UNCHANGED manuals
    BY <1>2 DEF CronTick, TypeOK
  <2> QED
    BY <1>1, <2>1, <2>2 DEF TypeOK
<1>3. CASE IntervalTick
  <2>1. PICK due : FiresEnabled(due, FALSE)
    BY <1>3, TicksFire
  <2>2. cronDue' \in Nat /\ tickDue' \in Nat /\ UNCHANGED manuals
    BY <1>3 DEF IntervalTick, TypeOK
  <2> QED
    BY <1>1, <2>1, <2>2 DEF TypeOK
<1>4. ASSUME NEW type \in EventTypes, HandleEvent(type) PROVE TypeOK'
  BY <1>1, <1>4, TicksFire DEF HandleEvent, TypeOK
<1>9. ASSUME NEW e \in Entries, TriggerEntry(e) PROVE TypeOK'
  <2>1. PICK due : FiresEnabled(due, TRUE)
    BY <1>9, TicksFire
  <2>2. manuals' \in 0 .. MaxManual /\ UNCHANGED <<cronDue, tickDue>>
    BY <1>9 DEF TriggerEntry, TypeOK
  <2> QED
    BY <1>1, <2>1, <2>2 DEF TypeOK
<1>5. ASSUME NEW e \in Entries, Create(e) PROVE TypeOK'
  <2> DEFINE new == [enabled |-> TRUE, run_count |-> 0, last_run_at |-> None,
                     created_at |-> now]
  <2>1. /\ entries' \in [Entries -> Entry \cup {None}]
        /\ entries'[e] = new
        /\ \A d \in Entries \ {e} : entries'[d] = entries[d] \/ entries'[d] = None
    BY <1>5, CreateFacts
  <2>2. new.created_at = now /\ new.last_run_at = None /\ now \in Nat
    BY DEF TypeOK
  <2> HIDE DEF new
  <2>3. UNCHANGED <<now, cronDue, tickDue, manuals, history>> /\ created' = created \cup {e}
    BY <1>5 DEF Create
  <2>4. \A d \in Entries : entries'[d] # None =>
          /\ entries'[d].created_at <= now
          /\ entries'[d].last_run_at # None =>
               entries'[d].created_at <= entries'[d].last_run_at
                 /\ entries'[d].last_run_at <= now
    <3> SUFFICES ASSUME NEW d \in Entries, entries'[d] # None
                 PROVE  /\ entries'[d].created_at <= now
                        /\ entries'[d].last_run_at # None =>
                             entries'[d].created_at <= entries'[d].last_run_at
                               /\ entries'[d].last_run_at <= now
      OBVIOUS
    <3>1. CASE d = e
      BY <2>1, <2>2, <3>1
    <3>2. CASE d # e
      <4>1. entries'[d] = entries[d] /\ entries[d] # None
        BY <2>1, <3>2
      <4> QED
        BY <4>1 DEF TypeOK
    <3> QED
      BY <3>1, <3>2
  <2> QED
    BY <2>1, <2>3, <2>4 DEF TypeOK
<1>6. ASSUME NEW e \in Entries, Remove(e) PROVE TypeOK'
  BY <1>6 DEF Remove, TypeOK
<1>7. CASE Advance
  <2>1. now' = now + 1 /\ now \in Nat
    BY <1>7 DEF Advance, TypeOK
  <2>2. \A e \in Entries : entries[e] # None =>
          /\ entries[e] \in Entry
          /\ entries[e].created_at \in Nat /\ entries[e].last_run_at \in Nat \cup {None}
    BY DEF TypeOK, Entry
  <2> QED
    BY <1>7, <2>1, <2>2 DEF Advance, TypeOK
<1>8. CASE UNCHANGED vars
  BY <1>8 DEF vars, TypeOK
<1> QED
  BY <1>1, <1>2, <1>3, <1>4, <1>5, <1>6, <1>7, <1>8, <1>9 DEF Next

LEMMA TypeHolds == Spec => []TypeOK
BY TypeInit, TypeNext, PTL DEF Spec

\* The clock, the timers and every entry are what their comments say; an entry
\* has run after it was created and not after now.
THEOREM TypesCorrect == Spec => []TypeOK
BY TypeHolds

-----------------------------------------------------------------------------
(* Limits and distances *)

\* An entry that was never scheduled has no history; the record of an entry
\* counts its runs and remembers the last; its runs are in order.
FreshInv(e) == e \notin created => ~Exists(e) /\ history[e] = <<>>

LimitInv(e) ==
  /\ MaxRuns[e] > 0 => Len(history[e]) <= MaxRuns[e]
  /\ Exists(e) =>
       /\ entries[e].run_count = Len(history[e])
       /\ entries[e].enabled <=> MaxRuns[e] = 0 \/ Len(history[e]) < MaxRuns[e]

LastInv(e) ==
  Exists(e) =>
    IF entries[e].last_run_at = None
      THEN Len(history[e]) = 0
      ELSE Len(history[e]) > 0 /\ history[e][Len(history[e])].at = entries[e].last_run_at

InOrder(e) ==
  \A i, j \in 1 .. Len(history[e]) : i <= j => history[e][i].at <= history[e][j].at

Spaced(e) ==
  \A i, j \in 1 .. Len(history[e]) :
    i < j /\ ~history[e][j].manual => history[e][j].at >= history[e][i].at + Cooldown[e]

EntryInv(e) == FreshInv(e) /\ LimitInv(e) /\ LastInv(e) /\ InOrder(e) /\ Spaced(e)

RunInv == TypeOK /\ \A e \in Entries : EntryInv(e)

LEMMA LimitFollows == RunInv => RunsWithinLimit
BY DEF RunInv, EntryInv, LimitInv, RunsWithinLimit

LEMMA SpacingFollows == RunInv => FiringsAreSpaced
<1> SUFFICES ASSUME RunInv, NEW e \in Entries,
                    NEW i \in 1 .. Len(history[e]), NEW j \in 1 .. Len(history[e]),
                    i < j, ~history[e][j].manual
             PROVE  /\ history[e][j].at >= history[e][i].at + Cooldown[e]
                    /\ Trigger[e] = "cron" /\ Cooldown[e] >= Minute =>
                         history[e][j].at \div Minute # history[e][i].at \div Minute
  BY DEF FiringsAreSpaced
<1>1. history[e][j].at >= history[e][i].at + Cooldown[e]
  BY DEF RunInv, EntryInv, Spaced
<1>2. history[e][i] \in Firing /\ history[e][j] \in Firing
  BY ElementOfSeq DEF RunInv, TypeOK
<1>3. /\ history[e][i].at \in Nat /\ history[e][j].at \in Nat
      /\ Cooldown[e] \in Nat /\ Minute \in Nat \ {0}
  BY <1>2, SchedulerAssumption DEF Firing
<1>4. ASSUME Cooldown[e] >= Minute
      PROVE  history[e][j].at \div Minute # history[e][i].at \div Minute
  <2>1. history[e][j].at >= history[e][i].at + Minute
    BY <1>1, <1>3, <1>4
  <2> QED
    BY <1>3, <2>1, PeriodsDiffer
<1> QED
  BY <1>1, <1>4

LEMMA RunInit == Init => RunInv
<1> SUFFICES ASSUME Init PROVE RunInv
  OBVIOUS
<1>1. \A e \in Entries : entries[e] = None /\ Len(history[e]) = 0 /\ history[e] = <<>>
  BY EmptySeq DEF Init
<1>2. TypeOK
  BY TypeInit
<1> QED
  BY <1>1, <1>2, SchedulerAssumption
     DEF RunInv, EntryInv, FreshInv, LimitInv, LastInv, InOrder, Spaced, Exists

\* One more firing of an entry that may fire.
LEMMA EntryFires ==
  ASSUME RunInv, NEW due, NEW manual, FiresEnabled(due, manual), NEW e \in Entries,
         e \in due
  PROVE  EntryInv(e)'
<1> DEFINE h == history[e]
           n == Len(h)
           last == entries[e].last_run_at
           x == [at |-> now, manual |-> manual]
<1>1. /\ Exists(e) /\ entries[e].enabled /\ (manual \/ MayFire(e))
      /\ entries'[e] = AfterRun(e) /\ history'[e] = Append(h, x)
      /\ h \in Seq(Firing) /\ x \in Firing
  BY FireFacts DEF RunInv, Enabled
<1>2. /\ n \in Nat /\ Len(history'[e]) = n + 1
      /\ history'[e][n + 1] = x
      /\ \A i \in 1 .. n : history'[e][i] = h[i]
  BY <1>1, AppendFacts
<1>3. /\ entries'[e].last_run_at = now
      /\ entries'[e].run_count = n + 1
      /\ entries'[e].enabled <=> MaxRuns[e] = 0 \/ n + 1 < MaxRuns[e]
      /\ entries[e] \in Entry
  BY <1>1, RunFacts DEF RunInv, EntryInv, LimitInv
<1>4. /\ MaxRuns[e] \in Nat /\ Cooldown[e] \in Nat
      /\ now \in Nat /\ now # None /\ UNCHANGED <<now, created>>
  BY SchedulerAssumption DEF RunInv, TypeOK, FiresEnabled
<1>5. \A i \in 1 .. n : h[i] \in Firing /\ h[i].at \in Nat
  <2>1. \A i \in 1 .. n : h[i] \in Firing
    BY <1>1, ElementOfSeq
  <2> QED
    BY <2>1 DEF Firing
<1>6. last = None => n = 0
  BY <1>1 DEF RunInv, EntryInv, LastInv
<1>7. \A i \in 1 .. n : last # None /\ h[i].at <= last /\ last <= now /\ last \in Nat
  <2> SUFFICES ASSUME NEW i \in 1 .. n
               PROVE last # None /\ h[i].at <= last /\ last <= now /\ last \in Nat
    OBVIOUS
  <2>1. last # None
    BY <1>2, <1>6
  <2>2. n > 0 /\ h[n].at = last /\ n \in 1 .. n
    BY <1>1, <1>2, <2>1 DEF RunInv, EntryInv, LastInv
  <2>3. h[i].at <= h[n].at
    BY <1>2, <2>2 DEF RunInv, EntryInv, InOrder
  <2>4. last <= now
    BY <1>1, <2>1 DEF RunInv, TypeOK, Exists
  <2> QED
    BY <1>5, <2>1, <2>2, <2>3, <2>4
<1>8. MaxRuns[e] = 0 \/ n < MaxRuns[e]
  BY <1>1 DEF RunInv, EntryInv, LimitInv
<1>9. FreshInv(e)'
  <2>1. e \in created
    BY <1>1 DEF RunInv, EntryInv, FreshInv
  <2> QED
    BY <1>4, <2>1 DEF FreshInv
<1>10. LimitInv(e)'
  <2>1. MaxRuns[e] > 0 => n + 1 <= MaxRuns[e]
    BY <1>2, <1>4, <1>8
  <2> QED
    BY <1>2, <1>3, <2>1 DEF LimitInv
<1>11. LastInv(e)'
  BY <1>2, <1>3, <1>4 DEF LastInv
<1>12. InOrder(e)'
  <2> SUFFICES ASSUME NEW i \in 1 .. n + 1, NEW j \in 1 .. n + 1, i <= j
               PROVE  history'[e][i].at <= history'[e][j].at
    BY <1>2 DEF InOrder
  <2>1. CASE j = n + 1
    <3>1. history'[e][j].at = now
      BY <1>2, <2>1
    <3>2. CASE i = n + 1
      BY <1>4, <2>1, <3>1, <3>2
    <3>3. CASE i # n + 1
      <4>1. i \in 1 .. n /\ history'[e][i] = h[i]
        BY <1>2, <3>3
      <4> QED
        BY <1>4, <1>5, <1>7, <3>1, <4>1
    <3> QED
      BY <3>2, <3>3
  <2>2. CASE j # n + 1
    <3>1. i \in 1 .. n /\ j \in 1 .. n
      BY <1>2, <2>2
    <3> QED
      BY <1>2, <3>1 DEF RunInv, EntryInv, InOrder
  <2> QED
    BY <2>1, <2>2
<1>13. Spaced(e)'
  <2> SUFFICES ASSUME NEW i \in 1 .. n + 1, NEW j \in 1 .. n + 1, i < j,
                      ~history'[e][j].manual
               PROVE  history'[e][j].at >= history'[e][i].at + Cooldown[e]
    BY <1>2 DEF Spaced
  <2>1. CASE j = n + 1
    <3>1. i \in 1 .. n /\ history'[e][i] = h[i] /\ history'[e][j] = x
      BY <1>2, <2>1
    <3>2. now >= last + Cooldown[e]
      BY <1>1, <1>7, <3>1 DEF MayFire, CooldownOk
    <3> QED
      BY <1>4, <1>5, <1>7, <3>1, <3>2
  <2>2. CASE j # n + 1
    <3>1. i \in 1 .. n /\ j \in 1 .. n
      BY <1>2, <2>2
    <3> QED
      BY <1>2, <3>1 DEF RunInv, EntryInv, Spaced
  <2> QED
    BY <2>1, <2>2
<1> QED
  BY <1>9, <1>10, <1>11, <1>12, <1>13 DEF EntryInv

\* What an entry's record and history do not change keeps its invariant.
LEMMA EntryKept ==
  ASSUME NEW e \in Entries, EntryInv(e), entries'[e] = entries[e],
         history'[e] = history[e], created \subseteq created'
  PROVE  EntryInv(e)'
BY DEF EntryInv, FreshInv, LimitInv, LastInv, InOrder, Spaced, Exists

\* An entry that is taken away keeps its history.
LEMMA EntryGone ==
  ASSUME NEW e \in Entries, EntryInv(e), entries'[e] = None,
         history'[e] = history[e], created \subseteq created'
  PROVE  EntryInv(e)'
BY DEF EntryInv, FreshInv, LimitInv, LastInv, InOrder, Spaced, Exists

LEMMA RunsFire ==
  ASSUME RunInv, NEW due, NEW manual, FiresEnabled(due, manual)
  PROVE  \A e \in Entries : EntryInv(e)'
<1> SUFFICES ASSUME NEW e \in Entries PROVE EntryInv(e)'
  OBVIOUS
<1>1. CASE e \in due
  BY <1>1, EntryFires
<1>2. CASE e \notin due
  BY <1>2, FireFacts, EntryKept DEF RunInv, FiresEnabled
<1> QED
  BY <1>1, <1>2

LEMMA RunNext == RunInv /\ TypeOK' /\ [Next]_vars => RunInv'
<1> SUFFICES ASSUME RunInv, [Next]_vars PROVE \A e \in Entries : EntryInv(e)'
  BY DEF RunInv
<1>1. CASE CronTick \/ IntervalTick \/ \E type \in EventTypes : HandleEvent(type)
  BY <1>1, TicksFire, RunsFire
<1>2. CASE \E e \in Entries : TriggerEntry(e)
  BY <1>2, TicksFire, RunsFire
<1>3. ASSUME NEW e \in Entries, Create(e), NEW d \in Entries PROVE EntryInv(d)'
  <2>1. CASE d # e
    BY <1>3, <2>1, CreateFacts, EntryKept, EntryGone DEF Create, RunInv
  <2>2. CASE d = e
    <3>1. history[e] = <<>> /\ history'[e] = <<>> /\ e \in created'
      BY <1>3 DEF Create, RunInv, EntryInv, FreshInv
    <3>2. /\ entries'[e].enabled = TRUE /\ entries'[e].run_count = 0
          /\ entries'[e].last_run_at = None
      BY <1>3, CreateFacts DEF RunInv
    <3>3. Len(history'[e]) = 0 /\ MaxRuns[e] \in Nat
      BY <3>1, EmptySeq, SchedulerAssumption
    <3> QED
      BY <2>2, <3>1, <3>2, <3>3
         DEF EntryInv, FreshInv, LimitInv, LastInv, InOrder, Spaced, Exists
  <2> QED
    BY <2>1, <2>2
<1>4. ASSUME NEW e \in Entries, Remove(e), NEW d \in Entries PROVE EntryInv(d)'
  <2>1. CASE d # e
    BY <1>4, <2>1, EntryKept DEF Remove, RunInv, TypeOK
  <2>2. CASE d = e
    <3>1. entries'[e] = None /\ UNCHANGED <<history, created>>
      BY <1>4 DEF Remove, RunInv, TypeOK
    <3> QED
      BY <1>4, <2>2, <3>1
         DEF RunInv, EntryInv, FreshInv, LimitInv, LastInv, InOrder, Spaced, Exists
  <2> QED
    BY <2>1, <2>2
<1>5. CASE Advance
  BY <1>5, EntryKept DEF Advance, RunInv
<1>6. CASE UNCHANGED vars
  BY <1>6, EntryKept DEF vars, RunInv
<1> QED
  BY <1>1, <1>2, <1>3, <1>4, <1>5, <1>6 DEF Next

LEMMA RunHolds == Spec => []RunInv
BY RunInit, RunNext, TypeHolds, PTL DEF Spec

\* An entry with a limit runs no more often than that, by timers, events and
\* hand together, and is disabled exactly when it has had its last run.
THEOREM LimitsHold == Spec => []RunsWithinLimit
BY RunHolds, LimitFollows, PTL

\* No timer or event fires an entry within its cooldown of any earlier run, and
\* so never twice in one minute when the cooldown is a minute.
THEOREM SpacingHolds == Spec => []FiringsAreSpaced
BY RunHolds, SpacingFollows, PTL

-----------------------------------------------------------------------------
(* Pace.  The loop is at most MaxLate behind its timers, and the timers are *)
(* at most one period ahead of the clock; an entry that a tick leaves alone *)
(* is still within its cooldown or interval, so the next tick comes in time. *)

ClockInv ==
  /\ now <= MaxTime \/ now < Minute
  /\ now <= cronDue + MaxLate /\ cronDue <= now + Minute
  /\ now <= tickDue + MaxLate /\ tickDue <= now + 1

EveryMinute(e) == Trigger[e] = "cron" /\ \A m \in 0 .. MaxTime : m \in Minutes[e]

PaceOK(e) ==
  Enabled(e) =>
    /\ Trigger[e] = "interval" => tickDue <= Since(e) + Longer(Interval[e], Cooldown[e])
    /\ EveryMinute(e) => cronDue <= Since(e) + Minute + Cooldown[e]

PaceInv == ClockInv /\ \A e \in Entries : PaceOK(e)

\* A clock within its bound is in a minute within that bound.
LEMMA MinuteInRange ==
  ASSUME NEW t \in Nat, NEW m \in Nat \ {0}, NEW max \in Nat, t <= max \/ t < m
  PROVE  t \div m \in 0 .. max
<1>1. t \div m \in Nat /\ t \div m <= t
  BY Z3
<1>2. t < m => t \div m = 0
  BY Z3
<1> QED
  BY <1>1, <1>2

LEMMA EntryConstants ==
  ASSUME NEW e \in Entries
  PROVE  /\ Interval[e] \in Nat /\ Cooldown[e] \in Nat /\ MaxRuns[e] \in Nat
         /\ Trigger[e] = "interval" => Interval[e] > 0
         /\ Longer(Interval[e], Cooldown[e]) \in Nat
         /\ Longer(Interval[e], Cooldown[e]) >= Interval[e]
         /\ Longer(Interval[e], Cooldown[e]) >= Cooldown[e]
         /\ Minute \in Nat \ {0} /\ MaxLate \in Nat /\ MaxTime \in Nat
BY SchedulerAssumption DEF Longer

LEMMA EntryNumbers ==
  ASSUME TypeOK, NEW e \in Entries
  PROVE  /\ now \in Nat /\ cronDue \in Nat /\ tickDue \in Nat
         /\ Exists(e) => Since(e) \in Nat /\ Since(e) <= now
BY DEF TypeOK, Exists, Since, Entry

LEMMA PaceFollows == TypeOK /\ PaceInv => KeepsPace
<1> SUFFICES ASSUME TypeOK, ClockInv, NEW e \in Entries, PaceOK(e), Enabled(e)
             PROVE  /\ Trigger[e] = "interval" =>
                         now <= Since(e) + Longer(Interval[e], Cooldown[e]) + MaxLate
                    /\ EveryMinute(e) => now <= Since(e) + Minute + Cooldown[e] + MaxLate
  BY DEF PaceInv, KeepsPace, EveryMinute
<1>1. Since(e) \in Nat
  BY EntryNumbers DEF Enabled
<1> QED
  BY <1>1, EntryNumbers, EntryConstants DEF PaceOK, ClockInv, EveryMinute

LEMMA NextTickInTime ==
  ASSUME NEW t \in Nat, NEW n \in Nat, NEW i \in Nat, NEW l \in Nat,
         t <= n + 1, i > 0, l >= i
  PROVE  t <= n + l
OBVIOUS

\* An entry that has just run, or is new, has time.
LEMMA FreshPace ==
  ASSUME TypeOK', ClockInv', NEW e \in Entries, Since(e)' = now'
  PROVE  PaceOK(e)'
<1>1. now' \in Nat /\ cronDue' \in Nat /\ tickDue' \in Nat
  BY DEF TypeOK
<1>2. Trigger[e] = "interval" => tickDue' <= now' + Longer(Interval[e], Cooldown[e])
  <2>1. tickDue' <= now' + 1
    BY DEF ClockInv
  <2>2. Trigger[e] = "interval" =>
          /\ Interval[e] \in Nat /\ Interval[e] > 0
          /\ Longer(Interval[e], Cooldown[e]) \in Nat
          /\ Longer(Interval[e], Cooldown[e]) >= Interval[e]
    BY EntryConstants
  <2> QED
    BY <1>1, <2>1, <2>2, NextTickInTime
<1>3. EveryMinute(e) => cronDue' <= now' + Minute + Cooldown[e]
  BY <1>1, EntryConstants DEF ClockInv
<1> QED
  BY <1>2, <1>3 DEF PaceOK, EveryMinute

LEMMA RunResets ==
  ASSUME TypeOK, NEW due, NEW manual, FiresEnabled(due, manual), NEW e \in due
  PROVE  e \in Entries /\ Since(e)' = now /\ now' = now
<1>1. e \in Entries /\ now' = now /\ now # None
  BY SchedulerAssumption DEF FiresEnabled, TypeOK
<1>2. Exists(e) /\ entries'[e] = AfterRun(e)
  BY <1>1, FireFacts
<1>3. entries'[e].last_run_at = now
  BY <1>1, <1>2, RunFacts
<1> QED
  BY <1>1, <1>3 DEF Since

LEMMA PaceKept ==
  ASSUME NEW e \in Entries, PaceOK(e), entries'[e] = entries[e],
         UNCHANGED <<cronDue, tickDue>>
  PROVE  PaceOK(e)'
BY DEF PaceOK, Enabled, Exists, Since

\* The entries that fire, and those that do not.
LEMMA PaceFires ==
  ASSUME RunInv, PaceInv, TypeOK', ClockInv', NEW due, NEW manual,
         FiresEnabled(due, manual),
         \A e \in Entries \ due : entries'[e] = entries[e] /\ Enabled(e) => PaceOK(e)'
  PROVE  \A e \in Entries : PaceOK(e)'
<1> SUFFICES ASSUME NEW e \in Entries PROVE PaceOK(e)'
  OBVIOUS
<1>1. TypeOK
  BY DEF RunInv
<1>2. CASE e \in due
  BY <1>1, <1>2, RunResets, FreshPace
<1>3. CASE e \notin due
  <2>1. entries'[e] = entries[e]
    BY <1>1, <1>3, FireFacts
  <2> QED
    BY <1>3, <2>1 DEF PaceOK, Enabled, Exists
<1> QED
  BY <1>2, <1>3

LEMMA ClockNext == TypeOK /\ ClockInv /\ [Next]_vars => ClockInv'
<1> SUFFICES ASSUME TypeOK, ClockInv, [Next]_vars PROVE ClockInv'
  OBVIOUS
<1>1. /\ now \in Nat /\ cronDue \in Nat /\ tickDue \in Nat
      /\ Minute \in Nat \ {0} /\ MaxLate \in Nat /\ MaxTime \in Nat
  BY SchedulerAssumption DEF TypeOK
<1>2. CASE CronTick
  BY <1>1, <1>2 DEF CronTick, ClockInv
<1>3. CASE IntervalTick
  BY <1>1, <1>3 DEF IntervalTick, ClockInv
<1>4. CASE Advance
  BY <1>1, <1>4 DEF Advance, ClockInv
<1>5. CASE UNCHANGED <<now, cronDue, tickDue>>
  BY <1>5 DEF ClockInv
<1> QED
  BY <1>2, <1>3, <1>4, <1>5
     DEF Next, vars, HandleEvent, TriggerEntry, Create, Remove

\* An entry that still counts on a run has not had its last.
LEMMA NotExhausted ==
  ASSUME RunInv, NEW e \in Entries, Enabled(e)
  PROVE  ~MaxRunsReached(e)
<1>1. /\ MaxRuns[e] \in Nat /\ entries[e].run_count = Len(history[e])
      /\ MaxRuns[e] = 0 \/ Len(history[e]) < MaxRuns[e]
      /\ Len(history[e]) \in Nat
  BY SchedulerAssumption, LenProperties
     DEF RunInv, TypeOK, EntryInv, LimitInv, Enabled
<1> QED
  BY <1>1 DEF MaxRunsReached

\* A tick of the cron timer passes an entry for every minute only in its
\* cooldown, and the next tick is a minute away.
LEMMA CronPace ==
  ASSUME RunInv, PaceInv, TypeOK', ClockInv', CronTick
  PROVE  \A e \in Entries : PaceOK(e)'
<1> DEFINE due == {e \in Entries : /\ Trigger[e] = "cron"
                                   /\ now \div Minute \in Minutes[e]
                                   /\ MayFire(e)}
<1>1. TypeOK /\ cronDue <= now /\ cronDue' = cronDue + Minute
      /\ UNCHANGED <<now, tickDue>>
  BY DEF RunInv, CronTick
<1>2. FiresEnabled(due, FALSE)
  BY DEF CronTick, FiresEnabled, MayFire
<1>3. ASSUME NEW e \in Entries \ due, entries'[e] = entries[e], Enabled(e)
      PROVE  PaceOK(e)'
  <2>1. Since(e) \in Nat /\ Since(e)' = Since(e)
    BY <1>1, <1>3, EntryNumbers, EntryConstants DEF Enabled, Since
  <2>2. ASSUME EveryMinute(e) PROVE now < Since(e) + Cooldown[e]
    <3>1. now \div Minute \in 0 .. MaxTime
      BY <1>1, MinuteInRange, SchedulerAssumption DEF TypeOK, PaceInv, ClockInv
    <3>2. ~MayFire(e)
      BY <1>3, <2>2, <3>1 DEF EveryMinute
    <3>3. ~CooldownOk(e)
      BY <1>3, <3>2, NotExhausted DEF MayFire
    <3> QED
      BY <1>1, <1>3, <2>1, <3>3, EntryNumbers, EntryConstants DEF CooldownOk, Since
  <2>3. EveryMinute(e) => cronDue' <= Since(e)' + Minute + Cooldown[e]
    BY <1>1, <2>1, <2>2, EntryNumbers, EntryConstants
  <2>4. Trigger[e] = "interval" =>
          tickDue' <= Since(e)' + Longer(Interval[e], Cooldown[e])
    BY <1>1, <1>3, <2>1 DEF PaceInv, PaceOK
  <2> QED
    BY <2>3, <2>4 DEF PaceOK, EveryMinute
<1> HIDE DEF due
<1> QED
  BY <1>2, <1>3, PaceFires

\* A tick of the interval timer passes an interval entry only in its interval or
\* its cooldown.
LEMMA IntervalPace ==
  ASSUME RunInv, PaceInv, TypeOK', ClockInv', IntervalTick
  PROVE  \A e \in Entries : PaceOK(e)'
<1> DEFINE due == {e \in Entries : /\ Interval[e] > 0
                                   /\ MayFire(e)
                                   /\ IntervalElapsed(e)}
<1>1. TypeOK /\ tickDue <= now /\ tickDue' = tickDue + 1
      /\ UNCHANGED <<now, cronDue>>
  BY DEF RunInv, IntervalTick
<1>2. FiresEnabled(due, FALSE)
  BY DEF IntervalTick, FiresEnabled, MayFire
<1>3. ASSUME NEW e \in Entries \ due, entries'[e] = entries[e], Enabled(e)
      PROVE  PaceOK(e)'
  <2>1. Since(e) \in Nat /\ Since(e)' = Since(e)
    BY <1>1, <1>3, EntryNumbers, EntryConstants DEF Enabled, Since
  <2>2. ASSUME Trigger[e] = "interval"
        PROVE  now < Since(e) + Longer(Interval[e], Cooldown[e])
    <3>1. ~CooldownOk(e) \/ ~IntervalElapsed(e)
      BY <1>1, <1>3, <2>2, NotExhausted, EntryNumbers, EntryConstants DEF MayFire
    <3>2. now < Since(e) + Cooldown[e] \/ now < Since(e) + Interval[e]
      BY <1>1, <1>3, <2>1, <3>1, EntryNumbers, EntryConstants DEF CooldownOk, IntervalElapsed, Since
    <3> QED
      BY <1>1, <2>1, <3>2, EntryNumbers, EntryConstants
  <2>3. Trigger[e] = "interval" =>
          tickDue' <= Since(e)' + Longer(Interval[e], Cooldown[e])
    BY <1>1, <2>1, <2>2, EntryNumbers, EntryConstants
  <2>4. EveryMinute(e) => cronDue' <= Since(e)' + Minute + Cooldown[e]
    BY <1>1, <1>3, <2>1 DEF PaceInv, PaceOK
  <2> QED
    BY <2>3, <2>4 DEF PaceOK, EveryMinute
<1> HIDE DEF due
<1> QED
  BY <1>2, <1>3, PaceFires

LEMMA PaceInit == Init => PaceInv
<1> SUFFICES ASSUME Init PROVE PaceInv
  OBVIOUS
<1>1. /\ now \in Nat /\ now < Minute /\ cronDue = now /\ tickDue = now
      /\ Minute \in Nat \ {0} /\ MaxLate \in Nat
  BY SchedulerAssumption DEF Init
<1>2. ClockInv
  BY <1>1 DEF ClockInv
<1>3. \A e \in Entries : ~Enabled(e)
  BY DEF Init, Enabled, Exists
<1> QED
  BY <1>2, <1>3 DEF PaceInv, PaceOK

LEMMA PaceNext == RunInv /\ PaceInv /\ TypeOK' /\ [Next]_vars => PaceInv'
<1> SUFFICES ASSUME RunInv, PaceInv, TypeOK', [Next]_vars
             PROVE  \A e \in Entries : PaceOK(e)'
  BY ClockNext DEF PaceInv, RunInv
<1>1. TypeOK /\ ClockInv'
  BY ClockNext DEF PaceInv, RunInv
<1>2. ASSUME NEW due, NEW manual, FiresEnabled(due, manual),
             UNCHANGED <<cronDue, tickDue>>
      PROVE  \A e \in Entries : PaceOK(e)'
  BY <1>1, <1>2, PaceFires, PaceKept DEF PaceInv
<1>3. CASE CronTick \/ IntervalTick
  BY <1>1, <1>3, CronPace, IntervalPace
<1>4. CASE \E type \in EventTypes : HandleEvent(type)
  BY <1>2, <1>4, TicksFire DEF HandleEvent
<1>5. CASE \E e \in Entries : TriggerEntry(e)
  BY <1>2, <1>5, TicksFire DEF TriggerEntry
<1>6. ASSUME NEW d \in Entries, Create(d), NEW e \in Entries PROVE PaceOK(e)'
  <2>1. CASE e = d
    <3>1. Since(e)' = now'
      <4>1. entries'[e].last_run_at = None /\ entries'[e].created_at = now
        BY <1>1, <1>6, <2>1, CreateFacts
      <4>2. now' = now
        BY <1>6 DEF Create
      <4> QED
        BY <4>1, <4>2 DEF Since
    <3> QED
      BY <1>1, <3>1, FreshPace
  <2>2. CASE e # d
    <3>1. entries'[e] = entries[e] \/ entries'[e] = None
      BY <1>1, <1>6, <2>2, CreateFacts
    <3>2. UNCHANGED <<cronDue, tickDue>>
      BY <1>6 DEF Create
    <3> QED
      BY <3>1, <3>2, PaceKept DEF PaceInv, PaceOK, Enabled, Exists
  <2> QED
    BY <2>1, <2>2
<1>7. ASSUME NEW d \in Entries, Remove(d), NEW e \in Entries PROVE PaceOK(e)'
  <2>1. CASE e = d
    BY <1>1, <1>7, <2>1 DEF Remove, TypeOK, PaceOK, Enabled, Exists
  <2>2. CASE e # d
    BY <1>1, <1>7, <2>2, PaceKept DEF Remove, TypeOK, PaceInv
  <2> QED
    BY <2>1, <2>2
<1>8. CASE Advance \/ UNCHANGED vars
  BY <1>8, PaceKept DEF Advance, vars, PaceInv
<1> QED
  BY <1>3, <1>4, <1>5, <1>6, <1>7, <1>8 DEF Next

\* However late the loop handles its timers within MaxLate, an interval entry
\* runs within its interval or cooldown, and an entry for every minute within a
\* minute and its cooldown.
THEOREM PaceKeeps == Spec => []KeepsPace
BY PaceInit, PaceNext, PaceFollows, RunHolds, TypeHolds, PTL DEF Spec

=============================================================================
