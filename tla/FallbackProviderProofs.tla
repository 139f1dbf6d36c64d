----------------------- MODULE FallbackProviderProofs -----------------------
(***************************************************************************)
(* For any number of callers and any threshold: the types, at most one     *)
(* probe without stragglers, and a half-open circuit that is awaited.      *)
(***************************************************************************)
EXTENDS FallbackProvider, TLAPS

LEMMA NoCallType == NoCall \in Call /\ NoCall.step = "idle" /\ ~NoCall.probe
BY ThresholdAssumption DEF NoCall, Call, CallSteps

LEMMA FallbackCallType ==
  LET call == [NoCall EXCEPT !.step = "fallback"]
  IN  call \in Call /\ call.step = "fallback" /\ ~call.probe
BY NoCallType DEF Call, CallSteps

LEMMA TypeNext == TypeOK /\ [Next]_vars => TypeOK'
<1> SUFFICES ASSUME TypeOK, [Next]_vars PROVE TypeOK'
  OBVIOUS
<1> USE ThresholdAssumption
        DEF TypeOK, Call, CallSteps, Circuits, At, Goto, Probing, Reports
<1>1. ASSUME NEW t \in Callers, Allow(t) PROVE TypeOK'
  BY <1>1 DEF Allow
<1>2. ASSUME NEW t \in Callers, Step(t) PROVE TypeOK'
  <2>1. CASE PrimaryReturns(t)
    BY <2>1 DEF PrimaryReturns
  <2>2. CASE GiveUp(t)
    BY <2>2, NoCallType DEF GiveUp
  <2>3. CASE ZeroFailures(t)
    BY <2>3 DEF ZeroFailures
  <2>4. CASE Close(t)
    BY <2>4, NoCallType DEF Close
  <2>5. CASE CountFailure(t)
    <3> DEFINE count == IF failures = Threshold THEN Threshold ELSE failures + 1
    <3>1. count \in 0 .. Threshold /\ count > 0
      OBVIOUS
    <3>2. /\ failures' = count
          /\ caller' = [caller EXCEPT ![t].step = "counted", ![t].count = count]
          /\ UNCHANGED <<circuit, cooled, straggled, lost>>
      BY <2>5 DEF CountFailure
    <3> HIDE DEF count
    <3>3. QED
      BY <3>1, <3>2
  <2>6. CASE Open(t)
    <3>1. PICK call \in Call :
            /\ call.step = "fallback"
            /\ caller' = [caller EXCEPT ![t] = call]
      BY <2>6, FallbackCallType DEF Open
    <3>2. /\ circuit' \in Circuits /\ cooled' \in BOOLEAN
          /\ straggled' \in BOOLEAN /\ UNCHANGED <<failures, lost>>
      BY <2>6 DEF Open
    <3>3. QED
      BY <3>1, <3>2
  <2>7. CASE FallbackReturns(t)
    BY <2>7, NoCallType DEF FallbackReturns
  <2>8. QED
    BY <1>2, <2>1, <2>2, <2>3, <2>4, <2>5, <2>6, <2>7 DEF Step
<1>3. CASE CooldownElapses
  BY <1>3 DEF CooldownElapses
<1>4. CASE UNCHANGED vars
  BY <1>4 DEF vars
<1>5. QED
  BY <1>1, <1>2, <1>3, <1>4 DEF Next

\* The breaker's counters and the calls' states stay in their ranges whatever
\* the callers of chat, allow and the two reports do to each other; in
\* particular the failure count never passes the saturation the model gives it.
THEOREM TypesCorrect == Spec => []TypeOK
<1>1. Init => TypeOK
  <2> SUFFICES ASSUME Init PROVE TypeOK
    OBVIOUS
  <2>1. failures \in 0 .. Threshold
    BY ThresholdAssumption DEF Init
  <2>2. /\ caller \in [Callers -> Call]
        /\ \A t \in Callers : caller[t].step = "idle"
    BY NoCallType DEF Init
  <2>3. QED
    BY <2>1, <2>2 DEF Init, TypeOK, Circuits
<1>2. QED
  BY <1>1, TypeNext, PTL DEF Spec

-----------------------------------------------------------------------------
\* The inductive invariant: a call that turned to the fallback, or ended, is
\* no probe any more, so that only a report or a dropped call ends a probe.
ProbeInv ==
  /\ OneProbeAtATime
  /\ HalfOpenIsAwaited
  /\ \A t \in Callers : Probing(t) => ~At(t, "idle") /\ ~At(t, "fallback")

LEMMA ProbeInit == Init => ProbeInv
BY DEF Init, ProbeInv, OneProbeAtATime, HalfOpenIsAwaited, Probing, At, NoCall

\* A step that leaves the circuit and the set of probes as they are.
LEMMA ProbeKept ==
  ASSUME ProbeInv,
         \A t \in Callers : Probing(t)' <=> Probing(t),
         \A t \in Callers :
           Probing(t) => caller'[t].step \notin {"idle", "fallback"},
         UNCHANGED <<circuit, straggled, lost>>
  PROVE  ProbeInv'
BY DEF ProbeInv, OneProbeAtATime, HalfOpenIsAwaited, At

LEMMA ProbeStep ==
  ASSUME TypeOK, ProbeInv, NEW t \in Callers, Step(t)
  PROVE  ProbeInv'
<1>0. caller \in [Callers -> Call] /\ straggled \in BOOLEAN /\ lost \in BOOLEAN
  BY DEF TypeOK
<1>1. CASE PrimaryReturns(t)
  <2>1. \A u \in Callers : caller'[u].probe = caller[u].probe
    BY <1>0, <1>1 DEF PrimaryReturns, Goto, Call
  <2>2. \A u \in Callers :
          caller'[u].step = caller[u].step \/ caller'[u].step \in {"succeeded", "failed"}
    BY <1>0, <1>1 DEF PrimaryReturns, Goto, Call
  <2>3. QED
    BY <1>1, <2>1, <2>2, ProbeKept DEF PrimaryReturns, Probing, ProbeInv, At
<1>2. CASE GiveUp(t)
  <2>1. /\ ~Probing(t)' /\ \A u \in Callers \ {t} : caller'[u] = caller[u]
        /\ circuit' = circuit /\ straggled' = straggled
        /\ lost' = (lost \/ Probing(t))
    BY <1>0, <1>2 DEF GiveUp, Probing, NoCall
  <2>2. QED
    BY <2>1 DEF ProbeInv, OneProbeAtATime, HalfOpenIsAwaited, Probing, At
<1>3. CASE ZeroFailures(t)
  <2>1. \A u \in Callers : caller'[u].probe = caller[u].probe
    BY <1>0, <1>3 DEF ZeroFailures, Goto, Call
  <2>2. \A u \in Callers :
          caller'[u].step = caller[u].step \/ caller'[u].step = "zeroed"
    BY <1>0, <1>3 DEF ZeroFailures, Goto, Call
  <2>3. QED
    BY <1>3, <2>1, <2>2, ProbeKept DEF ZeroFailures, Probing, ProbeInv, At
<1>4. CASE Close(t)
  <2>1. /\ ~Probing(t)' /\ \A u \in Callers \ {t} : caller'[u] = caller[u]
        /\ circuit' = "closed" /\ lost' = lost
        /\ straggled' = (straggled \/ (circuit = "half_open" /\ ~Probing(t)))
    BY <1>0, <1>4 DEF Close, Reports, Probing, NoCall
  <2>2. ~straggled' => \A u \in Callers : ~Probing(u)'
    BY <2>1 DEF ProbeInv, OneProbeAtATime, Probing
  <2>3. QED
    BY <2>1, <2>2 DEF ProbeInv, OneProbeAtATime, HalfOpenIsAwaited, Probing, At
<1>5. CASE CountFailure(t)
  <2>1. \A u \in Callers : caller'[u].probe = caller[u].probe
    BY <1>0, <1>5 DEF CountFailure, Call
  <2>2. \A u \in Callers :
          caller'[u].step = caller[u].step \/ caller'[u].step = "counted"
    BY <1>0, <1>5 DEF CountFailure, Call
  <2>3. QED
    BY <1>5, <2>1, <2>2, ProbeKept DEF CountFailure, Probing, ProbeInv, At
<1>6. CASE Open(t)
  <2>1. /\ ~Probing(t)' /\ \A u \in Callers \ {t} : caller'[u] = caller[u]
        /\ circuit' \in {circuit, "open"} /\ circuit' # "half_open"
        /\ lost' = lost
        /\ straggled' = (straggled \/ (circuit = "half_open" /\ ~Probing(t)))
    BY <1>0, <1>6 DEF Open, Reports, Probing, NoCall
  <2>2. ~straggled' => \A u \in Callers : ~Probing(u)'
    BY <2>1 DEF ProbeInv, OneProbeAtATime, Probing
  <2>3. QED
    BY <2>1, <2>2 DEF ProbeInv, OneProbeAtATime, HalfOpenIsAwaited, Probing, At
<1>7. CASE FallbackReturns(t)
  <2>1. /\ ~Probing(t)' /\ \A u \in Callers \ {t} : caller'[u] = caller[u]
        /\ UNCHANGED <<circuit, straggled, lost>>
    BY <1>0, <1>7 DEF FallbackReturns, Probing, NoCall
  <2>2. ~Probing(t)
    BY <1>7 DEF FallbackReturns, ProbeInv
  <2>3. QED
    BY <2>1, <2>2, ProbeKept DEF Probing, ProbeInv, At
<1>8. QED
  BY <1>1, <1>2, <1>3, <1>4, <1>5, <1>6, <1>7 DEF Step

LEMMA ProbeAllow ==
  ASSUME TypeOK, ProbeInv, NEW t \in Callers, Allow(t)
  PROVE  ProbeInv'
<1>0. caller \in [Callers -> Call] /\ caller[t] \in Call
  BY DEF TypeOK
<1>1. ~Probing(t) /\ UNCHANGED <<straggled, lost>>
  BY DEF Allow, ProbeInv
<1>2. \A u \in Callers \ {t} : caller'[u] = caller[u]
  BY <1>0 DEF Allow
<1>3. CASE circuit' = circuit /\ ~Probing(t)'
  BY <1>1, <1>2, <1>3, ProbeKept DEF Probing, ProbeInv, At
<1>4. CASE /\ circuit = "open" /\ circuit' = "half_open"
           /\ Probing(t)' /\ At(t, "primary")'
  <2>1. ~straggled => \A u \in Callers : ~Probing(u)
    BY <1>4 DEF ProbeInv, OneProbeAtATime
  <2>2. QED
    BY <1>1, <1>2, <1>4, <2>1
       DEF ProbeInv, OneProbeAtATime, HalfOpenIsAwaited, Probing, At
<1>5. QED
  BY <1>0, <1>1, <1>3, <1>4 DEF Allow, Call, Probing, At

LEMMA ProbeInvariant == Spec => []ProbeInv
<1>1. TypeOK /\ ProbeInv /\ [Next]_vars => ProbeInv'
  <2> SUFFICES ASSUME TypeOK, ProbeInv, [Next]_vars PROVE ProbeInv'
    OBVIOUS
  <2>1. CASE CooldownElapses
    BY <2>1, ProbeKept DEF CooldownElapses, Probing, ProbeInv, At
  <2>2. CASE UNCHANGED vars
    BY <2>2, ProbeKept DEF vars, Probing, ProbeInv, At
  <2>3. QED
    BY <2>1, <2>2, ProbeAllow, ProbeStep DEF Next
<1>2. QED
  BY <1>1, ProbeInit, TypesCorrect, PTL DEF Spec

\* The half-open circuit of allow, record_success and record_failure admits
\* one probe at a time, for any number of concurrent callers, until a call
\* admitted earlier reports while it runs.
THEOREM OneProbe == Spec => []OneProbeAtATime
<1>1. ProbeInv => OneProbeAtATime
  BY DEF ProbeInv
<1>2. QED
  BY <1>1, ProbeInvariant, PTL

\* Only a dropped probe, or a straggler, can leave the circuit half open with
\* nobody to move it on.
THEOREM HalfOpenAwaited == Spec => []HalfOpenIsAwaited
<1>1. ProbeInv => HalfOpenIsAwaited
  BY DEF ProbeInv
<1>2. QED
  BY <1>1, ProbeInvariant, PTL
=============================================================================
