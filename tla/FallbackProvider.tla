-------------------------- MODULE FallbackProvider --------------------------
(***************************************************************************)
(* A FallbackProvider and the CircuitBreaker that guards its primary.      *)
(*                                                                         *)
(* Every agent loop, scheduled task and sub-agent that uses the provider   *)
(* calls chat (or chat_stream) concurrently.  The breaker's failure count  *)
(* is an atomic, its state is behind a mutex: a report of a call's outcome *)
(* touches the one and then the other, and calls of the other callers run  *)
(* in between.  A caller may also give a call up while it awaits the       *)
(* primary: the agent loop runs it under tokio::time::timeout, which drops *)
(* the future, and nothing is reported then.                               *)
(***************************************************************************)
EXTENDS Naturals

CONSTANTS
  Callers,    \* tasks that use the provider
  Threshold   \* consecutive failures that open the circuit (3)

ASSUME ThresholdAssumption == Threshold \in Nat \ {0}

VARIABLES
  circuit,   \* CircuitBreaker::state
  cooled,    \* opened_at.elapsed() >= cooldown
  failures,  \* CircuitBreaker::failures, saturating at Threshold: the code
             \* only asks whether it reached the threshold
  caller,    \* the call each task is making
  straggled, \* a call that is not the probe reported while half open
  lost       \* a probe was given up, so nobody reports for it

vars == <<circuit, cooled, failures, caller, straggled, lost>>

Circuits == {"closed", "open", "half_open"}

\* idle; awaiting the primary; the two steps of record_success; the two steps
\* of record_failure; awaiting the fallback.
CallSteps == {"idle", "primary", "succeeded", "zeroed", "failed", "counted",
              "fallback"}

Call == [step  : CallSteps,
         probe : BOOLEAN,         \* admitted by a circuit that was not closed
         count : 0 .. Threshold]  \* what fetch_add returned, plus one

TypeOK ==
  /\ circuit \in Circuits
  /\ cooled \in BOOLEAN
  /\ failures \in 0 .. Threshold
  /\ caller \in [Callers -> Call]
  /\ \A t \in Callers : caller[t].step = "counted" => caller[t].count > 0
  /\ straggled \in BOOLEAN
  /\ lost \in BOOLEAN

NoCall == [step |-> "idle", probe |-> FALSE, count |-> 0]

At(t, s) == caller[t].step = s
Goto(t, s) == caller' = [caller EXCEPT ![t].step = s]

\* The call of t is a probe whose outcome has not reached the circuit.
Probing(t) == caller[t].probe

\* A report of t reaches the circuit.
Reports(t) == straggled' = (straggled \/ (circuit = "half_open" /\ ~Probing(t)))

Init ==
  /\ circuit = "closed"
  /\ cooled = FALSE
  /\ failures = 0
  /\ caller = [t \in Callers |-> NoCall]
  /\ straggled = FALSE
  /\ lost = FALSE

-----------------------------------------------------------------------------
\* Mutant: a half-open circuit lets calls through.
AllowHalfOpen(t) ==
  /\ At(t, "idle")
  /\ \/ /\ circuit = "closed"
        /\ caller' = [caller EXCEPT ![t].step = "primary"]
        /\ UNCHANGED circuit
     \/ /\ circuit = "half_open" \/ (circuit = "open" /\ cooled)
        /\ circuit' = "half_open"
        /\ caller' = [caller EXCEPT ![t].step = "primary", ![t].probe = TRUE]
     \/ /\ circuit = "open" /\ ~cooled
        /\ caller' = [caller EXCEPT ![t].step = "fallback"]
        /\ UNCHANGED circuit
  /\ UNCHANGED <<cooled, failures, straggled, lost>>

\* CircuitBreaker::allow, one critical section: a call of the primary, the
\* probe of a circuit that has been open for the cooldown, or the fallback.
Allow(t) ==
  /\ At(t, "idle")
  /\ \/ /\ circuit = "closed"
        /\ caller' = [caller EXCEPT ![t].step = "primary"]
        /\ UNCHANGED circuit
     \/ /\ circuit = "open" /\ cooled
        /\ circuit' = "half_open"
        /\ caller' = [caller EXCEPT ![t].step = "primary", ![t].probe = TRUE]
     \/ /\ circuit = "half_open" \/ (circuit = "open" /\ ~cooled)
        /\ caller' = [caller EXCEPT ![t].step = "fallback"]
        /\ UNCHANGED circuit
  /\ UNCHANGED <<cooled, failures, straggled, lost>>

\* primary.chat(..).await returns.
PrimaryReturns(t) ==
  /\ At(t, "primary")
  /\ \E outcome \in {"succeeded", "failed"} : Goto(t, outcome)
  /\ UNCHANGED <<circuit, cooled, failures, straggled, lost>>

\* The caller drops the call while it awaits the primary or the fallback.
GiveUp(t) ==
  /\ At(t, "primary") \/ At(t, "fallback")
  /\ caller' = [caller EXCEPT ![t] = NoCall]
  /\ lost' = (lost \/ Probing(t))
  /\ UNCHANGED <<circuit, cooled, failures, straggled>>

\* record_success: failures.store(0) ...
ZeroFailures(t) ==
  /\ At(t, "succeeded")
  /\ failures' = 0
  /\ Goto(t, "zeroed")
  /\ UNCHANGED <<circuit, cooled, straggled, lost>>

\* Mutant: a success does not close the circuit.
CloseNothing(t) ==
  /\ At(t, "zeroed")
  /\ Reports(t)
  /\ caller' = [caller EXCEPT ![t] = NoCall]
  /\ UNCHANGED <<circuit, cooled, failures, lost>>

\* ... then the circuit is closed, whatever its state is by now, and the
\* caller has its answer.
Close(t) ==
  /\ At(t, "zeroed")
  /\ circuit' = "closed"
  /\ Reports(t)
  /\ caller' = [caller EXCEPT ![t] = NoCall]
  /\ UNCHANGED <<cooled, failures, lost>>

\* Mutant: fetch_add returns the count before the addition.
CountBefore(t) ==
  /\ At(t, "failed")
  /\ failures' = IF failures = Threshold THEN Threshold ELSE failures + 1
  /\ caller' = [caller EXCEPT ![t].step = "counted", ![t].count = failures]
  /\ UNCHANGED <<circuit, cooled, straggled, lost>>

\* record_failure: failures.fetch_add(1) + 1 ...
CountFailure(t) ==
  LET count == IF failures = Threshold THEN Threshold ELSE failures + 1 IN
  /\ At(t, "failed")
  /\ failures' = count
  /\ caller' = [caller EXCEPT ![t].step = "counted", ![t].count = count]
  /\ UNCHANGED <<circuit, cooled, straggled, lost>>

\* Mutant: the failed probe does not open the circuit again.
OpenAtThresholdOnly(t) ==
  /\ At(t, "counted")
  /\ IF circuit # "half_open" /\ caller[t].count >= Threshold
       THEN circuit' = "open" /\ cooled' = FALSE
       ELSE UNCHANGED <<circuit, cooled>>
  /\ Reports(t)
  /\ caller' = [caller EXCEPT ![t] = [NoCall EXCEPT !.step = "fallback"]]
  /\ UNCHANGED <<failures, lost>>

\* ... then the circuit is opened, for a cooldown from now, when it is half
\* open or the count reached the threshold; the caller turns to the fallback.
Open(t) ==
  /\ At(t, "counted")
  /\ IF circuit = "half_open" \/ caller[t].count >= Threshold
       THEN circuit' = "open" /\ cooled' = FALSE
       ELSE UNCHANGED <<circuit, cooled>>
  /\ Reports(t)
  /\ caller' = [caller EXCEPT ![t] = [NoCall EXCEPT !.step = "fallback"]]
  /\ UNCHANGED <<failures, lost>>

\* fallback.chat(..).await returns, with an answer or an error.
FallbackReturns(t) ==
  /\ At(t, "fallback")
  /\ caller' = [caller EXCEPT ![t] = NoCall]
  /\ UNCHANGED <<circuit, cooled, failures, straggled, lost>>

\* Time passes.
CooldownElapses ==
  /\ circuit = "open"
  /\ ~cooled
  /\ cooled' = TRUE
  /\ UNCHANGED <<circuit, failures, caller, straggled, lost>>

Step(t) ==
  \/ PrimaryReturns(t) \/ GiveUp(t) \/ ZeroFailures(t) \/ Close(t)
  \/ CountFailure(t) \/ Open(t) \/ FallbackReturns(t)

Next ==
  \/ \E t \in Callers : Allow(t) \/ Step(t)
  \/ CooldownElapses

Spec == Init /\ [][Next]_vars

\* Calls end (the providers' HTTP clients have a timeout, and the agent loop a
\* deadline) and time passes; no task is obliged to make another call.
Fairness ==
  /\ \A t \in Callers : WF_vars(Step(t))
  /\ WF_vars(CooldownElapses)

FairSpec == Spec /\ Fairness

-----------------------------------------------------------------------------
\* resilience.rs, allow: "only one probe at a time".  As long as no call that
\* the closed circuit had admitted reports while the circuit is half open, at
\* most one probe is under way, and the circuit stays half open meanwhile.
OneProbeAtATime ==
  ~straggled =>
    /\ \A t, u \in Callers : Probing(t) /\ Probing(u) => t = u
    /\ \A t \in Callers : Probing(t) => circuit = "half_open"

\* A half-open circuit is waiting for somebody: its probe is under way, unless
\* a probe was given up or a straggler reported.
HalfOpenIsAwaited ==
  circuit = "half_open" =>
    lost \/ straggled \/ \E t \in Callers : Probing(t)

\* The primary may be tried again, now or once the running probe reports.
PrimaryInReach ==
  \/ circuit = "closed"
  \/ circuit = "open" /\ cooled
  \/ \E t \in Callers : Probing(t)

\* Unless a probe is given up, a circuit that does not admit calls comes back.
ShortCircuitEndsUnlessLost ==
  []~lost => (circuit # "closed" ~> PrimaryInReach)

\* fallback.rs: "the primary is short-circuited and the fallback is used
\* directly until the cooldown expires".
ShortCircuitEnds == circuit # "closed" ~> PrimaryInReach
=============================================================================
