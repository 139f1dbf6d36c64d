--------------------- MODULE ConversationDispatchProofs ---------------------
(***************************************************************************)
(* Theorems about ConversationDispatch, for any number of conversations    *)
(* and messages, any capacity of the channel and any turn limit: types,    *)
(* exclusion, cancellation, conservation of the messages, the refinement   *)
(* of ConversationTurns, and two facts about the messages file: turns are  *)
(* contiguous, and user messages are in the order of their arrival.        *)
(***************************************************************************)
EXTENDS ConversationDispatch, SequenceTheorems, FiniteSetTheorems, TLAPS

\* A call of the model is only awaited while the turn limit leaves room.
LlmWithinBudget ==
  \A m \in Messages : At(m, "llm") => handler[m].turns < MaxTurns

TypeInv == TypeOK /\ LlmWithinBudget

-----------------------------------------------------------------------------
(* Lemmas about the helpers.                                               *)

\* Publishing keeps the channel a sequence of messages, and only a message
\* that was in it can be skipped.
LEMMA PublishType ==
  ASSUME bus \in Seq(Messages), skipped \subseteq Messages,
         NEW m \in Messages, Publish(m)
  PROVE  bus' \in Seq(Messages) /\ skipped' \subseteq Messages
<1>1. CASE Len(bus) < BusCapacity
  BY <1>1, AppendProperties DEF Publish
<1>2. CASE ~(Len(bus) < BusCapacity)
  <2>1. bus # <<>>
    BY <1>2, DispatchAssumption, EmptySeq
  <2>2. Head(bus) \in Messages /\ Tail(bus) \in Seq(Messages)
    BY <2>1, HeadTailProperties
  <2>3. bus' = Append(Tail(bus), m) /\ skipped' = skipped \cup {Head(bus)}
    BY <1>2 DEF Publish
  <2>4. Append(Tail(bus), m) \in Seq(Messages)
    BY <2>2, AppendProperties
  <2>5. QED
    BY <2>2, <2>3, <2>4
<1>3. QED
  BY <1>1, <1>2

\* What append_message writes is a well-formed entry of the file.
LEMMA AppendType ==
  ASSUME TypeOK, NEW role \in {"user", "assistant"},
         NEW m \in Messages, NEW t \in Messages, Append_message(role, m, t)
  PROVE  history' \in [Conversations -> Seq(Entry)]
<1> DEFINE e == [role |-> role, msg |-> m, turn |-> t]
<1>1. e \in Entry
  BY DEF Entry
<1>2. ConvOf[t] \in Conversations
  BY DispatchAssumption
<1>3. Append(history[ConvOf[t]], e) \in Seq(Entry)
  BY <1>1, <1>2 DEF TypeOK
<1>4. QED
  BY <1>3 DEF Append_message, TypeOK

LEMMA ElemsType ==
  ASSUME NEW S, NEW s \in Seq(S)
  PROVE  Elems(s) \subseteq S
BY ElementOfSeq, LenProperties DEF Elems

LEMMA NoHandlerType == NoHandler \in Handler /\ NoHandler.step = "none"
BY DispatchAssumption, EmptySeq
   DEF NoHandler, Handler, HandlerSteps, OwningSteps

\* A handler that moves to another step, other than a call of the model,
\* stays well formed.
LEMMA GotoType ==
  ASSUME TypeInv, NEW m \in Messages, NEW s \in HandlerSteps \ {"llm"},
         Goto(m, s)
  PROVE  handler' \in [Messages -> Handler] /\ LlmWithinBudget'
<1> DEFINE moved == [handler[m] EXCEPT !.step = s]
<1>1. handler \in [Messages -> Handler] /\ handler[m] \in Handler
  BY DEF TypeInv, TypeOK
<1>2. moved \in Handler /\ moved.step = s
  BY <1>1 DEF Handler
<1>3. handler' = [handler EXCEPT ![m] = moved]
  BY <1>1 DEF Goto
<1> HIDE DEF moved
<1>4. handler' \in [Messages -> Handler]
  BY <1>1, <1>2, <1>3
<1>5. LlmWithinBudget'
  BY <1>1, <1>2, <1>3 DEF TypeInv, LlmWithinBudget, At
<1>6. QED
  BY <1>4, <1>5

LEMMA LeaveType ==
  ASSUME TypeInv, NEW m \in Messages, Leave(m)
  PROVE  handler' \in [Messages -> Handler] /\ LlmWithinBudget'
<1> DEFINE left == [NoHandler EXCEPT !.step = "deactivate"]
<1>1. left \in Handler /\ left.step = "deactivate"
  BY NoHandlerType DEF Handler, HandlerSteps, OwningSteps
<1>2. handler' = [handler EXCEPT ![m] = left]
  BY DEF Leave
<1> HIDE DEF left
<1>3. handler' \in [Messages -> Handler]
  BY <1>1, <1>2 DEF TypeInv, TypeOK
<1>4. QED
  BY <1>1, <1>2, <1>3 DEF TypeInv, TypeOK, LlmWithinBudget, At

-----------------------------------------------------------------------------
(* Type correctness.                                                       *)

LEMMA TypeInit == Init => TypeInv
<1> SUFFICES ASSUME Init PROVE TypeInv
  OBVIOUS
<1>1. QED
  BY NoHandlerType, EmptySeq
     DEF Init, TypeInv, TypeOK, LlmWithinBudget, DispatcherSteps, At

LEMMA TypeDispatch == TypeInv /\ Dispatch => TypeInv'
<1> SUFFICES ASSUME TypeInv, Dispatch PROVE TypeInv'
  OBVIOUS
<1> USE DispatchAssumption DEF TypeInv, TypeOK, runtimeVars, ghostVars
<1>1. CASE Receive
  <2>1. Head(bus) \in Messages /\ Tail(bus) \in Seq(Messages)
    BY <1>1, HeadTailProperties DEF Receive
  <2>2. dispatcher' \in [step : DispatcherSteps, msg : Messages \cup {None}]
    BY <1>1, <2>1 DEF Receive, DispatcherSteps
  <2>3. earlier' \subseteq Messages \X Messages
    BY <1>1, <2>1 DEF Receive, ReceivedNow
  <2>4. (dispatcher.step # "recv" => dispatcher.msg \in Messages)'
    BY <1>1, <2>1 DEF Receive
  <2>5. QED
    BY <1>1, <2>1, <2>2, <2>3, <2>4 DEF Receive, LlmWithinBudget, At
<1>2. CASE CheckActive
  <2>1. /\ dispatcher' \in [step : DispatcherSteps, msg : Messages \cup {None}]
        /\ discarded' \subseteq Messages
    BY <1>2 DEF CheckActive, DispatcherSteps
  <2>2. (dispatcher.step # "recv" => dispatcher.msg \in Messages)'
    BY <1>2 DEF CheckActive
  <2>3. QED
    BY <1>2, <2>1, <2>2 DEF CheckActive, LlmWithinBudget, At
<1>3. CASE PushPending
  <2>1. dispatcher.msg \in Messages /\ ConvOf[dispatcher.msg] \in Conversations
    BY <1>3 DEF PushPending
  <2>2. pending' \in [Conversations -> Seq(Messages)]
    BY <1>3, <2>1, AppendProperties DEF PushPending
  <2>3. /\ dispatcher' \in [step : DispatcherSteps, msg : Messages \cup {None}]
        /\ dispatcher'.step = "recv"
    BY <1>3 DEF PushPending, DispatcherSteps
  <2>4. QED
    BY <1>3, <2>2, <2>3 DEF PushPending, LlmWithinBudget, At
<1>4. CASE Reset
  <2>1. dispatcher.msg \in Messages /\ ConvOf[dispatcher.msg] \in Conversations
    BY <1>4 DEF Reset
  <2>2. Elems(pending[ConvOf[dispatcher.msg]]) \subseteq Messages
    BY <2>1, ElemsType
  <2>3. pending' \in [Conversations -> Seq(Messages)]
    BY <1>4, EmptySeq DEF Reset
  <2>4. /\ dispatcher' \in [step : DispatcherSteps, msg : Messages \cup {None}]
        /\ (dispatcher.step # "recv" => dispatcher.msg \in Messages)'
    BY <1>4, <2>1 DEF Reset, DispatcherSteps
  <2>5. /\ token' \in [Conversations -> Messages \cup {None}]
        /\ active' \in [Conversations -> BOOLEAN]
        /\ cancelled' \subseteq Messages
    BY <1>4, <2>1 DEF Reset
  <2>6. discarded' \subseteq Messages
    BY <1>4, <2>2 DEF Reset
  <2>7. QED
    BY <1>4, <2>3, <2>4, <2>5, <2>6 DEF Reset, LlmWithinBudget, At
<1>5. CASE Spawn
  <2>1. NewHandler \in Handler /\ NewHandler.step = "start"
    BY NoHandlerType DEF NewHandler, Handler, HandlerSteps, OwningSteps
  <2>2. handler' \in [Messages -> Handler] /\ LlmWithinBudget'
    BY <1>5, <2>1 DEF Spawn, LlmWithinBudget, At
  <2>3. /\ dispatcher' \in [step : DispatcherSteps, msg : Messages \cup {None}]
        /\ dispatcher'.step = "recv"
    BY <1>5 DEF Spawn, DispatcherSteps
  <2>4. active' \in [Conversations -> BOOLEAN]
    BY <1>5 DEF Spawn
  <2>5. QED
    BY <1>5, <2>2, <2>3, <2>4 DEF Spawn
<1>6. QED
  BY <1>1, <1>2, <1>3, <1>4, <1>5 DEF Dispatch

LEMMA TypeHandle ==
  ASSUME TypeInv, NEW m \in Messages, Handle(m)
  PROVE  TypeInv'
<1> USE DispatchAssumption DEF runtimeVars, ghostVars
<1>0. /\ {"load", "acquire", "stream", "finalize", "drain", "dead",
          "final_drain", "deactivate"} \subseteq HandlerSteps \ {"llm"}
      /\ handler[m] \in Handler
      /\ ConvOf[m] \in Conversations
  BY DEF HandlerSteps, OwningSteps, TypeInv, TypeOK
<1>1. CASE PersistUserMessage(m)
  <2>1. history' \in [Conversations -> Seq(Entry)]
    BY <1>1, AppendType DEF PersistUserMessage, TypeInv
  <2>2. handler' \in [Messages -> Handler] /\ LlmWithinBudget'
    BY <1>0, <1>1, GotoType DEF PersistUserMessage
  <2>3. QED
    BY <1>1, <2>1, <2>2 DEF PersistUserMessage, TypeInv, TypeOK
<1>2. CASE LoadHistory(m)
  <2>1. handler' \in [Messages -> Handler] /\ LlmWithinBudget'
    BY <1>0, <1>2, GotoType, LeaveType DEF LoadHistory, Fail
  <2>2. QED
    BY <1>2, <2>1 DEF LoadHistory, Fail, TypeInv, TypeOK
<1>3. CASE Stream(m)
  <2>1. handler' \in [Messages -> Handler] /\ LlmWithinBudget'
    BY <1>0, <1>3, GotoType, LeaveType DEF Stream, Fail
  <2>2. QED
    BY <1>3, <2>1 DEF Stream, Fail, TypeInv, TypeOK
<1>4. CASE StartLoop(m)
  <2>1. handler' \in [Messages -> Handler] /\ LlmWithinBudget'
    BY <1>0, <1>4 DEF StartLoop, TypeInv, TypeOK, Handler, LlmWithinBudget, At
  <2>2. QED
    BY <1>4, <2>1 DEF StartLoop, TypeInv, TypeOK
<1>5. CASE DrainPending(m)
  <2>1. handler' \in [Messages -> Handler] /\ LlmWithinBudget'
    BY <1>0, <1>5 DEF DrainPending, TypeInv, TypeOK, Handler, HandlerSteps,
                      OwningSteps, LlmWithinBudget, At
  <2>2. pending' \in [Conversations -> Seq(Messages)]
    BY <1>5, EmptySeq DEF DrainPending, TypeInv, TypeOK
  <2>3. QED
    BY <1>5, <2>1, <2>2 DEF DrainPending, TypeInv, TypeOK
<1>6. CASE InjectNext(m)
  <2>1. /\ Head(handler[m].batch) \in Messages
        /\ Tail(handler[m].batch) \in Seq(Messages)
    BY <1>0, <1>6, HeadTailProperties DEF InjectNext, Handler
  <2>2. history' \in [Conversations -> Seq(Entry)]
    BY <1>6, <2>1, AppendType DEF InjectNext, TypeInv
  <2>3. handler' = [handler EXCEPT ![m].batch = Tail(handler[m].batch)]
    BY <1>6 DEF InjectNext
  <2>4. handler' \in [Messages -> Handler]
    <3>1. [handler[m] EXCEPT !.batch = Tail(handler[m].batch)] \in Handler
      BY <1>0, <2>1 DEF Handler
    <3>2. QED
      BY <2>3, <3>1 DEF TypeInv, TypeOK
  <2>5. LlmWithinBudget'
    BY <2>3, <1>0 DEF TypeInv, TypeOK, Handler, LlmWithinBudget, At
  <2>6. QED
    BY <1>6, <2>1, <2>2, <2>4, <2>5 DEF InjectNext, TypeInv, TypeOK
<1>7. CASE BeginTurn(m)
  <2>1. ASSUME Goto(m, "llm"), handler[m].turns < MaxTurns
        PROVE  handler' \in [Messages -> Handler] /\ LlmWithinBudget'
    <3>1. [handler[m] EXCEPT !.step = "llm"] \in Handler
      BY <1>0 DEF Handler, HandlerSteps, OwningSteps
    <3>2. handler' \in [Messages -> Handler]
      BY <2>1, <3>1 DEF Goto, TypeInv, TypeOK
    <3>3. LlmWithinBudget'
      BY <1>0, <2>1 DEF Goto, TypeInv, TypeOK, LlmWithinBudget, At, Handler
    <3>4. QED
      BY <3>2, <3>3
  <2>2. ASSUME Goto(m, "finalize") \/ Leave(m)
        PROVE  handler' \in [Messages -> Handler] /\ LlmWithinBudget'
    BY <1>0, <2>2, GotoType, LeaveType
  <2>3. handler[m].turns \in Nat
    BY <1>0 DEF Handler
  <2>4. handler' \in [Messages -> Handler] /\ LlmWithinBudget'
    BY <1>0, <1>7, <2>1, <2>2, <2>3 DEF BeginTurn, Fail
  <2>5. QED
    BY <1>7, <2>4 DEF BeginTurn, Fail, TypeInv, TypeOK
<1>8. CASE LlmReturns(m)
  <2>0. handler[m].turns \in Nat /\ handler[m].turns < MaxTurns
    BY <1>0, <1>8 DEF LlmReturns, TypeInv, LlmWithinBudget, Handler
  <2>1. ASSUME NEW next \in {"finalize", "tools"},
               handler' = [handler EXCEPT ![m].step = next, ![m].turns = @ + 1]
        PROVE  handler' \in [Messages -> Handler] /\ LlmWithinBudget'
    <3>0. handler[m].turns + 1 \in 0 .. MaxTurns
      BY <2>0
    <3>1. handler' \in [Messages -> Handler]
      <4>1. [handler[m] EXCEPT !.step = next, !.turns = @ + 1] \in Handler
        BY <1>0, <3>0 DEF Handler, HandlerSteps, OwningSteps
      <4>2. QED
        BY <2>1, <4>1 DEF TypeInv, TypeOK
    <3>2. LlmWithinBudget'
      BY <2>1 DEF TypeInv, TypeOK, LlmWithinBudget, At, Handler
    <3>3. QED
      BY <3>1, <3>2
  <2>2. handler' \in [Messages -> Handler] /\ LlmWithinBudget'
    BY <1>8, <2>1, LeaveType DEF LlmReturns, Fail
  <2>3. QED
    BY <1>8, <2>2 DEF LlmReturns, Fail, TypeInv, TypeOK
<1>9. CASE ToolsReturn(m)
  <2>1. handler' \in [Messages -> Handler] /\ LlmWithinBudget'
    BY <1>0, <1>9, GotoType DEF ToolsReturn
  <2>2. QED
    BY <1>9, <2>1 DEF ToolsReturn, TypeInv, TypeOK
<1>10. CASE ToolPanics(m)
  <2>1. handler' \in [Messages -> Handler] /\ LlmWithinBudget'
    BY <1>0, <1>10, GotoType DEF ToolPanics
  <2>2. QED
    BY <1>10, <2>1 DEF ToolPanics, TypeInv, TypeOK
<1>11. CASE Finalize(m)
  <2>1. history' \in [Conversations -> Seq(Entry)]
    BY <1>11, AppendType DEF Finalize, TypeInv
  <2>2. handler' \in [Messages -> Handler] /\ LlmWithinBudget'
    BY <1>11, LeaveType DEF Finalize
  <2>3. QED
    BY <1>11, <2>1, <2>2 DEF Finalize, TypeInv, TypeOK
<1>12. CASE Deactivate(m)
  <2>1. handler' \in [Messages -> Handler] /\ LlmWithinBudget'
    BY <1>0, <1>12, GotoType DEF Deactivate
  <2>2. active' \in [Conversations -> BOOLEAN]
    BY <1>12 DEF Deactivate, TypeInv, TypeOK
  <2>3. QED
    BY <1>12, <2>1, <2>2 DEF Deactivate, TypeInv, TypeOK
<1>13. CASE FinalDrain(m)
  <2>1. handler' \in [Messages -> Handler] /\ LlmWithinBudget'
    BY <1>0, <1>13 DEF FinalDrain, TypeInv, TypeOK, Handler, HandlerSteps,
                       LlmWithinBudget, At
  <2>2. pending' \in [Conversations -> Seq(Messages)]
    BY <1>13, EmptySeq DEF FinalDrain, TypeInv, TypeOK
  <2>3. QED
    BY <1>13, <2>1, <2>2 DEF FinalDrain, TypeInv, TypeOK
<1>14. CASE Republish(m)
  <2>1. /\ Head(handler[m].batch) \in Messages
        /\ Tail(handler[m].batch) \in Seq(Messages)
    BY <1>0, <1>14, HeadTailProperties DEF Republish, Handler
  <2>2. bus' \in Seq(Messages) /\ skipped' \subseteq Messages
    BY <1>14, <2>1, PublishType DEF Republish, TypeInv, TypeOK
  <2>3. PICK next \in {"done", "republish"} :
          handler' = [handler EXCEPT ![m].batch = Tail(handler[m].batch),
                                     ![m].step = next]
    BY <1>14 DEF Republish
  <2>4. handler' \in [Messages -> Handler]
    <3>1. [handler[m] EXCEPT !.batch = Tail(handler[m].batch),
                             !.step = next] \in Handler
      BY <1>0, <2>1 DEF Handler, HandlerSteps
    <3>2. QED
      BY <2>3, <3>1 DEF TypeInv, TypeOK
  <2>5. LlmWithinBudget'
    BY <2>3, <1>0 DEF TypeInv, TypeOK, Handler, LlmWithinBudget, At
  <2>6. QED
    BY <1>14, <2>2, <2>4, <2>5 DEF Republish, TypeInv, TypeOK
<1>15. QED
  BY <1>1, <1>2, <1>3, <1>4, <1>5, <1>6, <1>7, <1>8, <1>9, <1>10, <1>11,
     <1>12, <1>13, <1>14 DEF Handle

LEMMA TypeNext == TypeInv /\ [Next]_vars => TypeInv'
<1> SUFFICES ASSUME TypeInv, [Next]_vars PROVE TypeInv'
  OBVIOUS
<1>1. ASSUME NEW m \in Messages, Send(m) PROVE TypeInv'
  <2>1. bus' \in Seq(Messages) /\ skipped' \subseteq Messages
    BY <1>1, PublishType DEF Send, TypeInv, TypeOK
  <2>2. QED
    BY <1>1, <2>1
       DEF Send, TypeInv, TypeOK, LlmWithinBudget, At, runtimeVars
<1>2. ASSUME NEW c \in Conversations, Cancel(c) PROVE TypeInv'
  BY <1>2 DEF Cancel, TypeInv, TypeOK, LlmWithinBudget, At, ghostVars
<1>3. CASE Dispatch
  BY <1>3, TypeDispatch
<1>4. ASSUME NEW m \in Messages, Handle(m) PROVE TypeInv'
  BY <1>4, TypeHandle
<1>5. CASE UNCHANGED vars
  BY <1>5 DEF vars, TypeInv, TypeOK, LlmWithinBudget, At
<1>6. QED
  BY <1>1, <1>2, <1>3, <1>4, <1>5 DEF Next

LEMMA TypeInvariant == Spec => []TypeInv
BY TypeInit, TypeNext, PTL DEF Spec

\* Every variable keeps its type; in particular no loop counts more calls of
\* the model than its turn limit.
THEOREM TypeCorrect == Spec => []TypeOK
<1>1. TypeInv => TypeOK
  BY DEF TypeInv
<1>2. QED
  BY <1>1, TypeInvariant, PTL


-----------------------------------------------------------------------------
(* Mutual exclusion of the handlers of a conversation, and the token that  *)
(* a cancel request reaches.                                               *)

\* The inductive invariant.  A handler that owns its conversation keeps the
\* flag up, so the dispatcher, once it has read the flag down, meets no owner
\* until it spawns one; and only a dispatch replaces the cancel token.
ExclusionInv ==
  /\ \A m \in Messages : Owns(m) => active[ConvOf[m]]
  /\ \A m, n \in Messages :
       Owns(m) /\ Owns(n) /\ ConvOf[m] = ConvOf[n] => m = n
  /\ \A c \in Conversations :
       active[c] => \E m \in Messages : ConvOf[m] = c /\ Owns(m)
  /\ dispatcher.step \in {"reset", "spawn"} => ~active[ConvOf[dispatcher.msg]]
  /\ dispatcher.step = "spawn" =>
       token[ConvOf[dispatcher.msg]] = dispatcher.msg
  /\ \A m \in Messages : Owns(m) => token[ConvOf[m]] = m
  /\ \A m \in Messages :
       handler[m].step \in LoopSteps => handler[m].token = m

LEMMA ExclusionInit == TypeInv /\ Init => ExclusionInv
BY DispatchAssumption
   DEF Init, ExclusionInv, Owns, OwningSteps, NoHandler, LoopSteps

\* What a step of a handler does to ownership: it never takes it, it gives it
\* up only in Deactivate, and it lets the flags and tokens of other
\* conversations alone.
HandlerFrame(m) ==
  /\ UNCHANGED <<dispatcher, token>>
  /\ \A n \in Messages \ {m} : handler'[n] = handler[n]
  /\ handler'[m].step \in LoopSteps =>
       \/ handler'[m].token = token[ConvOf[m]] /\ Owns(m)
       \/ handler[m].step \in LoopSteps /\ handler'[m].token = handler[m].token
  /\ \/ active' = active /\ (Owns(m)' <=> Owns(m))
     \/ /\ Owns(m) /\ ~Owns(m)'
        /\ active' = [active EXCEPT ![ConvOf[m]] = FALSE]

LEMMA HandleFrame ==
  ASSUME TypeInv, NEW m \in Messages, Handle(m)
  PROVE  HandlerFrame(m)
<1> USE DEF HandlerFrame, runtimeVars, ghostVars, At, Goto, Leave, Fail,
            Owns, OwningSteps, LoopSteps, NoHandler
<1>0. handler \in [Messages -> Handler]
  BY DEF TypeInv, TypeOK
<1>0a. handler[m] \in Handler
  BY <1>0
<1>1. CASE PersistUserMessage(m)
  BY <1>0, <1>1 DEF PersistUserMessage, Handler
<1>2. CASE LoadHistory(m)
  BY <1>0, <1>2 DEF LoadHistory, Handler
<1>3. CASE Stream(m)
  BY <1>0, <1>3 DEF Stream, Handler
<1>4. CASE StartLoop(m)
  BY <1>0, <1>4 DEF StartLoop, Handler
<1>5. CASE DrainPending(m)
  BY <1>0, <1>5 DEF DrainPending, Handler
<1>6. CASE InjectNext(m)
  BY <1>0, <1>6 DEF InjectNext, Handler
<1>7. CASE BeginTurn(m)
  BY <1>0, <1>7 DEF BeginTurn, Handler
<1>8. CASE LlmReturns(m)
  BY <1>0, <1>8 DEF LlmReturns, Handler
<1>9. CASE ToolsReturn(m)
  BY <1>0, <1>9 DEF ToolsReturn, Handler
<1>10. CASE ToolPanics(m)
  BY <1>0, <1>10 DEF ToolPanics, Handler
<1>11. CASE Finalize(m)
  BY <1>0, <1>11 DEF Finalize, Handler
<1>12. CASE Deactivate(m)
  BY <1>0, <1>12 DEF Deactivate, Handler
<1>13. CASE FinalDrain(m)
  BY <1>0, <1>13 DEF FinalDrain, Handler
<1>14. CASE Republish(m)
  BY <1>0, <1>14 DEF Republish, Handler
<1>15. QED
  BY <1>1, <1>2, <1>3, <1>4, <1>5, <1>6, <1>7, <1>8, <1>9, <1>10, <1>11,
     <1>12, <1>13, <1>14 DEF Handle

LEMMA ExclusionHandle ==
  ASSUME TypeInv, ExclusionInv, NEW m \in Messages, Handle(m)
  PROVE  ExclusionInv'
<1> USE DispatchAssumption
<1>1. HandlerFrame(m)
  BY HandleFrame
<1>2. ConvOf[m] \in Conversations /\ active \in [Conversations -> BOOLEAN]
  BY DEF TypeInv, TypeOK
<1>3. \A n \in Messages : Owns(n)' => Owns(n)
  BY <1>1 DEF HandlerFrame, Owns
<1>4. CASE active' = active /\ (Owns(m)' <=> Owns(m))
  <2>1. \A n \in Messages : Owns(n)' <=> Owns(n)
    BY <1>1, <1>4 DEF HandlerFrame, Owns
  <2>2. QED
    BY <1>1, <1>4, <2>1 DEF HandlerFrame, ExclusionInv, LoopSteps, Owns
<1>5. CASE /\ Owns(m) /\ ~Owns(m)'
           /\ active' = [active EXCEPT ![ConvOf[m]] = FALSE]
  <2>1. \A n \in Messages : Owns(n)' => n # m /\ ConvOf[n] # ConvOf[m]
    BY <1>3, <1>5 DEF ExclusionInv
  <2>2. \A n \in Messages \ {m} : Owns(n)' <=> Owns(n)
    BY <1>1 DEF HandlerFrame, Owns
  <2>3. \A c \in Conversations :
          active'[c] => \E n \in Messages : ConvOf[n] = c /\ Owns(n)'
    BY <1>2, <1>5, <2>2 DEF ExclusionInv
  <2>4. \A n \in Messages : Owns(n)' => active'[ConvOf[n]]
    BY <1>2, <1>3, <1>5, <2>1 DEF ExclusionInv
  <2>5. dispatcher'.step \in {"reset", "spawn"} =>
          ~active'[ConvOf[dispatcher'.msg]]
    <3>1. dispatcher' = dispatcher
      BY <1>1 DEF HandlerFrame
    <3>2. dispatcher.step \in {"reset", "spawn"} =>
            ConvOf[dispatcher.msg] \in Conversations
      BY DEF TypeInv, TypeOK
    <3>3. QED
      BY <1>2, <1>5, <3>1, <3>2 DEF ExclusionInv
  <2>6. \A n \in Messages :
          handler'[n].step \in LoopSteps => handler'[n].token = n
    BY <1>1 DEF HandlerFrame, ExclusionInv
  <2>7. QED
    BY <1>1, <1>3, <2>3, <2>4, <2>5, <2>6 DEF HandlerFrame, ExclusionInv
<1>6. QED
  BY <1>1, <1>4, <1>5 DEF HandlerFrame

LEMMA ExclusionDispatch ==
  ASSUME TypeInv, ExclusionInv, Dispatch
  PROVE  ExclusionInv'
<1> USE DispatchAssumption DEF runtimeVars, ghostVars
<1>1. dispatcher.step # "recv" =>
        dispatcher.msg \in Messages /\ ConvOf[dispatcher.msg] \in Conversations
  BY DEF TypeInv, TypeOK
<1>2. /\ active \in [Conversations -> BOOLEAN]
      /\ token \in [Conversations -> Messages \cup {None}]
      /\ handler \in [Messages -> Handler]
      /\ dispatcher \in [step : DispatcherSteps, msg : Messages \cup {None}]
  BY DEF TypeInv, TypeOK
<1>3. CASE Receive
  BY <1>3 DEF Receive, ExclusionInv, Owns
<1>4. CASE CheckActive
  BY <1>1, <1>2, <1>4 DEF CheckActive, ExclusionInv, Owns
<1>5. CASE PushPending
  BY <1>2, <1>5 DEF PushPending, ExclusionInv, Owns
<1>6. CASE Reset
  <2> DEFINE c == ConvOf[dispatcher.msg]
  <2>1. /\ dispatcher.step = "reset"
        /\ dispatcher' = [dispatcher EXCEPT !.step = "spawn"]
        /\ token' = [token EXCEPT ![c] = dispatcher.msg]
        /\ active' = [active EXCEPT ![c] = FALSE]
        /\ handler' = handler
    BY <1>6 DEF Reset
  <2>2. dispatcher.msg \in Messages /\ c \in Conversations /\ ~active[c]
    BY <1>1, <2>1 DEF ExclusionInv
  <2>3. active' = active
    BY <1>2, <2>1, <2>2
  <2>4. \A n \in Messages : Owns(n) => ConvOf[n] # c
    BY <2>2 DEF ExclusionInv
  <2>5. \A n \in Messages : Owns(n) => token'[ConvOf[n]] = n
    BY <1>2, <2>1, <2>4 DEF ExclusionInv
  <2>6. /\ dispatcher'.step = "spawn" /\ dispatcher'.msg = dispatcher.msg
        /\ token'[c] = dispatcher.msg
    BY <1>2, <2>1, <2>2
  <2>7. QED
    BY <2>1, <2>2, <2>3, <2>5, <2>6 DEF ExclusionInv, Owns
<1>7. CASE Spawn
  <2>0. PICK m \in Messages : dispatcher.msg = m /\ dispatcher.step = "spawn"
    BY <1>1, <1>7 DEF Spawn
  <2> DEFINE c == ConvOf[m]
  <2>1. /\ dispatcher'.step = "recv"
        /\ active' = [active EXCEPT ![c] = TRUE]
        /\ handler' = [handler EXCEPT ![m] = NewHandler]
        /\ token' = token
    BY <1>2, <1>7, <2>0 DEF Spawn
  <2>2. c \in Conversations /\ ~active[c] /\ token[c] = m
    BY <2>0 DEF ExclusionInv
  <2>3. NewHandler.step = "start"
    BY NoHandlerType DEF NewHandler, Handler
  <2>4. \A n \in Messages : Owns(n) => ConvOf[n] # c
    BY <2>2 DEF ExclusionInv
  <2>5a. handler'[m].step = "start"
    BY <1>2, <2>1, <2>3
  <2>5. Owns(m)' /\ handler'[m].step \notin LoopSteps
    BY <2>5a DEF Owns, OwningSteps, LoopSteps
  <2>6. \A n \in Messages \ {m} : handler'[n] = handler[n]
    BY <1>2, <2>1
  <2>7. \A n \in Messages \ {m} : Owns(n)' <=> Owns(n)
    BY <2>6 DEF Owns
  <2>8. active'[c] /\ \A d \in Conversations \ {c} : active'[d] = active[d]
    BY <1>2, <2>1, <2>2
  <2> HIDE DEF c
  <2>9. \A n \in Messages : Owns(n)' => active'[ConvOf[n]]
    BY <2>7, <2>8, <2>4 DEF ExclusionInv, c
  <2>10. \A n, k \in Messages :
           Owns(n)' /\ Owns(k)' /\ ConvOf[n] = ConvOf[k] => n = k
    BY <2>4, <2>7 DEF ExclusionInv, c
  <2>11. \A d \in Conversations :
           active'[d] => \E n \in Messages : ConvOf[n] = d /\ Owns(n)'
    <3>0. \E n \in Messages : ConvOf[n] = c /\ Owns(n)'
      BY <2>5 DEF c
    <3>1. SUFFICES ASSUME NEW d \in Conversations, d # c, active[d]
                   PROVE  \E n \in Messages : ConvOf[n] = d /\ Owns(n)'
      BY <3>0, <2>8
    <3>2. PICK n \in Messages : ConvOf[n] = d /\ Owns(n)
      BY <3>1 DEF ExclusionInv
    <3>3. QED
      BY <2>7, <3>1, <3>2, <2>2 DEF c
  <2>12. \A n \in Messages : Owns(n)' => token'[ConvOf[n]] = n
    BY <2>1, <2>2, <2>7 DEF ExclusionInv, c
  <2>13. \A n \in Messages :
           handler'[n].step \in LoopSteps => handler'[n].token = n
    BY <2>5, <2>6 DEF ExclusionInv
  <2>14. QED
    BY <2>1, <2>9, <2>10, <2>11, <2>12, <2>13 DEF ExclusionInv, c
<1>8. QED
  BY <1>3, <1>4, <1>5, <1>6, <1>7 DEF Dispatch

LEMMA ExclusionNext ==
  TypeInv /\ ExclusionInv /\ [Next]_vars => ExclusionInv'
<1> SUFFICES ASSUME TypeInv, ExclusionInv, [Next]_vars PROVE ExclusionInv'
  OBVIOUS
<1>1. ASSUME NEW m \in Messages, Send(m) PROVE ExclusionInv'
  BY <1>1 DEF Send, ExclusionInv, Owns, runtimeVars
<1>2. ASSUME NEW c \in Conversations, Cancel(c) PROVE ExclusionInv'
  BY <1>2 DEF Cancel, ExclusionInv, Owns
<1>3. CASE Dispatch
  BY <1>3, ExclusionDispatch
<1>4. ASSUME NEW m \in Messages, Handle(m) PROVE ExclusionInv'
  BY <1>4, ExclusionHandle
<1>5. CASE UNCHANGED vars
  BY <1>5 DEF vars, ExclusionInv, Owns
<1>6. QED
  BY <1>1, <1>2, <1>3, <1>4, <1>5 DEF Next

LEMMA ExclusionCorrect == Spec => []ExclusionInv
<1>1. Init => ExclusionInv
  BY TypeInit, ExclusionInit
<1>2. QED
  BY <1>1, TypeInvariant, ExclusionNext, PTL DEF Spec

\* However the dispatcher and the handlers interleave, no two handlers ever
\* run a conversation at once, and the active flag tells exactly whether one
\* does.
THEOREM LoopExclusion == Spec => []OneLoopPerConversation
<1>1. TypeInv /\ ExclusionInv => OneLoopPerConversation
  <2> SUFFICES ASSUME TypeInv, ExclusionInv, NEW c \in Conversations
               PROVE  LET owners == {m \in Messages : ConvOf[m] = c /\ Owns(m)}
                      IN  /\ \A m, n \in owners : m = n
                          /\ active[c] <=> owners # {}
    BY DEF OneLoopPerConversation
  <2>1. active[c] \in BOOLEAN
    BY DEF TypeInv, TypeOK
  <2>2. QED
    BY <2>1 DEF ExclusionInv
<1>2. QED
  BY <1>1, TypeInvariant, ExclusionCorrect, PTL

\* A cancel request made while a loop runs reaches that loop and no other.
THEOREM CancelReachesLoop == Spec => []CancelHitsTheRunningLoop
<1>1. ExclusionInv => CancelHitsTheRunningLoop
  BY DEF ExclusionInv, CancelHitsTheRunningLoop
<1>2. QED
  BY <1>1, ExclusionCorrect, PTL

-----------------------------------------------------------------------------
(* Lemmas about sequences of messages.                                     *)

\* No element occurs twice.
Distinct(s) == \A i, j \in 1 .. Len(s) : s[i] = s[j] => i = j

LEMMA ElemsEmpty == Elems(<<>>) = {} /\ Distinct(<<>>)
BY EmptySeq DEF Elems, Distinct

LEMMA ElemsByIndex ==
  ASSUME NEW S, NEW s \in Seq(S)
  PROVE  \A x : x \in Elems(s) <=> \E i \in 1 .. Len(s) : s[i] = x
BY LenProperties DEF Elems

LEMMA ElemsAppend ==
  ASSUME NEW S, NEW s \in Seq(S), NEW e \in S
  PROVE  /\ \A x : x \in Elems(Append(s, e)) <=> x \in Elems(s) \/ x = e
         /\ Distinct(s) /\ e \notin Elems(s) => Distinct(Append(s, e))
<1> DEFINE t == Append(s, e)
<1>1. /\ t \in Seq(S) /\ Len(t) = Len(s) + 1 /\ Len(s) \in Nat
      /\ \A i \in 1 .. Len(s) : t[i] = s[i]
      /\ t[Len(s) + 1] = e
  BY AppendProperties, LenProperties
<1> HIDE DEF t
<1>2. \A x : x \in Elems(t) <=> \E i \in 1 .. Len(t) : t[i] = x
  BY <1>1, ElemsByIndex
<1>3. \A x : x \in Elems(s) <=> \E i \in 1 .. Len(s) : s[i] = x
  BY ElemsByIndex
<1>4. \A i \in 1 .. Len(t) : i \in 1 .. Len(s) \/ i = Len(s) + 1
  BY <1>1
<1>4a. \A i \in 1 .. Len(s) : i \in 1 .. Len(t)
  BY <1>1
<1>4b. Len(s) + 1 \in 1 .. Len(t)
  BY <1>1
<1>5. \A x : x \in Elems(t) <=> x \in Elems(s) \/ x = e
  BY <1>1, <1>2, <1>3, <1>4, <1>4a, <1>4b
<1>6. Distinct(s) /\ e \notin Elems(s) => Distinct(t)
  BY <1>1, <1>3, <1>4 DEF Distinct
<1>7. QED
  BY <1>5, <1>6 DEF t

LEMMA ElemsTail ==
  ASSUME NEW S, NEW s \in Seq(S), s # <<>>
  PROVE  /\ Head(s) \in S /\ Tail(s) \in Seq(S)
         /\ \A x : x \in Elems(s) <=> x = Head(s) \/ x \in Elems(Tail(s))
         /\ Distinct(s) => Distinct(Tail(s)) /\ Head(s) \notin Elems(Tail(s))
<1> DEFINE t == Tail(s)
<1>1. /\ Head(s) \in S /\ t \in Seq(S)
      /\ Len(t) = Len(s) - 1 /\ Len(s) \in Nat \ {0}
      /\ \A i \in 1 .. Len(t) : t[i] = s[i + 1]
  BY HeadTailProperties, EmptySeq
<1>2. Head(s) = s[1]
  OBVIOUS
<1> HIDE DEF t
<1>3. \A x : x \in Elems(t) <=> \E i \in 1 .. Len(t) : t[i] = x
  BY <1>1, ElemsByIndex
<1>4. \A x : x \in Elems(s) <=> \E i \in 1 .. Len(s) : s[i] = x
  BY ElemsByIndex
<1>5. \A i \in 1 .. Len(s) : i = 1 \/ (i - 1 \in 1 .. Len(t) /\ t[i - 1] = s[i])
  BY <1>1
<1>6. \A i \in 1 .. Len(t) : i + 1 \in 1 .. Len(s) /\ i + 1 # 1
  BY <1>1
<1>7. 1 \in 1 .. Len(s)
  BY <1>1
<1>8. \A x : x \in Elems(s) <=> x = Head(s) \/ x \in Elems(t)
  BY <1>1, <1>2, <1>3, <1>4, <1>5, <1>6, <1>7
<1>9. ASSUME Distinct(s) PROVE Distinct(t) /\ Head(s) \notin Elems(t)
  <2>1. Distinct(t)
    BY <1>1, <1>6, <1>9 DEF Distinct
  <2>2. Head(s) \notin Elems(t)
    BY <1>1, <1>2, <1>3, <1>6, <1>7, <1>9 DEF Distinct
  <2>3. QED
    BY <2>1, <2>2
<1>10. QED
  BY <1>1, <1>8, <1>9 DEF t

\* What a publication does to the channel and to the skipped messages.
LEMMA PublishFacts ==
  ASSUME bus \in Seq(Messages), Distinct(bus), NEW m \in Messages,
         m \notin Elems(bus), Publish(m)
  PROVE  /\ Distinct(bus')
         /\ \/ /\ \A x : x \in Elems(bus') <=> x \in Elems(bus) \/ x = m
               /\ skipped' = skipped
            \/ \E h \in Elems(bus) :
                 /\ \A x : x \in Elems(bus') <=>
                             (x \in Elems(bus) /\ x # h) \/ x = m
                 /\ skipped' = skipped \cup {h}
<1>1. CASE Len(bus) < BusCapacity
  <2>1. bus' = Append(bus, m) /\ skipped' = skipped
    BY <1>1 DEF Publish
  <2>2. /\ Distinct(bus')
        /\ \A x : x \in Elems(bus') <=> x \in Elems(bus) \/ x = m
    BY <2>1, ElemsAppend
  <2>3. QED
    BY <2>1, <2>2
<1>2. CASE ~(Len(bus) < BusCapacity)
  <2>1. bus # <<>>
    BY <1>2, DispatchAssumption, EmptySeq
  <2>2. bus' = Append(Tail(bus), m) /\ skipped' = skipped \cup {Head(bus)}
    BY <1>2 DEF Publish
  <2>3. /\ Tail(bus) \in Seq(Messages)
        /\ \A x : x \in Elems(bus) <=> x = Head(bus) \/ x \in Elems(Tail(bus))
        /\ Distinct(Tail(bus)) /\ Head(bus) \notin Elems(Tail(bus))
    BY <2>1, ElemsTail
  <2>4. /\ \A x : x \in Elems(bus') <=> x \in Elems(Tail(bus)) \/ x = m
        /\ Distinct(bus')
    BY <2>2, <2>3, ElemsAppend
  <2> DEFINE h == Head(bus)
             t == Tail(bus)
  <2>5. /\ h \in Elems(bus)
        /\ \A x : x \in Elems(t) <=> x \in Elems(bus) /\ x # h
    BY <2>3
  <2>6. skipped' = skipped \cup {h} /\ \A x : x \in Elems(bus') <=> x \in Elems(t) \/ x = m
    BY <2>2, <2>4
  <2> HIDE DEF h, t
  <2>7. \A x : x \in Elems(bus') <=> (x \in Elems(bus) /\ x # h) \/ x = m
    BY <2>5, <2>6
  <2>8. QED
    BY <2>4, <2>5, <2>6, <2>7
<1>3. QED
  BY <1>1, <1>2

-----------------------------------------------------------------------------
(* Where a message is.  The places are those of MessagesConserved; every   *)
(* message that was published is in exactly one of them.                   *)

PlaceNames == {"bus", "dispatcher", "pending", "batch", "handler",
               "injected", "skipped", "discarded"}

InBus(m) == m \in Elems(bus)
InDispatcher(m) == dispatcher.step # "recv" /\ dispatcher.msg = m
InPending(m) == m \in Elems(pending[ConvOf[m]])
InBatch(m) == \E n \in Messages : m \in Elems(handler[n].batch)
InHandler(m) == handler[m].step # "none"

Places(m) == {p \in PlaceNames :
                \/ p = "bus" /\ InBus(m)
                \/ p = "dispatcher" /\ InDispatcher(m)
                \/ p = "pending" /\ InPending(m)
                \/ p = "batch" /\ InBatch(m)
                \/ p = "handler" /\ InHandler(m)
                \/ p = "injected" /\ m \in injected
                \/ p = "skipped" /\ m \in skipped
                \/ p = "discarded" /\ m \in discarded}

OnePlace ==
  \A m \in Messages :
    /\ m \in sent => \E p \in PlaceNames : Places(m) = {p}
    /\ m \notin sent => Places(m) = {}

\* No buffer holds a message twice, buffers and batches hold messages of
\* their own conversation only, no two batches share a message, and only a
\* handler that injects or republishes has a batch.
Buffers ==
  /\ Distinct(bus)
  /\ \A c \in Conversations :
       /\ Distinct(pending[c])
       /\ \A x \in Elems(pending[c]) : ConvOf[x] = c
  /\ \A n \in Messages :
       /\ Distinct(handler[n].batch)
       /\ \A x \in Elems(handler[n].batch) : ConvOf[x] = ConvOf[n]
       /\ handler[n].step \notin {"inject", "republish"} =>
            handler[n].batch = <<>>
  /\ \A n, k \in Messages : \A x \in Messages :
       x \in Elems(handler[n].batch) /\ x \in Elems(handler[k].batch) => n = k

ConservationInv == OnePlace /\ Buffers

LEMMA ConservationInit == TypeInv /\ Init => ConservationInv
<1> SUFFICES ASSUME TypeInv, Init PROVE ConservationInv
  OBVIOUS
<1> USE DispatchAssumption, ElemsEmpty
<1>1. Buffers
  BY DEF Init, Buffers, NoHandler
<1>2. ASSUME NEW m \in Messages PROVE Places(m) = {} /\ m \notin sent
  BY DEF Init, Places, InBus, InDispatcher, InPending, InBatch, InHandler,
         NoHandler
<1>3. QED
  BY <1>1, <1>2 DEF ConservationInv, OnePlace

\* A message that is known to be in a place was sent and is nowhere else.
LEMMA FoundAt ==
  ASSUME OnePlace, NEW m \in Messages, NEW p \in Places(m)
  PROVE  m \in sent /\ Places(m) = {p}
BY DEF OnePlace

\* A step that changes none of the eight facts about a message leaves the
\* message where it is.
Untouched(m) ==
  /\ InBus(m)' <=> InBus(m)
  /\ InDispatcher(m)' <=> InDispatcher(m)
  /\ InPending(m)' <=> InPending(m)
  /\ InBatch(m)' <=> InBatch(m)
  /\ InHandler(m)' <=> InHandler(m)
  /\ m \in injected' <=> m \in injected
  /\ m \in skipped' <=> m \in skipped
  /\ m \in discarded' <=> m \in discarded

LEMMA UntouchedStays ==
  ASSUME NEW m, Untouched(m)
  PROVE  Places(m)' = Places(m)
BY DEF Untouched, Places

\* The messages of S go from one place to another and no other one moves.
Moved(S, from, to) ==
  /\ UNCHANGED sent
  /\ \A m \in Messages \cap S : Places(m) = {from} /\ Places(m)' = {to}
  /\ \A m \in Messages \ S : Places(m)' = Places(m)

\* m is published; a full channel loses its oldest message meanwhile.
Published(m, from) ==
  /\ sent' = sent \cup {m}
  /\ Places(m) = from /\ Places(m)' = {"bus"}
  /\ \E lost \in SUBSET (Messages \ {m}) :
       /\ lost = {} \/ \E h \in Messages : lost = {h}
       /\ \A n \in lost : Places(n) = {"bus"} /\ Places(n)' = {"skipped"}
       /\ \A n \in Messages \ (lost \cup {m}) : Places(n)' = Places(n)

LEMMA MovedOnePlace ==
  ASSUME OnePlace, NEW S, NEW from, NEW to \in PlaceNames, Moved(S, from, to)
  PROVE  OnePlace'
<1> SUFFICES ASSUME NEW m \in Messages
             PROVE  /\ m \in sent' => \E p \in PlaceNames : Places(m)' = {p}
                    /\ m \notin sent' => Places(m)' = {}
  BY DEF OnePlace
<1>1. CASE m \in S
  BY <1>1 DEF Moved, OnePlace
<1>2. CASE m \notin S
  BY <1>2 DEF Moved, OnePlace
<1>3. QED
  BY <1>1, <1>2

LEMMA PublishedOnePlace ==
  ASSUME OnePlace, NEW m \in Messages, NEW from, Published(m, from)
  PROVE  OnePlace'
<1> SUFFICES ASSUME NEW n \in Messages
             PROVE  /\ n \in sent' => \E p \in PlaceNames : Places(n)' = {p}
                    /\ n \notin sent' => Places(n)' = {}
  BY DEF OnePlace
<1>1. PICK lost \in SUBSET (Messages \ {m}) :
        /\ \A k \in lost : Places(k) = {"bus"} /\ Places(k)' = {"skipped"}
        /\ \A k \in Messages \ (lost \cup {m}) : Places(k)' = Places(k)
  BY DEF Published
<1>2. sent' = sent \cup {m} /\ Places(m)' = {"bus"}
  BY DEF Published
<1>3. "bus" \in PlaceNames /\ "skipped" \in PlaceNames
  BY DEF PlaceNames
<1>4. CASE n = m
  BY <1>2, <1>3, <1>4
<1>5. CASE n \in lost
  BY <1>1, <1>2, <1>3, <1>5 DEF OnePlace
<1>6. CASE n # m /\ n \notin lost
  BY <1>1, <1>2, <1>6 DEF OnePlace
<1>7. QED
  BY <1>4, <1>5, <1>6

LEMMA ReceiveMoves ==
  ASSUME TypeInv, ConservationInv, Receive
  PROVE  \E m \in Messages : /\ dispatcher'.msg = m
                             /\ Moved({m}, "bus", "dispatcher")
                             /\ Buffers'
<1>1. /\ bus \in Seq(Messages) /\ bus # <<>> /\ bus' = Tail(bus)
      /\ dispatcher.step = "recv"
      /\ dispatcher' = [step |-> "check", msg |-> Head(bus)]
  BY DEF Receive, TypeInv, TypeOK
<1>2. PICK m \in Messages : m = Head(bus)
  BY <1>1, ElemsTail
<1>3. /\ \A x : x \in Elems(bus) <=> x = m \/ x \in Elems(bus')
      /\ Distinct(bus') /\ m \notin Elems(bus')
  BY <1>1, <1>2, ElemsTail DEF ConservationInv, Buffers
<1>4. UNCHANGED <<pending, handler, injected, skipped, discarded, sent>>
  BY DEF Receive, runtimeVars
<1>5. /\ InDispatcher(m)' /\ ~InDispatcher(m)
      /\ dispatcher'.msg = m
      /\ \A n \in Messages \ {m} : InDispatcher(n)' <=> InDispatcher(n)
  BY <1>1, <1>2 DEF InDispatcher
<1>6. Places(m) = {"bus"}
  BY <1>3, FoundAt DEF ConservationInv, Places, PlaceNames, InBus
<1>7. Places(m)' = {"dispatcher"}
  BY <1>3, <1>4, <1>5, <1>6
     DEF Places, PlaceNames, InBus, InPending, InBatch, InHandler
<1>8. ASSUME NEW n \in Messages \ {m} PROVE Places(n)' = Places(n)
  <2>1. Untouched(n)
    BY <1>3, <1>4, <1>5
       DEF Untouched, InBus, InPending, InBatch, InHandler
  <2>2. QED
    BY <2>1, UntouchedStays
<1>9. Buffers'
  BY <1>3, <1>4 DEF ConservationInv, Buffers
<1>10. QED
  BY <1>4, <1>5, <1>6, <1>7, <1>8, <1>9 DEF Moved

LEMMA CheckMoves ==
  ASSUME TypeInv, ConservationInv, CheckActive
  PROVE  /\ Buffers'
         /\ \/ /\ UNCHANGED sent
               /\ \A n \in Messages : Places(n)' = Places(n)
            \/ \E m \in Messages : Moved({m}, "dispatcher", "discarded")
<1>1. PICK m \in Messages : dispatcher.msg = m /\ dispatcher.step = "check"
  BY DEF CheckActive, TypeInv, TypeOK
<1>2. UNCHANGED <<bus, pending, handler, injected, skipped, sent>>
  BY DEF CheckActive, runtimeVars
<1>3. Buffers'
  BY <1>2 DEF ConservationInv, Buffers
<1>4. CASE m \notin NoText
  <2>1. /\ dispatcher'.step # "recv" /\ dispatcher'.msg = m
        /\ UNCHANGED discarded
    BY <1>1, <1>4 DEF CheckActive, TypeInv, TypeOK
  <2>2. \A n \in Messages : Places(n)' = Places(n)
    BY <1>1, <1>2, <2>1
       DEF Places, InBus, InDispatcher, InPending, InBatch, InHandler
  <2>3. QED
    BY <1>2, <1>3, <2>2
<1>5. CASE m \in NoText
  <2>1. dispatcher'.step = "recv" /\ discarded' = discarded \cup {m}
    BY <1>1, <1>5 DEF CheckActive, TypeInv, TypeOK
  <2>2. InDispatcher(m) /\ \A n \in Messages : ~InDispatcher(n)'
    BY <1>1, <2>1 DEF InDispatcher
  <2>3. Places(m) = {"dispatcher"}
    BY <2>2, FoundAt DEF ConservationInv, Places, PlaceNames
  <2>4. Places(m)' = {"discarded"}
    BY <1>2, <2>1, <2>2, <2>3
       DEF Places, PlaceNames, InBus, InPending, InBatch, InHandler
  <2>5. ASSUME NEW n \in Messages \ {m} PROVE Places(n)' = Places(n)
    <3>1. Untouched(n)
      BY <1>1, <1>2, <2>1, <2>2
         DEF Untouched, InBus, InDispatcher, InPending, InBatch, InHandler
    <3>2. QED
      BY <3>1, UntouchedStays
  <2>6. Moved({m}, "dispatcher", "discarded")
    BY <1>2, <2>3, <2>4, <2>5 DEF Moved
  <2>7. QED
    BY <1>3, <2>6
<1>6. QED
  BY <1>4, <1>5

LEMMA PushMoves ==
  ASSUME TypeInv, ConservationInv, PushPending
  PROVE  \E m \in Messages : /\ dispatcher.msg = m
                             /\ Moved({m}, "dispatcher", "pending")
                             /\ Buffers'
<1>1. PICK m \in Messages : dispatcher.msg = m /\ dispatcher.step = "push"
  BY DEF PushPending, TypeInv, TypeOK
<1> DEFINE c == ConvOf[m]
<1>2. /\ c \in Conversations
      /\ pending[c] \in Seq(Messages)
      /\ pending' = [pending EXCEPT ![c] = Append(pending[c], m)]
      /\ pending \in [Conversations -> Seq(Messages)]
      /\ dispatcher'.step = "recv"
      /\ UNCHANGED <<bus, handler, injected, skipped, discarded, sent>>
  BY <1>1, DispatchAssumption DEF PushPending, TypeInv, TypeOK, ghostVars
<1>3. InDispatcher(m) /\ \A n \in Messages : ~InDispatcher(n)'
  BY <1>1, <1>2 DEF InDispatcher
<1>4. Places(m) = {"dispatcher"}
  BY <1>3, FoundAt DEF ConservationInv, Places, PlaceNames
<1>5. ~InPending(m)
  BY <1>4 DEF Places, PlaceNames
<1>6. /\ \A x : x \in Elems(pending'[c]) <=> x \in Elems(pending[c]) \/ x = m
      /\ Distinct(pending'[c])
      /\ \A d \in Conversations \ {c} : pending'[d] = pending[d]
  <2>1. pending'[c] = Append(pending[c], m)
    BY <1>2
  <2>2. QED
    BY <1>2, <1>5, <2>1, ElemsAppend DEF ConservationInv, Buffers, InPending
<1>7. Places(m)' = {"pending"}
  BY <1>2, <1>3, <1>4, <1>6
     DEF Places, PlaceNames, InBus, InPending, InBatch, InHandler
<1>8. ASSUME NEW n \in Messages \ {m} PROVE Places(n)' = Places(n)
  <2>1. ~InDispatcher(n)
    BY <1>1 DEF InDispatcher
  <2>2. InPending(n)' <=> InPending(n)
    BY <1>6, DispatchAssumption DEF InPending
  <2>3. Untouched(n)
    BY <1>2, <1>3, <2>1, <2>2
       DEF Untouched, InBus, InBatch, InHandler
  <2>4. QED
    BY <2>3, UntouchedStays
<1>9. Buffers'
  <2>1. ASSUME NEW d \in Conversations
        PROVE  /\ Distinct(pending'[d])
               /\ \A x \in Elems(pending'[d]) : ConvOf[x] = d
    BY <1>6 DEF ConservationInv, Buffers
  <2>2. QED
    BY <1>2, <2>1 DEF ConservationInv, Buffers
<1>10. QED
  BY <1>1, <1>2, <1>4, <1>7, <1>8, <1>9 DEF Moved

LEMMA ResetMoves ==
  ASSUME TypeInv, ConservationInv, Reset
  PROVE  \E c \in Conversations :
           /\ Moved(Elems(pending[c]), "pending", "discarded")
           /\ Buffers'
<1>1. PICK m \in Messages : dispatcher.msg = m /\ dispatcher.step = "reset"
  BY DEF Reset, TypeInv, TypeOK
<1> DEFINE c == ConvOf[m]
<1>2. /\ c \in Conversations
      /\ pending' = [pending EXCEPT ![c] = <<>>]
      /\ pending \in [Conversations -> Seq(Messages)]
      /\ dispatcher' = [dispatcher EXCEPT !.step = "spawn"]
      /\ discarded' = discarded \cup Elems(pending[c])
      /\ UNCHANGED <<bus, handler, injected, skipped, sent>>
  BY <1>1, DispatchAssumption DEF Reset, TypeInv, TypeOK
<1>3. \A n \in Messages : InDispatcher(n)' <=> InDispatcher(n)
  BY <1>1, <1>2 DEF InDispatcher, TypeInv, TypeOK
<1>4. /\ pending'[c] = <<>>
      /\ \A d \in Conversations \ {c} : pending'[d] = pending[d]
  BY <1>2
<1>5. ASSUME NEW n \in Messages, n \in Elems(pending[c])
      PROVE  Places(n) = {"pending"} /\ Places(n)' = {"discarded"}
  <2>1. ConvOf[n] = c
    BY <1>2, <1>5 DEF ConservationInv, Buffers
  <2>2. Places(n) = {"pending"}
    BY <1>5, <2>1, FoundAt DEF ConservationInv, Places, PlaceNames, InPending
  <2>3. Places(n)' = {"discarded"}
    BY <1>2, <1>3, <1>4, <1>5, <2>1, <2>2, ElemsEmpty
       DEF Places, PlaceNames, InBus, InPending, InBatch, InHandler
  <2>4. QED
    BY <2>2, <2>3
<1>6. ASSUME NEW n \in Messages, n \notin Elems(pending[c])
      PROVE  Places(n)' = Places(n)
  <2>1. InPending(n)' <=> InPending(n)
    BY <1>4, <1>6, ElemsEmpty, DispatchAssumption DEF InPending
  <2>2. Untouched(n)
    BY <1>2, <1>3, <1>6, <2>1 DEF Untouched, InBus, InBatch, InHandler
  <2>3. QED
    BY <2>2, UntouchedStays
<1>7. Buffers'
  <2>1. ASSUME NEW d \in Conversations
        PROVE  /\ Distinct(pending'[d])
               /\ \A x \in Elems(pending'[d]) : ConvOf[x] = d
    BY <1>4, ElemsEmpty DEF ConservationInv, Buffers
  <2>2. QED
    BY <1>2, <2>1 DEF ConservationInv, Buffers
<1>8. QED
  BY <1>2, <1>5, <1>6, <1>7 DEF Moved

LEMMA SpawnMoves ==
  ASSUME TypeInv, ConservationInv, Spawn
  PROVE  \E m \in Messages : /\ dispatcher.msg = m
                             /\ Moved({m}, "dispatcher", "handler")
                             /\ Buffers'
<1>1. PICK m \in Messages : dispatcher.msg = m /\ dispatcher.step = "spawn"
  BY DEF Spawn, TypeInv, TypeOK
<1>2. /\ dispatcher'.step = "recv"
      /\ handler' = [handler EXCEPT ![m] = NewHandler]
      /\ handler \in [Messages -> Handler]
      /\ UNCHANGED <<bus, pending, injected, skipped, discarded, sent>>
  BY <1>1 DEF Spawn, TypeInv, TypeOK, ghostVars
<1>3. InDispatcher(m) /\ \A n \in Messages : ~InDispatcher(n)'
  BY <1>1, <1>2 DEF InDispatcher
<1>4. Places(m) = {"dispatcher"}
  BY <1>3, FoundAt DEF ConservationInv, Places, PlaceNames
<1>5. ~InHandler(m)
  BY <1>4 DEF Places, PlaceNames
<1>6. handler[m].batch = <<>>
  BY <1>5 DEF ConservationInv, Buffers, InHandler
<1>7. NewHandler.step = "start" /\ NewHandler.batch = <<>>
  BY DEF NewHandler, NoHandler
<1>8. /\ handler'[m].step = "start" /\ handler'[m].batch = handler[m].batch
      /\ \A n \in Messages \ {m} : handler'[n] = handler[n]
  BY <1>2, <1>6, <1>7
<1>9. \A n \in Messages : InBatch(n)' <=> InBatch(n)
  BY <1>8 DEF InBatch
<1>10. Places(m)' = {"handler"}
  BY <1>2, <1>3, <1>4, <1>8, <1>9
     DEF Places, PlaceNames, InBus, InPending, InHandler
<1>11. ASSUME NEW n \in Messages \ {m} PROVE Places(n)' = Places(n)
  <2>1. ~InDispatcher(n)
    BY <1>1 DEF InDispatcher
  <2>2. Untouched(n)
    BY <1>2, <1>3, <1>8, <1>9, <2>1 DEF Untouched, InBus, InPending, InHandler
  <2>3. QED
    BY <2>2, UntouchedStays
<1>12. Buffers'
  BY <1>2, <1>6, <1>8 DEF ConservationInv, Buffers
<1>13. QED
  BY <1>1, <1>2, <1>4, <1>10, <1>11, <1>12 DEF Moved

\* Most steps of a handler touch no message: they change neither a buffer
\* nor whether a message has a handler.
QuietStep(m) ==
  \/ PersistUserMessage(m) \/ LoadHistory(m) \/ Stream(m) \/ StartLoop(m)
  \/ BeginTurn(m) \/ LlmReturns(m) \/ ToolsReturn(m) \/ ToolPanics(m)
  \/ Finalize(m) \/ Deactivate(m)

LEMMA QuietFrame ==
  ASSUME TypeInv, Buffers, NEW m \in Messages, QuietStep(m)
  PROVE  /\ UNCHANGED <<bus, dispatcher, pending, injected, skipped,
                        discarded, sent>>
         /\ \A n \in Messages \ {m} : handler'[n] = handler[n]
         /\ handler[m].batch = <<>> /\ handler'[m].batch = <<>>
         /\ handler[m].step # "none" /\ handler'[m].step # "none"
<1> USE DEF At, Goto, Leave, Fail, NoHandler, runtimeVars, ghostVars
<1>1. handler \in [Messages -> Handler] /\ handler[m] \in Handler
  BY DEF TypeInv, TypeOK
<1>2. handler[m].step \notin {"inject", "republish"} => handler[m].batch = <<>>
  BY DEF Buffers
<1>3. CASE PersistUserMessage(m)
  BY <1>1, <1>2, <1>3 DEF PersistUserMessage, Handler
<1>4. CASE LoadHistory(m)
  BY <1>1, <1>2, <1>4 DEF LoadHistory, Handler
<1>5. CASE Stream(m)
  BY <1>1, <1>2, <1>5 DEF Stream, Handler
<1>6. CASE StartLoop(m)
  BY <1>1, <1>2, <1>6 DEF StartLoop, Handler
<1>7. CASE BeginTurn(m)
  BY <1>1, <1>2, <1>7 DEF BeginTurn, Handler
<1>8. CASE LlmReturns(m)
  BY <1>1, <1>2, <1>8 DEF LlmReturns, Handler
<1>9. CASE ToolsReturn(m)
  BY <1>1, <1>2, <1>9 DEF ToolsReturn, Handler
<1>10. CASE ToolPanics(m)
  BY <1>1, <1>2, <1>10 DEF ToolPanics, Handler
<1>11. CASE Finalize(m)
  BY <1>1, <1>2, <1>11 DEF Finalize, Handler
<1>12. CASE Deactivate(m)
  BY <1>1, <1>2, <1>12 DEF Deactivate, Handler
<1>13. QED
  BY <1>3, <1>4, <1>5, <1>6, <1>7, <1>8, <1>9, <1>10, <1>11, <1>12
     DEF QuietStep

LEMMA QuietMoves ==
  ASSUME TypeInv, ConservationInv, NEW m \in Messages, QuietStep(m)
  PROVE  /\ \A n \in Messages : Places(n)' = Places(n)
         /\ Buffers' /\ UNCHANGED sent
<1>1. /\ UNCHANGED <<bus, dispatcher, pending, injected, skipped,
                     discarded, sent>>
      /\ \A n \in Messages \ {m} : handler'[n] = handler[n]
      /\ handler[m].batch = <<>> /\ handler'[m].batch = <<>>
      /\ handler[m].step # "none" /\ handler'[m].step # "none"
  BY QuietFrame DEF ConservationInv
<1>2. \A n \in Messages : handler'[n].batch = handler[n].batch
  BY <1>1
<1>3. ASSUME NEW n \in Messages PROVE Places(n)' = Places(n)
  <2>1. Untouched(n)
    BY <1>1, <1>2
       DEF Untouched, InBus, InDispatcher, InPending, InBatch, InHandler
  <2>2. QED
    BY <2>1, UntouchedStays
<1>4. Buffers'
  BY <1>1, <1>2 DEF ConservationInv, Buffers
<1>5. QED
  BY <1>1, <1>3, <1>4

\* Both drains move the whole pending buffer into the handler's batch.
LEMMA DrainMoves ==
  ASSUME TypeInv, ConservationInv, NEW m \in Messages,
         DrainPending(m) \/ FinalDrain(m)
  PROVE  /\ Moved(Elems(pending[ConvOf[m]]), "pending", "batch")
         /\ Buffers'
<1> DEFINE c == ConvOf[m]
           left == pending[c]
<1>1. /\ c \in Conversations /\ left \in Seq(Messages)
      /\ pending \in [Conversations -> Seq(Messages)]
      /\ handler \in [Messages -> Handler] /\ handler[m] \in Handler
  BY DispatchAssumption DEF TypeInv, TypeOK
<1>2. /\ UNCHANGED <<bus, dispatcher, injected, skipped, discarded, sent>>
      /\ pending' = [pending EXCEPT ![c] = <<>>]
      /\ handler[m].step \notin {"none", "inject", "republish"}
  BY DEF DrainPending, FinalDrain, At, ghostVars
<1>3. /\ handler'[m].batch = left
      /\ handler'[m].step # "none"
      /\ handler'[m].step \notin {"inject", "republish"} => left = <<>>
      /\ \A n \in Messages \ {m} : handler'[n] = handler[n]
  <2>1. CASE DrainPending(m)
    BY <1>1, <2>1 DEF DrainPending, Handler
  <2>2. CASE FinalDrain(m)
    BY <1>1, <2>2 DEF FinalDrain, Handler
  <2>3. QED
    BY <2>1, <2>2
<1>4. handler[m].batch = <<>>
  BY <1>2 DEF ConservationInv, Buffers
<1>5. /\ pending'[c] = <<>>
      /\ \A d \in Conversations \ {c} : pending'[d] = pending[d]
  BY <1>1, <1>2
<1>6. \A x \in Elems(left) : ConvOf[x] = c /\ x \in Messages
  BY <1>1, ElemsType DEF ConservationInv, Buffers
<1>7. \A x \in Elems(left) : Places(x) = {"pending"}
  <2>1. ASSUME NEW x \in Elems(left) PROVE Places(x) = {"pending"}
    BY <1>6, FoundAt DEF ConservationInv, Places, PlaceNames, InPending
  <2>2. QED
    BY <2>1
<1>8. \A x \in Elems(left) : ~InBatch(x)
  BY <1>7 DEF Places, PlaceNames
<1>9. \A x : InBatch(x)' <=> InBatch(x) \/ x \in Elems(left)
  BY <1>3, <1>4, ElemsEmpty DEF InBatch
<1>10. ASSUME NEW x \in Messages, x \in Elems(left)
       PROVE  Places(x)' = {"batch"}
  <2>1. ConvOf[x] = c /\ ~InPending(x)'
    BY <1>5, <1>6, <1>10, ElemsEmpty DEF InPending
  <2>2. InHandler(x)' <=> InHandler(x)
    BY <1>2, <1>3 DEF InHandler
  <2>3. InBus(x)' = InBus(x) /\ InDispatcher(x)' = InDispatcher(x)
    BY <1>2 DEF InBus, InDispatcher
  <2>4. QED
    BY <1>2, <1>7, <1>9, <1>10, <2>1, <2>2, <2>3 DEF Places, PlaceNames
<1>11. ASSUME NEW n \in Messages, n \notin Elems(left)
       PROVE  Places(n)' = Places(n)
  <2>1. InPending(n)' <=> InPending(n)
    BY <1>5, <1>11, ElemsEmpty, DispatchAssumption DEF InPending
  <2>2. InHandler(n)' <=> InHandler(n)
    BY <1>2, <1>3 DEF InHandler
  <2>3. InBatch(n)' <=> InBatch(n)
    BY <1>9, <1>11
  <2>4. Untouched(n)
    BY <1>2, <2>1, <2>2, <2>3 DEF Untouched, InBus, InDispatcher
  <2>5. QED
    BY <2>4, UntouchedStays
<1>12. Buffers'
  <2>1. ASSUME NEW d \in Conversations
        PROVE  /\ Distinct(pending'[d])
               /\ \A x \in Elems(pending'[d]) : ConvOf[x] = d
    BY <1>5, ElemsEmpty DEF ConservationInv, Buffers
  <2>2. ASSUME NEW n \in Messages
        PROVE  /\ Distinct(handler'[n].batch)
               /\ \A x \in Elems(handler'[n].batch) : ConvOf[x] = ConvOf[n]
               /\ handler'[n].step \notin {"inject", "republish"} =>
                    handler'[n].batch = <<>>
    <3>1. CASE n = m
      BY <1>1, <1>3, <1>6, <3>1 DEF ConservationInv, Buffers
    <3>2. CASE n # m
      BY <1>3, <3>2 DEF ConservationInv, Buffers
    <3>3. QED
      BY <3>1, <3>2
  <2>3. ASSUME NEW n \in Messages, NEW k \in Messages, NEW x \in Messages,
               x \in Elems(handler'[n].batch), x \in Elems(handler'[k].batch)
        PROVE  n = k
    <3>1. \A j \in Messages \ {m} : x \in Elems(handler'[j].batch) =>
                                      x \notin Elems(left)
      BY <1>3, <1>8 DEF InBatch
    <3>2. QED
      BY <1>3, <2>3, <3>1 DEF ConservationInv, Buffers
  <2>4. QED
    BY <1>2, <2>1, <2>2, <2>3 DEF ConservationInv, Buffers
<1>13. QED
  BY <1>2, <1>7, <1>10, <1>11, <1>12 DEF Moved

\* What the second and the last conjunct of Buffers say of the batches.
Batches ==
  /\ \A n \in Messages :
       /\ Distinct(handler[n].batch)
       /\ \A x \in Elems(handler[n].batch) : ConvOf[x] = ConvOf[n]
       /\ handler[n].step \notin {"inject", "republish"} =>
            handler[n].batch = <<>>
  /\ \A n, k \in Messages : \A x \in Messages :
       x \in Elems(handler[n].batch) /\ x \in Elems(handler[k].batch) => n = k

\* A handler that takes the first message off its batch leaves it in no batch.
LEMMA TakeFirst ==
  ASSUME TypeInv, ConservationInv, NEW m \in Messages,
         handler[m].batch # <<>>,
         handler'[m].batch = Tail(handler[m].batch),
         \A n \in Messages \ {m} : handler'[n] = handler[n],
         \/ handler'[m].step \in {"inject", "republish"}
         \/ handler'[m].step = "done" /\ handler'[m].batch = <<>>
  PROVE  \E h \in Messages :
           /\ h = Head(handler[m].batch)
           /\ Places(h) = {"batch"}
           /\ \A x \in Messages : InBatch(x)' <=> InBatch(x) /\ x # h
           /\ \A x \in Messages : InHandler(x)' <=> InHandler(x)
           /\ Batches'
<1> DEFINE s == handler[m].batch
           t == handler'[m].batch
<1>1. s \in Seq(Messages) /\ s # <<>> /\ t = Tail(s)
  BY DEF TypeInv, TypeOK, Handler
<1>2. PICK h \in Messages : h = Head(s)
  BY <1>1, ElemsTail
<1>3. /\ \A x : x \in Elems(s) <=> x = h \/ x \in Elems(t)
      /\ Distinct(t) /\ h \notin Elems(t)
  BY <1>1, <1>2, ElemsTail DEF ConservationInv, Buffers
<1>4. \A x \in Elems(t) : ConvOf[x] = ConvOf[m]
  BY <1>3 DEF ConservationInv, Buffers
<1>5. handler[m].step # "none" /\ handler'[m].step # "none"
  BY <1>1 DEF ConservationInv, Buffers
<1>6. InBatch(h)
  BY <1>3 DEF InBatch
<1>7. Places(h) = {"batch"}
  BY <1>6, FoundAt DEF ConservationInv, Places, PlaceNames
<1> HIDE DEF s, t
<1>8. \A x \in Messages : x \in Elems(s) =>
        \A n \in Messages \ {m} : x \notin Elems(handler[n].batch)
  BY DEF ConservationInv, Buffers, s
<1>9. \A n \in Messages \ {m} : handler'[n] = handler[n]
  OBVIOUS
<1>10. ASSUME NEW x \in Messages
       PROVE  InBatch(x)' <=> InBatch(x) /\ x # h
  <2>1. InBatch(x) <=> \/ x \in Elems(s)
                       \/ \E n \in Messages \ {m} : x \in Elems(handler[n].batch)
    BY DEF InBatch, s
  <2>2. InBatch(x)' <=> \/ x \in Elems(t)
                        \/ \E n \in Messages \ {m} : x \in Elems(handler[n].batch)
    BY <1>9 DEF InBatch, t
  <2>3. QED
    BY <1>3, <1>8, <2>1, <2>2
<1>11. \A x \in Messages : InHandler(x)' <=> InHandler(x)
  BY <1>5, <1>9 DEF InHandler
<1>12. Batches'
  <2>1. ASSUME NEW n \in Messages
        PROVE  /\ Distinct(handler'[n].batch)
               /\ \A x \in Elems(handler'[n].batch) : ConvOf[x] = ConvOf[n]
               /\ handler'[n].step \notin {"inject", "republish"} =>
                    handler'[n].batch = <<>>
    <3>1. CASE n = m
      BY <1>3, <1>4, <3>1 DEF t
    <3>2. CASE n # m
      BY <1>9, <3>2 DEF ConservationInv, Buffers
    <3>3. QED
      BY <3>1, <3>2
  <2>2. ASSUME NEW n \in Messages, NEW k \in Messages, NEW x \in Messages,
               x \in Elems(handler'[n].batch), x \in Elems(handler'[k].batch)
        PROVE  n = k
    <3>1. x \in Elems(t) => x \in Elems(s)
      BY <1>3
    <3>2. x \in Elems(handler[n].batch) /\ x \in Elems(handler[k].batch)
      BY <1>9, <2>2, <3>1 DEF s, t
    <3>3. QED
      BY <3>2 DEF ConservationInv, Buffers
  <2>3. QED
    BY <2>1, <2>2 DEF Batches
<1>13. QED
  BY <1>2, <1>7, <1>10, <1>11, <1>12 DEF s

LEMMA InjectMoves ==
  ASSUME TypeInv, ConservationInv, NEW m \in Messages, InjectNext(m)
  PROVE  \E h \in Messages : /\ h = Head(handler[m].batch)
                             /\ Moved({h}, "batch", "injected")
                             /\ Buffers'
<1>1. handler \in [Messages -> Handler] /\ handler[m] \in Handler
  BY DEF TypeInv, TypeOK
<1>2. /\ handler[m].batch # <<>>
      /\ handler'[m].batch = Tail(handler[m].batch)
      /\ handler'[m].step = "inject"
      /\ \A n \in Messages \ {m} : handler'[n] = handler[n]
  BY <1>1 DEF InjectNext, At, Handler
<1>3. PICK h \in Messages :
        /\ h = Head(handler[m].batch)
        /\ Places(h) = {"batch"}
        /\ \A x \in Messages : InBatch(x)' <=> InBatch(x) /\ x # h
        /\ \A x \in Messages : InHandler(x)' <=> InHandler(x)
        /\ Batches'
  BY <1>2, TakeFirst
<1>4. /\ injected' = injected \cup {h}
      /\ UNCHANGED <<bus, dispatcher, pending, skipped, discarded, sent>>
  BY <1>3 DEF InjectNext, runtimeVars, ghostVars
<1>5. Places(h)' = {"injected"}
  BY <1>3, <1>4
     DEF Places, PlaceNames, InBus, InDispatcher, InPending
<1>6. ASSUME NEW n \in Messages \ {h} PROVE Places(n)' = Places(n)
  <2>1. Untouched(n)
    BY <1>3, <1>4 DEF Untouched, InBus, InDispatcher, InPending
  <2>2. QED
    BY <2>1, UntouchedStays
<1>7. Buffers'
  BY <1>3, <1>4 DEF ConservationInv, Buffers, Batches
<1>8. QED
  BY <1>3, <1>4, <1>5, <1>6, <1>7 DEF Moved

\* A publication by Send or Republish: m is in none of the places that the
\* channel concerns, and what else the step does to m is given.
LEMMA PublishMoves ==
  ASSUME TypeInv, ConservationInv, NEW m \in Messages, Publish(m),
         ~InBus(m),
         sent' = sent \cup {m},
         InBus(m)' => Places(m)' = {"bus"},
         UNCHANGED <<dispatcher, pending, injected, discarded>>,
         \A x \in Messages \ {m} : InBatch(x)' <=> InBatch(x),
         \A x \in Messages : InHandler(x)' <=> InHandler(x),
         Batches'
  PROVE  Published(m, Places(m)) /\ Buffers'
<1>1. bus \in Seq(Messages) /\ Distinct(bus) /\ m \notin Elems(bus)
  BY DEF TypeInv, TypeOK, ConservationInv, Buffers, InBus
<1>2. Buffers'
  BY <1>1, PublishFacts DEF ConservationInv, Buffers, Batches
<1>3. CASE /\ \A x : x \in Elems(bus') <=> x \in Elems(bus) \/ x = m
           /\ skipped' = skipped
  <2>1. Places(m)' = {"bus"}
    BY <1>3 DEF InBus
  <2>2. ASSUME NEW n \in Messages \ {m} PROVE Places(n)' = Places(n)
    <3>1. Untouched(n)
      BY <1>3 DEF Untouched, InBus, InDispatcher, InPending
    <3>2. QED
      BY <3>1, UntouchedStays
  <2>3. \E lost \in SUBSET (Messages \ {m}) :
          /\ lost = {} \/ \E h \in Messages : lost = {h}
          /\ \A n \in lost : Places(n) = {"bus"} /\ Places(n)' = {"skipped"}
          /\ \A n \in Messages \ (lost \cup {m}) : Places(n)' = Places(n)
    <3>1. WITNESS {} \in SUBSET (Messages \ {m})
    <3>2. QED
      BY <2>2
  <2>4. QED
    BY <1>2, <2>1, <2>3 DEF Published
<1>4. ASSUME NEW h \in Elems(bus),
             \A x : x \in Elems(bus') <=> (x \in Elems(bus) /\ x # h) \/ x = m,
             skipped' = skipped \cup {h}
      PROVE  Published(m, Places(m)) /\ Buffers'
  <2>1. Places(m)' = {"bus"}
    BY <1>4 DEF InBus
  <2>2. h \in Messages /\ h # m
    BY <1>1, ElemsType
  <2>3. Places(h) = {"bus"}
    BY <2>2, FoundAt DEF ConservationInv, Places, PlaceNames, InBus
  <2>4. Places(h)' = {"skipped"}
    BY <1>4, <2>2, <2>3
       DEF Places, PlaceNames, InBus, InDispatcher, InPending
  <2>5. ASSUME NEW n \in Messages \ {h, m} PROVE Places(n)' = Places(n)
    <3>1. Untouched(n)
      BY <1>4 DEF Untouched, InBus, InDispatcher, InPending
    <3>2. QED
      BY <3>1, UntouchedStays
  <2>6. \E lost \in SUBSET (Messages \ {m}) :
          /\ lost = {} \/ \E k \in Messages : lost = {k}
          /\ \A n \in lost : Places(n) = {"bus"} /\ Places(n)' = {"skipped"}
          /\ \A n \in Messages \ (lost \cup {m}) : Places(n)' = Places(n)
    <3>1. {h} \in SUBSET (Messages \ {m})
      BY <2>2
    <3>2. \A n \in Messages \ ({h} \cup {m}) : Places(n)' = Places(n)
      BY <2>5
    <3>3. QED
      BY <2>2, <2>3, <2>4, <3>1, <3>2
  <2>7. QED
    BY <1>2, <2>1, <2>6 DEF Published
<1>5. QED
  BY <1>1, <1>3, <1>4, PublishFacts

LEMMA SendMoves ==
  ASSUME TypeInv, ConservationInv, NEW m \in Messages, Send(m)
  PROVE  Published(m, {}) /\ m \notin sent /\ Buffers'
<1>1. /\ m \notin sent /\ sent' = sent \cup {m} /\ Publish(m)
      /\ UNCHANGED <<dispatcher, pending, handler, injected, discarded>>
  BY DEF Send, runtimeVars
<1>2. Places(m) = {}
  BY <1>1 DEF ConservationInv, OnePlace
<1>3. /\ ~InBus(m) /\ ~InDispatcher(m) /\ ~InPending(m) /\ ~InBatch(m)
      /\ ~InHandler(m) /\ m \notin injected /\ m \notin skipped
      /\ m \notin discarded
  BY <1>2 DEF Places, PlaceNames
<1>4. /\ \A x \in Messages : InBatch(x)' <=> InBatch(x)
      /\ \A x \in Messages : InHandler(x)' <=> InHandler(x)
      /\ Batches'
  BY <1>1 DEF InBatch, InHandler, Batches, ConservationInv, Buffers
<1>5. m \notin skipped'
  <2>1. bus \in Seq(Messages) /\ Distinct(bus) /\ m \notin Elems(bus)
    BY <1>3 DEF TypeInv, TypeOK, ConservationInv, Buffers, InBus
  <2>2. skipped' = skipped \/ \E h \in Elems(bus) : skipped' = skipped \cup {h}
    BY <1>1, <2>1, PublishFacts
  <2>3. QED
    BY <1>3, <2>1, <2>2
<1>6. InBus(m)' => Places(m)' = {"bus"}
  BY <1>1, <1>3, <1>4, <1>5
     DEF Places, PlaceNames, InBus, InDispatcher, InPending
<1>7. QED
  BY <1>1, <1>2, <1>3, <1>4, <1>6, PublishMoves

LEMMA RepublishMoves ==
  ASSUME TypeInv, ConservationInv, NEW m \in Messages, Republish(m)
  PROVE  \E h \in Messages : /\ Published(h, {"batch"})
                             /\ h \in sent /\ Buffers'
<1>1. handler \in [Messages -> Handler] /\ handler[m] \in Handler
  BY DEF TypeInv, TypeOK
<1>2. /\ handler[m].batch # <<>> /\ handler[m].batch \in Seq(Messages)
      /\ handler'[m].batch = Tail(handler[m].batch)
      /\ handler'[m].step =
           IF Len(handler[m].batch) = 1 THEN "done" ELSE "republish"
      /\ \A n \in Messages \ {m} : handler'[n] = handler[n]
      /\ Publish(Head(handler[m].batch))
      /\ UNCHANGED <<dispatcher, pending, injected, sent, discarded>>
  BY <1>1 DEF Republish, At, Handler, runtimeVars
<1>3. Len(handler[m].batch) = 1 => Tail(handler[m].batch) = <<>>
  <2> DEFINE s == handler[m].batch
             t == Tail(s)
  <2>1. s \in Seq(Messages) /\ s # <<>>
    BY <1>2
  <2> HIDE DEF s
  <2>2. t \in Seq(Messages) /\ Len(t) = Len(s) - 1
    BY <2>1, HeadTailProperties
  <2> HIDE DEF t
  <2>3. Len(s) = 1 => t = <<>>
    BY <2>2, EmptySeq
  <2>4. QED
    BY <2>3 DEF s, t
<1>4. PICK h \in Messages :
        /\ h = Head(handler[m].batch)
        /\ Places(h) = {"batch"}
        /\ \A x \in Messages : InBatch(x)' <=> InBatch(x) /\ x # h
        /\ \A x \in Messages : InHandler(x)' <=> InHandler(x)
        /\ Batches'
  BY <1>2, <1>3, TakeFirst
<1>5. /\ ~InBus(h) /\ ~InDispatcher(h) /\ ~InPending(h) /\ ~InHandler(h)
      /\ h \notin injected /\ h \notin skipped /\ h \notin discarded
      /\ h \in sent
  BY <1>4, FoundAt DEF ConservationInv, Places, PlaceNames
<1>6. Publish(h)
  BY <1>2, <1>4
<1>7. h \notin skipped'
  <2>1. bus \in Seq(Messages) /\ Distinct(bus) /\ h \notin Elems(bus)
    BY <1>5 DEF TypeInv, TypeOK, ConservationInv, Buffers, InBus
  <2>2. skipped' = skipped \/ \E x \in Elems(bus) : skipped' = skipped \cup {x}
    BY <1>6, <2>1, PublishFacts
  <2>3. QED
    BY <1>5, <2>1, <2>2
<1>8. InBus(h)' => Places(h)' = {"bus"}
  BY <1>2, <1>4, <1>5, <1>7
     DEF Places, PlaceNames, InBus, InDispatcher, InPending
<1>9. sent' = sent \cup {h}
  BY <1>2, <1>5
<1>10. Published(h, Places(h)) /\ Buffers'
  BY <1>2, <1>4, <1>5, <1>6, <1>8, <1>9, PublishMoves
<1>11. QED
  BY <1>4, <1>5, <1>10

LEMMA ConservationNext ==
  TypeInv /\ ConservationInv /\ [Next]_vars => ConservationInv'
<1> SUFFICES ASSUME TypeInv, ConservationInv, [Next]_vars
             PROVE  OnePlace' /\ Buffers'
  BY DEF ConservationInv
<1>0. PlaceNames = {"bus", "dispatcher", "pending", "batch", "handler",
                    "injected", "skipped", "discarded"}
  BY DEF PlaceNames
<1>1. ASSUME NEW m \in Messages, Send(m) PROVE OnePlace' /\ Buffers'
  BY <1>1, SendMoves, PublishedOnePlace DEF ConservationInv
<1>2. ASSUME \A n \in Messages : Places(n)' = Places(n), UNCHANGED sent
      PROVE  OnePlace'
  BY <1>2 DEF ConservationInv, OnePlace
<1>3. ASSUME NEW c \in Conversations, Cancel(c) PROVE OnePlace' /\ Buffers'
  <2>1. UNCHANGED <<bus, dispatcher, pending, handler, injected, ghostVars>>
    BY <1>3 DEF Cancel
  <2>2. \A n \in Messages : Places(n)' = Places(n)
    BY <2>1 DEF Places, InBus, InDispatcher, InPending, InBatch, InHandler,
                ghostVars
  <2>3. QED
    BY <1>2, <2>1, <2>2 DEF ConservationInv, Buffers, ghostVars
<1>4. CASE Receive
  BY <1>0, <1>4, ReceiveMoves, MovedOnePlace DEF ConservationInv
<1>5. CASE CheckActive
  BY <1>0, <1>2, <1>5, CheckMoves, MovedOnePlace DEF ConservationInv
<1>6. CASE PushPending
  BY <1>0, <1>6, PushMoves, MovedOnePlace DEF ConservationInv
<1>7. CASE Reset
  BY <1>0, <1>7, ResetMoves, MovedOnePlace DEF ConservationInv
<1>8. CASE Spawn
  BY <1>0, <1>8, SpawnMoves, MovedOnePlace DEF ConservationInv
<1>9. ASSUME NEW m \in Messages, QuietStep(m) PROVE OnePlace' /\ Buffers'
  BY <1>2, <1>9, QuietMoves
<1>10. ASSUME NEW m \in Messages, DrainPending(m) \/ FinalDrain(m)
       PROVE  OnePlace' /\ Buffers'
  BY <1>0, <1>10, DrainMoves, MovedOnePlace DEF ConservationInv
<1>11. ASSUME NEW m \in Messages, InjectNext(m) PROVE OnePlace' /\ Buffers'
  BY <1>0, <1>11, InjectMoves, MovedOnePlace DEF ConservationInv
<1>12. ASSUME NEW m \in Messages, Republish(m) PROVE OnePlace' /\ Buffers'
  BY <1>12, RepublishMoves, PublishedOnePlace DEF ConservationInv
<1>13. CASE UNCHANGED vars
  BY <1>2, <1>13
     DEF vars, ConservationInv, Buffers, Places, InBus, InDispatcher,
         InPending, InBatch, InHandler
<1>14. QED
  BY <1>1, <1>3, <1>4, <1>5, <1>6, <1>7, <1>8, <1>9, <1>10, <1>11, <1>12,
     <1>13 DEF Next, Dispatch, Handle, QuietStep

LEMMA ConservationCorrect == Spec => []ConservationInv
<1>1. Init => ConservationInv
  BY TypeInit, ConservationInit
<1>2. QED
  BY <1>1, TypeInvariant, ConservationNext, PTL DEF Spec

LEMMA OccurrencesCount ==
  ASSUME NEW S, NEW s \in Seq(S), Distinct(s), NEW m
  PROVE  Occurrences(s, m) = IF m \in Elems(s) THEN 1 ELSE 0
<1> DEFINE at == {i \in DOMAIN s : s[i] = m}
<1>1. DOMAIN s = 1 .. Len(s)
  BY LenProperties
<1>2. CASE m \in Elems(s)
  <2>1. PICK i \in DOMAIN s : s[i] = m
    BY <1>2 DEF Elems
  <2>2. at = {i}
    BY <1>1, <2>1 DEF Distinct
  <2>3. QED
    BY <1>2, <2>2, FS_Singleton DEF Occurrences
<1>3. CASE m \notin Elems(s)
  <2>1. at = {}
    BY <1>3 DEF Elems
  <2>2. QED
    BY <1>3, <2>1, FS_EmptySet DEF Occurrences
<1>4. QED
  BY <1>2, <1>3

\* Whatever the interleaving, every published message is in exactly one place
\* of the message path, and no buffer holds it twice: a message that is gone
\* was dropped by the lagging channel or by a reset, and by nothing else.
THEOREM Conservation == Spec => []MessagesConserved
<1>1. ASSUME TypeInv, ConservationInv PROVE MessagesConserved
  <2> SUFFICES ASSUME NEW m \in Messages
               PROVE  LET held == {n \in Messages :
                                     Occurrences(handler[n].batch, m) > 0}
                          places ==
                            { p \in {"bus", "dispatcher", "pending", "batch",
                                     "handler", "injected", "skipped",
                                     "discarded"} :
                              CASE p = "bus" -> m \in Elems(bus)
                                [] p = "dispatcher" -> dispatcher.step # "recv"
                                                       /\ dispatcher.msg = m
                                [] p = "pending" ->
                                     m \in Elems(pending[ConvOf[m]])
                                [] p = "batch" -> held # {}
                                [] p = "handler" -> handler[m].step # "none"
                                [] p = "injected" -> m \in injected
                                [] p = "skipped" -> m \in skipped
                                [] p = "discarded" -> m \in discarded }
                      IN /\ Cardinality(places) = IF m \in sent THEN 1 ELSE 0
                         /\ Occurrences(bus, m) <= 1
                         /\ \A c \in Conversations :
                              Occurrences(pending[c], m)
                                <= IF c = ConvOf[m] THEN 1 ELSE 0
                         /\ Cardinality(held) <= 1
                         /\ \A n \in held :
                              Occurrences(handler[n].batch, m) = 1
    BY DEF MessagesConserved
  <2> DEFINE held == {n \in Messages : Occurrences(handler[n].batch, m) > 0}
  <2>1. ASSUME NEW n \in Messages
        PROVE  Occurrences(handler[n].batch, m) =
                 IF m \in Elems(handler[n].batch) THEN 1 ELSE 0
    <3>1. handler[n].batch \in Seq(Messages) /\ Distinct(handler[n].batch)
      BY <1>1 DEF TypeInv, TypeOK, Handler, ConservationInv, Buffers
    <3>2. QED
      BY <3>1, OccurrencesCount
  <2>2. held = {n \in Messages : m \in Elems(handler[n].batch)}
    BY <2>1
  <2> HIDE DEF held
  <2>3. held # {} <=> InBatch(m)
    BY <2>2 DEF InBatch
  <2> DEFINE places ==
        { p \in {"bus", "dispatcher", "pending", "batch", "handler",
                 "injected", "skipped", "discarded"} :
          CASE p = "bus" -> m \in Elems(bus)
            [] p = "dispatcher" -> dispatcher.step # "recv"
                                   /\ dispatcher.msg = m
            [] p = "pending" -> m \in Elems(pending[ConvOf[m]])
            [] p = "batch" -> held # {}
            [] p = "handler" -> handler[m].step # "none"
            [] p = "injected" -> m \in injected
            [] p = "skipped" -> m \in skipped
            [] p = "discarded" -> m \in discarded }
  <2>4. places = Places(m)
    BY <2>3 DEF Places, PlaceNames, InBus, InDispatcher, InPending, InHandler
  <2>5. Cardinality(places) = IF m \in sent THEN 1 ELSE 0
    BY <1>1, <2>4, FS_Singleton, FS_EmptySet DEF ConservationInv, OnePlace
  <2>6. Occurrences(bus, m) <= 1
    <3>1. bus \in Seq(Messages) /\ Distinct(bus)
      BY <1>1 DEF TypeInv, TypeOK, ConservationInv, Buffers
    <3>2. QED
      BY <3>1, OccurrencesCount
  <2>7. ASSUME NEW c \in Conversations
        PROVE  Occurrences(pending[c], m) <= IF c = ConvOf[m] THEN 1 ELSE 0
    <3>1. /\ pending[c] \in Seq(Messages) /\ Distinct(pending[c])
          /\ m \in Elems(pending[c]) => ConvOf[m] = c
      BY <1>1 DEF TypeInv, TypeOK, ConservationInv, Buffers
    <3>2. QED
      BY <3>1, OccurrencesCount
  <2>8. Cardinality(held) <= 1
    <3>1. \A n, k \in held : n = k
      BY <1>1, <2>2 DEF ConservationInv, Buffers
    <3>2. held = {} \/ \E n \in held : held = {n}
      BY <3>1
    <3>3. ASSUME held = {} PROVE Cardinality(held) = 0
      BY <3>3, FS_EmptySet
    <3>4. ASSUME NEW n \in held, held = {n} PROVE Cardinality(held) = 1
      BY <3>4, FS_Singleton
    <3>5. Cardinality(held) = 0 \/ Cardinality(held) = 1
      BY <3>2, <3>3, <3>4
    <3>6. QED
      BY <3>5
  <2>9. \A n \in held : Occurrences(handler[n].batch, m) = 1
    BY <2>1, <2>2
  <2>10. QED
    BY <2>5, <2>6, <2>7, <2>8, <2>9 DEF held
<1>2. QED
  BY <1>1, TypeInvariant, ConservationCorrect, PTL

-----------------------------------------------------------------------------
(* Replies: a handler publishes one, as its last act before it gives its   *)
(* conversation back.                                                      *)

AnswerInv ==
  \A m \in Messages :
    /\ handler[m].step \in (OwningSteps \cup {"none"}) \ {"deactivate"} =>
         m \notin answered
    /\ handler[m].step = "deactivate" => m \in answered

\* What a step of a handler does to its reply: it goes on without one,
\* publishes it, or ends after it.
GoesOn(m) ==
  /\ UNCHANGED answered
  /\ Owns(m)' <=> Owns(m)
  /\ handler[m].step # "deactivate" /\ handler'[m].step # "deactivate"

Replies(m) ==
  /\ answered' = answered \cup {m}
  /\ Owns(m) /\ handler[m].step # "deactivate"
  /\ handler'[m].step = "deactivate"

Ends(m) ==
  /\ UNCHANGED answered
  /\ handler[m].step = "deactivate" /\ handler'[m].step = "final_drain"

ReplyFrame(m) ==
  /\ \A n \in Messages \ {m} : handler'[n] = handler[n]
  /\ handler[m].step # "none" /\ handler'[m].step # "none"
  /\ GoesOn(m) \/ Replies(m) \/ Ends(m)

LEMMA HandleReplies ==
  ASSUME TypeInv, NEW m \in Messages, Handle(m)
  PROVE  ReplyFrame(m)
<1> USE DEF ReplyFrame, GoesOn, Replies, Ends, At, Goto, Leave, Fail, Owns,
            OwningSteps, NoHandler, runtimeVars, ghostVars
<1>1. handler \in [Messages -> Handler] /\ handler[m] \in Handler
  BY DEF TypeInv, TypeOK
<1>2. CASE PersistUserMessage(m)
  BY <1>1, <1>2 DEF PersistUserMessage, Handler
<1>3. CASE LoadHistory(m)
  BY <1>1, <1>3 DEF LoadHistory, Handler
<1>4. CASE Stream(m)
  BY <1>1, <1>4 DEF Stream, Handler
<1>5. CASE StartLoop(m)
  BY <1>1, <1>5 DEF StartLoop, Handler
<1>6. CASE DrainPending(m)
  BY <1>1, <1>6 DEF DrainPending, Handler
<1>7. CASE InjectNext(m)
  BY <1>1, <1>7 DEF InjectNext, Handler
<1>8. CASE BeginTurn(m)
  BY <1>1, <1>8 DEF BeginTurn, Handler
<1>9. CASE LlmReturns(m)
  BY <1>1, <1>9 DEF LlmReturns, Handler
<1>10. CASE ToolsReturn(m)
  BY <1>1, <1>10 DEF ToolsReturn, Handler
<1>11. CASE ToolPanics(m)
  BY <1>1, <1>11 DEF ToolPanics, Handler
<1>12. CASE Finalize(m)
  BY <1>1, <1>12 DEF Finalize, Handler
<1>13. CASE Deactivate(m)
  BY <1>1, <1>13 DEF Deactivate, Handler
<1>14. CASE FinalDrain(m)
  BY <1>1, <1>14 DEF FinalDrain, Handler
<1>15. CASE Republish(m)
  BY <1>1, <1>15 DEF Republish, Handler
<1>16. QED
  BY <1>2, <1>3, <1>4, <1>5, <1>6, <1>7, <1>8, <1>9, <1>10, <1>11, <1>12,
     <1>13, <1>14, <1>15 DEF Handle

\* A message that run_loop is about to give a handler has none yet.
LEMMA SpawnIsFresh ==
  ASSUME TypeInv, ConservationInv, Spawn
  PROVE  \E m \in Messages :
           /\ dispatcher.msg = m /\ handler[m].step = "none"
           /\ handler'[m].step = "start"
           /\ \A n \in Messages \ {m} : handler'[n] = handler[n]
           /\ active' = [active EXCEPT ![ConvOf[m]] = TRUE]
           /\ UNCHANGED <<pending, token, cancelled, history, answered,
                          injected, earlier>>
<1>1. PICK m \in Messages : /\ dispatcher.msg = m
                            /\ Moved({m}, "dispatcher", "handler")
  BY SpawnMoves
<1>2. handler[m].step = "none"
  BY <1>1 DEF Moved, Places, PlaceNames, InHandler
<1>3. handler' = [handler EXCEPT ![m] = NewHandler]
  BY <1>1 DEF Spawn
<1>4. NewHandler.step = "start"
  BY DEF NewHandler, NoHandler
<1>5. /\ handler'[m].step = "start"
      /\ \A n \in Messages \ {m} : handler'[n] = handler[n]
  BY <1>3, <1>4 DEF TypeInv, TypeOK
<1>6. /\ active' = [active EXCEPT ![ConvOf[m]] = TRUE]
      /\ UNCHANGED <<pending, token, cancelled, history, answered, injected,
                     earlier>>
  BY <1>1 DEF Spawn, ghostVars
<1>7. QED
  BY <1>1, <1>2, <1>5, <1>6

LEMMA AnswerNext ==
  TypeInv /\ ConservationInv /\ AnswerInv /\ [Next]_vars => AnswerInv'
<1> SUFFICES ASSUME TypeInv, ConservationInv, AnswerInv, [Next]_vars
             PROVE  AnswerInv'
  OBVIOUS
<1>1. ASSUME UNCHANGED <<handler, answered>> PROVE AnswerInv'
  BY <1>1 DEF AnswerInv
<1>2. ASSUME NEW m \in Messages, Send(m) PROVE AnswerInv'
  BY <1>1, <1>2 DEF Send
<1>3. ASSUME NEW c \in Conversations, Cancel(c) PROVE AnswerInv'
  BY <1>1, <1>3 DEF Cancel
<1>4. CASE Receive \/ CheckActive \/ PushPending \/ Reset
  BY <1>1, <1>4 DEF Receive, CheckActive, PushPending, Reset
<1>5. CASE Spawn
  <2>1. PICK m \in Messages :
          /\ handler[m].step = "none" /\ handler'[m].step = "start"
          /\ \A n \in Messages \ {m} : handler'[n] = handler[n]
          /\ UNCHANGED answered
    BY <1>5, SpawnIsFresh
  <2>2. QED
    BY <2>1 DEF AnswerInv
<1>6. ASSUME NEW m \in Messages, Handle(m) PROVE AnswerInv'
  <2>1. ReplyFrame(m)
    BY <1>6, HandleReplies
  <2>2. QED
    BY <2>1 DEF ReplyFrame, GoesOn, Replies, Ends, AnswerInv, Owns,
                OwningSteps
<1>7. CASE UNCHANGED vars
  BY <1>1, <1>7 DEF vars
<1>8. QED
  BY <1>2, <1>3, <1>4, <1>5, <1>6, <1>7 DEF Next, Dispatch

LEMMA AnswerCorrect == Spec => []AnswerInv
<1>1. Init => AnswerInv
  BY DEF Init, AnswerInv, NoHandler
<1>2. QED
  BY <1>1, TypeInvariant, ConservationCorrect, AnswerNext, PTL DEF Spec

-----------------------------------------------------------------------------
(* The dispatcher and its handlers implement ConversationTurns.            *)

\* The abstract stage of a message by the place it is in.
StageAt(P) ==
  IF P = {} THEN "new"
  ELSE IF P \in {{"skipped"}, {"discarded"}} THEN "lost"
  ELSE IF P \in {{"handler"}, {"injected"}} THEN "taken"
  ELSE "waiting"

StageFacts == \A m \in Messages : StageOf(m) = StageAt(Places(m))

LEMMA StageByPlace == ConservationInv => StageFacts
<1> SUFFICES ASSUME ConservationInv, NEW m \in Messages
             PROVE  StageOf(m) = StageAt(Places(m))
  BY DEF StageFacts
<1>1. /\ m \in skipped <=> "skipped" \in Places(m)
      /\ m \in discarded <=> "discarded" \in Places(m)
      /\ m \in injected <=> "injected" \in Places(m)
      /\ handler[m].step # "none" <=> "handler" \in Places(m)
  BY DEF Places, PlaceNames, InHandler
<1>2. CASE m \notin sent
  BY <1>1, <1>2 DEF ConservationInv, OnePlace, StageOf, StageAt
<1>3. CASE m \in sent
  <2>1. PICK p \in PlaceNames : Places(m) = {p}
    BY <1>3 DEF ConservationInv, OnePlace
  <2>2. StageOf(m) = CASE p \in {"skipped", "discarded"} -> "lost"
                       [] p \in {"handler", "injected"} -> "taken"
                       [] OTHER -> "waiting"
    BY <1>1, <1>3, <2>1 DEF StageOf
  <2>3. QED
    BY <2>1, <2>2 DEF StageAt, PlaceNames
<1>4. QED
  BY <1>2, <1>3

\* The abstract turn of a conversation is its owner.
TurnFacts ==
  \A c \in Conversations :
    /\ \A m \in Messages : Owns(m) /\ ConvOf[m] = c => TurnOf(c) = m
    /\ (\A m \in Messages : ConvOf[m] = c => ~Owns(m)) => TurnOf(c) = None

LEMMA TurnByOwner == ExclusionInv => TurnFacts
<1> SUFFICES ASSUME ExclusionInv, NEW c \in Conversations
             PROVE  /\ \A m \in Messages :
                         Owns(m) /\ ConvOf[m] = c => TurnOf(c) = m
                    /\ (\A m \in Messages : ConvOf[m] = c => ~Owns(m)) =>
                         TurnOf(c) = None
  BY DEF TurnFacts
<1> DEFINE owners == {m \in Messages : ConvOf[m] = c /\ Owns(m)}
<1>1. ASSUME NEW m \in Messages, Owns(m), ConvOf[m] = c PROVE TurnOf(c) = m
  <2>1. owners = {m}
    BY <1>1 DEF ExclusionInv
  <2>2. QED
    BY <2>1 DEF TurnOf
<1>2. ASSUME \A m \in Messages : ConvOf[m] = c => ~Owns(m)
      PROVE  TurnOf(c) = None
  BY <1>2 DEF TurnOf
<1>3. QED
  BY <1>1, <1>2

\* Both in the two states of a step.
TurnsInv == TypeInv /\ ExclusionInv /\ ConservationInv /\ AnswerInv

LEMMA ViewFacts ==
  TurnsInv /\ [Next]_vars =>
    /\ StageFacts /\ StageFacts' /\ TurnFacts /\ TurnFacts'
    /\ TurnsInv'
<1>1. TurnsInv => StageFacts /\ TurnFacts
  BY StageByPlace, TurnByOwner DEF TurnsInv
<1>2. TurnsInv /\ [Next]_vars => TurnsInv'
  BY TypeNext, ExclusionNext, ConservationNext, AnswerNext DEF TurnsInv
<1>3. QED
  BY <1>1, <1>2, PTL

\* A step that changes no owner changes no abstract turn.
LEMMA SameTurns ==
  ASSUME TurnFacts, TurnFacts', \A n \in Messages : Owns(n)' <=> Owns(n)
  PROVE  \A c \in Conversations : TurnOf(c)' = TurnOf(c)
BY DEF TurnFacts

\* The abstract step of a concrete one, from what happens to the stages and
\* the turns.
SameStages == \A n \in Messages : StageOf(n)' = StageOf(n)

LEMMA AbstractStutter ==
  ASSUME TurnFacts, TurnFacts', SameStages, \A n \in Messages : Owns(n)' <=> Owns(n),
         UNCHANGED answered
  PROVE  [Turns!Next]_(Turns!tvars)
<1>1. \A c \in Conversations : TurnOf(c)' = TurnOf(c)
  BY SameTurns
<1>2. [m \in Messages |-> StageOf(m)]' = [m \in Messages |-> StageOf(m)]
  BY DEF SameStages
<1>3. [c \in Conversations |-> TurnOf(c)]' = [c \in Conversations |-> TurnOf(c)]
  BY <1>1
<1>4. QED
  BY <1>2, <1>3 DEF Turns!tvars

LEMMA AbstractLose ==
  ASSUME TurnFacts, TurnFacts', NEW ms \in SUBSET Messages,
         \A n \in ms : StageOf(n) = "waiting" /\ StageOf(n)' = "lost",
         \A n \in Messages \ ms : StageOf(n)' = StageOf(n),
         \A n \in Messages : Owns(n)' <=> Owns(n),
         UNCHANGED answered
  PROVE  [Turns!Next]_(Turns!tvars)
<1>1. CASE ms = {}
  BY <1>1, AbstractStutter DEF SameStages
<1>2. CASE ms # {}
  <2>1. \A c \in Conversations : TurnOf(c)' = TurnOf(c)
    BY SameTurns
  <2>2. [m \in Messages |-> StageOf(m)]' =
          [m \in Messages |-> IF m \in ms THEN "lost"
                              ELSE [k \in Messages |-> StageOf(k)][m]]
    OBVIOUS
  <2>3. [c \in Conversations |-> TurnOf(c)]' = [c \in Conversations |-> TurnOf(c)]
    BY <2>1
  <2>4. \A n \in ms : [k \in Messages |-> StageOf(k)][n] = "waiting"
    OBVIOUS
  <2>5. Turns!Lose(ms)
    BY <1>2, <2>2, <2>3, <2>4 DEF Turns!Lose
  <2>6. QED
    BY <2>5 DEF Turns!Next
<1>3. QED
  BY <1>1, <1>2

LEMMA StageNames ==
  /\ StageAt({}) = "new"
  /\ \A p \in {"bus", "dispatcher", "pending", "batch"} :
       StageAt({p}) = "waiting"
  /\ \A p \in {"handler", "injected"} : StageAt({p}) = "taken"
  /\ \A p \in {"skipped", "discarded"} : StageAt({p}) = "lost"
BY DEF StageAt

\* A message that moves between two waiting places keeps its stage.
LEMMA MovedStages ==
  ASSUME StageFacts, StageFacts', NEW S, NEW from, NEW to, Moved(S, from, to)
  PROVE  /\ \A n \in Messages \cap S : /\ StageOf(n) = StageAt({from})
                                       /\ StageOf(n)' = StageAt({to})
         /\ \A n \in Messages \ S : StageOf(n)' = StageOf(n)
BY DEF StageFacts, Moved

LEMMA SendRefines ==
  ASSUME TurnsInv, [Next]_vars, NEW m \in Messages, Send(m)
  PROVE  [Turns!Next]_(Turns!tvars)
<1>1. StageFacts /\ StageFacts' /\ TurnFacts /\ TurnFacts'
  BY ViewFacts
<1>2. UNCHANGED <<handler, answered>>
  BY DEF Send
<1>3. \A c \in Conversations : TurnOf(c)' = TurnOf(c)
  BY <1>1, <1>2, SameTurns DEF Owns
<1>4. PICK lost \in SUBSET (Messages \ {m}) :
        /\ lost = {} \/ \E h \in Messages : lost = {h}
        /\ \A n \in lost : Places(n) = {"bus"} /\ Places(n)' = {"skipped"}
        /\ \A n \in Messages \ (lost \cup {m}) : Places(n)' = Places(n)
        /\ Places(m) = {} /\ Places(m)' = {"bus"}
  BY SendMoves DEF TurnsInv, Published
<1>5. /\ StageOf(m) = "new" /\ StageOf(m)' = "waiting"
      /\ \A n \in lost : StageOf(n) = "waiting" /\ StageOf(n)' = "lost"
      /\ \A n \in Messages \ (lost \cup {m}) : StageOf(n)' = StageOf(n)
  BY <1>1, <1>4, StageNames DEF StageFacts
<1> DEFINE stage == [k \in Messages |-> StageOf(k)]
<1>6. /\ stage[m] = "new"
      /\ \A n \in lost : stage[n] = "waiting"
      /\ stage' = [n \in Messages |-> IF n = m THEN "waiting"
                                      ELSE IF n \in lost THEN "lost"
                                      ELSE stage[n]]
  BY <1>4, <1>5
<1>7. lost \in {{}} \cup {{n} : n \in Messages}
  BY <1>4
<1>8. UNCHANGED <<[c \in Conversations |-> TurnOf(c)], answered>>
  BY <1>2, <1>3
<1>9. Turns!Submit(m)
  BY <1>6, <1>7, <1>8 DEF Turns!Submit
<1>10. QED
  BY <1>9 DEF Turns!Next

LEMMA SpawnRefines ==
  ASSUME TurnsInv, [Next]_vars, Spawn
  PROVE  [Turns!Next]_(Turns!tvars)
<1>1. StageFacts /\ StageFacts' /\ TurnFacts /\ TurnFacts'
  BY ViewFacts
<1>2. PICK m \in Messages :
        /\ dispatcher.msg = m /\ Moved({m}, "dispatcher", "handler")
  BY SpawnMoves DEF TurnsInv
<1>3. /\ handler[m].step = "none" /\ handler'[m].step = "start"
      /\ \A n \in Messages \ {m} : handler'[n] = handler[n]
      /\ UNCHANGED answered
  BY <1>2, SpawnIsFresh DEF TurnsInv
<1>4. ConvOf[m] \in Conversations /\ ~active[ConvOf[m]]
  BY <1>2, DispatchAssumption DEF Spawn, TurnsInv, ExclusionInv
<1>5. \A n \in Messages : ConvOf[n] = ConvOf[m] => ~Owns(n)
  BY <1>4 DEF TurnsInv, ExclusionInv
<1>6. Owns(m)' /\ \A n \in Messages \ {m} : Owns(n)' <=> Owns(n)
  BY <1>3 DEF Owns, OwningSteps
<1>7. TurnOf(ConvOf[m]) = None /\ TurnOf(ConvOf[m])' = m
  BY <1>1, <1>4, <1>5, <1>6 DEF TurnFacts
<1>8. ASSUME NEW c \in Conversations \ {ConvOf[m]}
      PROVE  TurnOf(c)' = TurnOf(c)
  BY <1>1, <1>6 DEF TurnFacts
<1>9. /\ StageOf(m) = "waiting" /\ StageOf(m)' = "taken"
      /\ \A n \in Messages \ {m} : StageOf(n)' = StageOf(n)
  BY <1>1, <1>2, MovedStages, StageNames
<1> DEFINE stage == [k \in Messages |-> StageOf(k)]
           turn == [c \in Conversations |-> TurnOf(c)]
<1>10. stage[m] = "waiting" /\ stage' = [stage EXCEPT ![m] = "taken"]
  BY <1>9
<1>11. turn[ConvOf[m]] = None /\ turn' = [turn EXCEPT ![ConvOf[m]] = m]
  BY <1>4, <1>7, <1>8
<1>12. Turns!Open(m)
  BY <1>3, <1>10, <1>11 DEF Turns!Open, Turns!Move
<1>13. QED
  BY <1>12 DEF Turns!Next

LEMMA InjectRefines ==
  ASSUME TurnsInv, [Next]_vars, NEW m \in Messages, InjectNext(m)
  PROVE  [Turns!Next]_(Turns!tvars)
<1>1. StageFacts /\ StageFacts' /\ TurnFacts /\ TurnFacts'
  BY ViewFacts
<1>2. PICK h \in Messages :
        /\ h = Head(handler[m].batch) /\ Moved({h}, "batch", "injected")
  BY InjectMoves DEF TurnsInv
<1>3. Handle(m) /\ handler[m].step = "inject" /\ UNCHANGED answered
  BY DEF Handle, InjectNext, At
<1>4. handler'[m].step = "inject" /\ \A n \in Messages \ {m} : handler'[n] = handler[n]
  <2>1. handler \in [Messages -> Handler] /\ handler[m] \in Handler
    BY DEF TurnsInv, TypeInv, TypeOK
  <2>2. QED
    BY <1>3, <2>1 DEF InjectNext, Handler
<1>5. Owns(m) /\ \A n \in Messages : Owns(n)' <=> Owns(n)
  BY <1>3, <1>4 DEF Owns, OwningSteps
<1>6. \A c \in Conversations : TurnOf(c)' = TurnOf(c)
  BY <1>1, <1>5, SameTurns
<1>7. ConvOf[h] = ConvOf[m] /\ ConvOf[m] \in Conversations
  <2>1. handler[m].batch \in Seq(Messages) /\ handler[m].batch # <<>>
    BY DEF InjectNext, TurnsInv, TypeInv, TypeOK, Handler
  <2>2. h \in Elems(handler[m].batch)
    BY <1>2, <2>1, ElemsTail
  <2>3. QED
    BY <2>2, DispatchAssumption DEF TurnsInv, ConservationInv, Buffers
<1>8. TurnOf(ConvOf[h]) # None
  BY <1>1, <1>5, <1>7, DispatchAssumption DEF TurnFacts
<1>9. /\ StageOf(h) = "waiting" /\ StageOf(h)' = "taken"
      /\ \A n \in Messages \ {h} : StageOf(n)' = StageOf(n)
  BY <1>1, <1>2, MovedStages, StageNames
<1> DEFINE stage == [k \in Messages |-> StageOf(k)]
           turn == [c \in Conversations |-> TurnOf(c)]
<1>10. stage[h] = "waiting" /\ stage' = [stage EXCEPT ![h] = "taken"]
  BY <1>9
<1>11. turn[ConvOf[h]] # None /\ turn' = turn
  BY <1>6, <1>7, <1>8
<1>12. Turns!Join(h)
  BY <1>3, <1>10, <1>11 DEF Turns!Join, Turns!Move
<1>13. QED
  BY <1>12 DEF Turns!Next

\* The steps that move no message.
LEMMA QuietRefines ==
  ASSUME TurnsInv, [Next]_vars, NEW m \in Messages, QuietStep(m)
  PROVE  [Turns!Next]_(Turns!tvars)
<1>1. StageFacts /\ StageFacts' /\ TurnFacts /\ TurnFacts'
  BY ViewFacts
<1>2. \A n \in Messages : Places(n)' = Places(n)
  BY QuietMoves DEF TurnsInv
<1>3. SameStages
  BY <1>1, <1>2 DEF SameStages, StageFacts
<1>4. ReplyFrame(m)
  BY HandleReplies DEF TurnsInv, QuietStep, Handle
<1>5. \A n \in Messages \ {m} : Owns(n)' <=> Owns(n)
  BY <1>4 DEF ReplyFrame, Owns
<1>6. ConvOf[m] \in Conversations
  BY DispatchAssumption
<1> DEFINE stage == [k \in Messages |-> StageOf(k)]
           turn == [c \in Conversations |-> TurnOf(c)]
<1>7. stage' = stage
  BY <1>3 DEF SameStages
<1>8. CASE GoesOn(m)
  BY <1>1, <1>3, <1>5, <1>8, AbstractStutter DEF GoesOn
<1>9. CASE Replies(m)
  <2>1. Owns(m) /\ Owns(m)' /\ m \notin answered /\ answered' = answered \cup {m}
    BY <1>9 DEF Replies, Owns, OwningSteps, TurnsInv, AnswerInv
  <2>2. \A c \in Conversations : TurnOf(c)' = TurnOf(c)
    BY <1>1, <1>5, <2>1, SameTurns
  <2>3. turn[ConvOf[m]] = m /\ turn' = turn
    BY <1>1, <1>6, <2>1, <2>2 DEF TurnFacts
  <2>4. Turns!Reply(m)
    BY <1>7, <2>1, <2>3 DEF Turns!Reply
  <2>5. QED
    BY <2>4 DEF Turns!Next
<1>10. CASE Ends(m)
  <2>1. /\ Owns(m) /\ ~Owns(m)' /\ m \in answered /\ UNCHANGED answered
    BY <1>10 DEF Ends, Owns, OwningSteps, TurnsInv, AnswerInv
  <2>2. \A n \in Messages : ConvOf[n] = ConvOf[m] => ~Owns(n)'
    BY <1>5, <2>1 DEF TurnsInv, ExclusionInv
  <2>3. TurnOf(ConvOf[m]) = m /\ TurnOf(ConvOf[m])' = None
    BY <1>1, <1>6, <2>1, <2>2 DEF TurnFacts
  <2>4. ASSUME NEW c \in Conversations \ {ConvOf[m]}
        PROVE  TurnOf(c)' = TurnOf(c)
    BY <1>1, <1>5 DEF TurnFacts
  <2>5. turn[ConvOf[m]] = m /\ turn' = [turn EXCEPT ![ConvOf[m]] = None]
    BY <1>6, <2>3, <2>4
  <2>6. Turns!End(m)
    BY <1>7, <2>1, <2>5 DEF Turns!End
  <2>7. QED
    BY <2>6 DEF Turns!Next
<1>11. QED
  BY <1>4, <1>8, <1>9, <1>10 DEF ReplyFrame

\* The drains and the republication change neither owner nor reply.
LEMMA HandOverFrame ==
  ASSUME TypeInv, NEW m \in Messages,
         DrainPending(m) \/ FinalDrain(m) \/ Republish(m)
  PROVE  UNCHANGED answered /\ \A n \in Messages : Owns(n)' <=> Owns(n)
<1>1. handler \in [Messages -> Handler] /\ handler[m] \in Handler
  BY DEF TypeInv, TypeOK
<1>2. /\ \A n \in Messages \ {m} : handler'[n] = handler[n]
      /\ UNCHANGED answered
      /\ handler[m].step \in OwningSteps <=> handler'[m].step \in OwningSteps
  <2>1. CASE DrainPending(m)
    BY <1>1, <2>1 DEF DrainPending, At, Handler, OwningSteps
  <2>2. CASE FinalDrain(m)
    BY <1>1, <2>2 DEF FinalDrain, At, Handler, OwningSteps
  <2>3. CASE Republish(m)
    BY <1>1, <2>3 DEF Republish, At, Handler, OwningSteps
  <2>4. QED
    BY <2>1, <2>2, <2>3
<1>3. QED
  BY <1>2 DEF Owns

LEMMA TurnsStep ==
  ASSUME TurnsInv, [Next]_vars
  PROVE  [Turns!Next]_(Turns!tvars)
<1>1. StageFacts /\ StageFacts' /\ TurnFacts /\ TurnFacts'
  BY ViewFacts
<1>2. ASSUME \A n \in Messages : Places(n)' = Places(n),
             UNCHANGED <<handler, answered>>
      PROVE  [Turns!Next]_(Turns!tvars)
  BY <1>1, <1>2, AbstractStutter DEF SameStages, StageFacts, Owns
<1>3. ASSUME NEW S, NEW from, NEW to, Moved(S, from, to),
             from \in {"bus", "dispatcher", "pending", "batch"},
             to \in {"bus", "dispatcher", "pending", "batch"},
             \A n \in Messages : Owns(n)' <=> Owns(n), UNCHANGED answered
      PROVE  [Turns!Next]_(Turns!tvars)
  <2>1. StageAt({from}) = "waiting" /\ StageAt({to}) = "waiting"
    BY <1>3, StageNames
  <2>2. /\ \A n \in Messages \cap S : StageOf(n)' = StageOf(n)
        /\ \A n \in Messages \ S : StageOf(n)' = StageOf(n)
    BY <1>1, <1>3, <2>1, MovedStages
  <2>3. SameStages
    BY <2>2 DEF SameStages
  <2>4. QED
    BY <1>1, <1>3, <2>3, AbstractStutter
<1>4. ASSUME NEW c \in Conversations, Cancel(c)
      PROVE  [Turns!Next]_(Turns!tvars)
  BY <1>2, <1>4
     DEF Cancel, Places, InBus, InDispatcher, InPending, InBatch, InHandler,
         ghostVars
<1>5. CASE Receive
  <2>1. \E m \in Messages : Moved({m}, "bus", "dispatcher")
    BY <1>5, ReceiveMoves DEF TurnsInv
  <2>2. UNCHANGED <<handler, answered>>
    BY <1>5 DEF Receive
  <2>3. QED
    BY <1>3, <2>1, <2>2 DEF Owns
<1>6. CASE CheckActive
  <2>1. UNCHANGED <<handler, answered>>
    BY <1>6 DEF CheckActive
  <2>2. CASE \A n \in Messages : Places(n)' = Places(n)
    BY <1>2, <2>1, <2>2
  <2>3. CASE \E m \in Messages : Moved({m}, "dispatcher", "discarded")
    <3>1. PICK m \in Messages : Moved({m}, "dispatcher", "discarded")
      BY <2>3
    <3>2. /\ \A n \in {m} : StageOf(n) = "waiting" /\ StageOf(n)' = "lost"
          /\ \A n \in Messages \ {m} : StageOf(n)' = StageOf(n)
      BY <1>1, <3>1, MovedStages, StageNames
    <3>3. {m} \in SUBSET Messages
      OBVIOUS
    <3>4. QED
      BY <1>1, <2>1, <3>2, <3>3, AbstractLose DEF Owns
  <2>4. QED
    BY <1>6, <2>2, <2>3, CheckMoves DEF TurnsInv
<1>7. CASE PushPending
  <2>1. \E m \in Messages : Moved({m}, "dispatcher", "pending")
    BY <1>7, PushMoves DEF TurnsInv
  <2>2. UNCHANGED <<handler, answered>>
    BY <1>7 DEF PushPending
  <2>3. QED
    BY <1>3, <2>1, <2>2 DEF Owns
<1>8. CASE Reset
  <2>1. PICK c \in Conversations :
          Moved(Elems(pending[c]), "pending", "discarded")
    BY <1>8, ResetMoves DEF TurnsInv
  <2>2. UNCHANGED <<handler, answered>>
    BY <1>8 DEF Reset
  <2>3. PICK ms : ms = Elems(pending[c])
    OBVIOUS
  <2>4. ms \in SUBSET Messages
    BY <2>3, ElemsType DEF TurnsInv, TypeInv, TypeOK
  <2>5. Moved(ms, "pending", "discarded")
    BY <2>1, <2>3
  <2>6. /\ \A n \in ms : StageOf(n) = "waiting" /\ StageOf(n)' = "lost"
        /\ \A n \in Messages \ ms : StageOf(n)' = StageOf(n)
    BY <1>1, <2>4, <2>5, MovedStages, StageNames
  <2>7. QED
    BY <1>1, <2>2, <2>4, <2>6, AbstractLose DEF Owns
<1>9. ASSUME NEW m \in Messages, DrainPending(m) \/ FinalDrain(m)
      PROVE  [Turns!Next]_(Turns!tvars)
  <2>1. Moved(Elems(pending[ConvOf[m]]), "pending", "batch")
    BY <1>9, DrainMoves DEF TurnsInv
  <2>2. PICK S : S = Elems(pending[ConvOf[m]])
    OBVIOUS
  <2>3. Moved(S, "pending", "batch")
    BY <2>1, <2>2
  <2>4. QED
    BY <1>3, <1>9, <2>3, HandOverFrame DEF TurnsInv
<1>10. ASSUME NEW m \in Messages, Republish(m)
       PROVE  [Turns!Next]_(Turns!tvars)
  <2>1. PICK h \in Messages : Published(h, {"batch"})
    BY <1>10, RepublishMoves DEF TurnsInv
  <2>2. PICK lost \in SUBSET (Messages \ {h}) :
          /\ \A n \in lost : Places(n) = {"bus"} /\ Places(n)' = {"skipped"}
          /\ \A n \in Messages \ (lost \cup {h}) : Places(n)' = Places(n)
          /\ Places(h) = {"batch"} /\ Places(h)' = {"bus"}
    BY <2>1 DEF Published
  <2>3. /\ \A n \in lost : StageOf(n) = "waiting" /\ StageOf(n)' = "lost"
        /\ \A n \in Messages \ (lost \cup {h}) : StageOf(n)' = StageOf(n)
        /\ StageOf(h)' = StageOf(h)
    BY <1>1, <2>2, StageNames DEF StageFacts
  <2>4. \A n \in Messages \ lost : StageOf(n)' = StageOf(n)
    BY <2>3
  <2>5. UNCHANGED answered /\ \A n \in Messages : Owns(n)' <=> Owns(n)
    BY <1>10, HandOverFrame DEF TurnsInv
  <2>6. QED
    BY <1>1, <2>2, <2>3, <2>4, <2>5, AbstractLose
<1>11. CASE UNCHANGED vars
  BY <1>2, <1>11 DEF vars, Places, InBus, InDispatcher, InPending, InBatch,
                     InHandler
<1>12. QED
  BY <1>4, <1>5, <1>6, <1>7, <1>8, <1>9, <1>10, <1>11, SendRefines,
     SpawnRefines, InjectRefines, QuietRefines
     DEF Next, Dispatch, Handle, QuietStep

LEMMA TurnsInit == Init => Turns!Init
<1> SUFFICES ASSUME Init PROVE Turns!Init
  OBVIOUS
<1>1. ASSUME NEW m \in Messages PROVE StageOf(m) = "new"
  <2>1. /\ m \notin sent /\ m \notin skipped \cup discarded
        /\ ~(handler[m].step # "none" \/ m \in injected)
    BY DEF Init, NoHandler
  <2>2. QED
    BY <2>1 DEF StageOf
<1>2. \A c \in Conversations : TurnOf(c) = None
  BY DEF Init, TurnOf, Owns, OwningSteps, NoHandler
<1>3. QED
  BY <1>1, <1>2 DEF Init, Turns!Init

\* The message path implements its abstract specification: a message taken
\* into a turn is never lost, the turns of a conversation exclude one another,
\* and a turn replies exactly once before it ends.
THEOREM DispatchImplementsTurns == Spec => ImplementsTurns
<1>1. Spec => []TurnsInv
  BY TypeInvariant, ExclusionCorrect, ConservationCorrect, AnswerCorrect, PTL
     DEF TurnsInv
<1>2. TurnsInv /\ [Next]_vars => [Turns!Next]_(Turns!tvars)
  BY TurnsStep
<1>3. QED
  BY <1>1, <1>2, TurnsInit, PTL DEF Spec, ImplementsTurns, Turns!Spec

-----------------------------------------------------------------------------
(* The messages file: turns do not interleave.                             *)

\* Only a turn that has started writes, and it writes to its own
\* conversation; the entries of a turn are contiguous; and as long as a turn
\* owns its conversation nothing is written after its entries but by itself.
FileInv ==
  \A c \in Conversations :
    /\ \A i \in 1 .. Len(history[c]) :
         LET t == history[c][i].turn IN
           ConvOf[t] = c /\ handler[t].step # "none"
    /\ \A i, j, k \in 1 .. Len(history[c]) :
         i < j /\ j < k /\ history[c][i].turn = history[c][k].turn =>
           history[c][j].turn = history[c][i].turn
    /\ \A t \in Messages : ConvOf[t] = c /\ Owns(t) =>
         \A i, j \in 1 .. Len(history[c]) :
           i < j /\ history[c][i].turn = t => history[c][j].turn = t

\* What a step of a handler writes: at most one entry, of its own turn.
Writes(m, e) ==
  /\ Owns(m) /\ Owns(m)' /\ e \in Entry /\ e.turn = m
  /\ history' = [history EXCEPT ![ConvOf[m]] = Append(@, e)]

LEMMA HandleWrites ==
  ASSUME TypeInv, NEW m \in Messages, Handle(m)
  PROVE  \/ UNCHANGED history
         \/ \E e : Writes(m, e)
<1>1. handler \in [Messages -> Handler] /\ handler[m] \in Handler
  BY DEF TypeInv, TypeOK
<1>2. ASSUME NEW role \in {"user", "assistant"}, NEW a \in Messages,
             Append_message(role, a, m), Owns(m), Owns(m)'
      PROVE  UNCHANGED history \/ \E e : Writes(m, e)
  <2> DEFINE e == [role |-> role, msg |-> a, turn |-> m]
  <2>1. e \in Entry /\ e.turn = m
    BY DEF Entry
  <2>2. \/ UNCHANGED history
        \/ history' = [history EXCEPT ![ConvOf[m]] = Append(@, e)]
    BY <1>2 DEF Append_message
  <2> HIDE DEF e
  <2>3. QED
    BY <1>2, <2>1, <2>2 DEF Writes
<1>3. CASE PersistUserMessage(m)
  <2>1. Owns(m) /\ Owns(m)'
    BY <1>1, <1>3 DEF PersistUserMessage, At, Goto, Owns, OwningSteps, Handler
  <2>2. QED
    BY <1>2, <1>3, <2>1 DEF PersistUserMessage
<1>4. CASE InjectNext(m)
  <2>1. Owns(m) /\ Owns(m)'
    BY <1>1, <1>4 DEF InjectNext, At, Owns, OwningSteps, Handler
  <2>2. handler[m].batch \in Seq(Messages) /\ handler[m].batch # <<>>
    BY <1>1, <1>4 DEF InjectNext, Handler
  <2>3. Head(handler[m].batch) \in Messages
    BY <2>2, ElemsTail
  <2>4. QED
    BY <1>2, <1>4, <2>1, <2>3 DEF InjectNext
<1>5. CASE Finalize(m)
  <2>1. Owns(m) /\ Owns(m)'
    BY <1>1, <1>5 DEF Finalize, Leave, NoHandler, At, Owns, OwningSteps
  <2>2. QED
    BY <1>2, <1>5, <2>1 DEF Finalize
<1>6. CASE ~(PersistUserMessage(m) \/ InjectNext(m) \/ Finalize(m))
  BY <1>6 DEF Handle, LoadHistory, Stream, StartLoop, DrainPending, BeginTurn,
              LlmReturns, ToolsReturn, ToolPanics, Deactivate, FinalDrain,
              Republish
<1>7. QED
  BY <1>3, <1>4, <1>5, <1>6

LEMMA FileNext ==
  TypeInv /\ ExclusionInv /\ ConservationInv /\ FileInv /\ [Next]_vars
    => FileInv'
<1> SUFFICES ASSUME TypeInv, ExclusionInv, ConservationInv, FileInv,
                    [Next]_vars
             PROVE  FileInv'
  OBVIOUS
<1>0. history \in [Conversations -> Seq(Entry)]
  BY DEF TypeInv, TypeOK
<1>1. ASSUME UNCHANGED <<history, handler>> PROVE FileInv'
  BY <1>1 DEF FileInv, Owns
<1>2. ASSUME NEW m \in Messages, Send(m) PROVE FileInv'
  BY <1>1, <1>2 DEF Send
<1>3. ASSUME NEW c \in Conversations, Cancel(c) PROVE FileInv'
  BY <1>1, <1>3 DEF Cancel
<1>4. CASE Receive \/ CheckActive \/ PushPending \/ Reset
  BY <1>1, <1>4 DEF Receive, CheckActive, PushPending, Reset
<1>5. CASE Spawn
  <2>1. PICK m \in Messages :
          /\ handler[m].step = "none" /\ handler'[m].step = "start"
          /\ \A n \in Messages \ {m} : handler'[n] = handler[n]
          /\ UNCHANGED history
    BY <1>5, SpawnIsFresh
  <2>2. SUFFICES ASSUME NEW c \in Conversations
        PROVE  /\ \A i \in 1 .. Len(history[c]) :
                    LET t == history[c][i].turn IN
                      ConvOf[t] = c /\ handler'[t].step # "none"
               /\ \A t \in Messages : ConvOf[t] = c /\ Owns(t)' =>
                    \A i, j \in 1 .. Len(history[c]) :
                      i < j /\ history[c][i].turn = t => history[c][j].turn = t
    BY <2>1 DEF FileInv
  <2>3. \A i \in 1 .. Len(history[c]) :
          /\ history[c][i].turn \in Messages
          /\ history[c][i].turn # m
    <3>1. \A i \in 1 .. Len(history[c]) : history[c][i] \in Entry
      BY <1>0, LenProperties, ElementOfSeq
    <3>2. QED
      BY <2>1, <3>1 DEF FileInv, Entry
  <2>4. \A t \in Messages \ {m} : Owns(t)' <=> Owns(t)
    BY <2>1 DEF Owns
  <2>5. QED
    BY <2>1, <2>3, <2>4 DEF FileInv
<1>6. ASSUME NEW m \in Messages, Handle(m) PROVE FileInv'
  <2>1. ReplyFrame(m) /\ HandlerFrame(m)
    BY <1>6, HandleReplies, HandleFrame
  <2>2. \A n \in Messages : handler[n].step # "none" => handler'[n].step # "none"
    BY <2>1 DEF ReplyFrame
  <2>3. \A n \in Messages : Owns(n)' => Owns(n)
    BY <2>1 DEF HandlerFrame, Owns
  <2>4. \A c \in Conversations : \A i \in 1 .. Len(history[c]) :
          history[c][i].turn \in Messages
    <3>1. \A c \in Conversations : \A i \in 1 .. Len(history[c]) :
            history[c][i] \in Entry
      BY <1>0, LenProperties, ElementOfSeq
    <3>2. QED
      BY <3>1 DEF Entry
  <2>5. CASE UNCHANGED history
    BY <2>2, <2>3, <2>4, <2>5 DEF FileInv
  <2>6. ASSUME NEW e, Writes(m, e) PROVE FileInv'
    <3> DEFINE d == ConvOf[m]
               s == history[d]
               n == Len(s)
    <3>1. /\ d \in Conversations /\ s \in Seq(Entry)
          /\ e \in Entry /\ e.turn = m /\ Owns(m) /\ Owns(m)'
          /\ history' = [history EXCEPT ![d] = Append(s, e)]
      BY <1>0, <2>6, DispatchAssumption DEF Writes
    <3>2. /\ Len(history'[d]) = n + 1 /\ n \in Nat
          /\ \A i \in 1 .. n : history'[d][i] = s[i]
          /\ history'[d][n + 1] = e
      <4>1. history'[d] = Append(s, e)
        BY <1>0, <3>1
      <4>2. QED
        BY <3>1, <4>1, AppendProperties, LenProperties
    <3>3. \A c \in Conversations \ {d} : history'[c] = history[c]
      BY <1>0, <3>1
    <3>4. handler'[m].step # "none"
      BY <2>1 DEF ReplyFrame
    <3>5. /\ \A i, j \in 1 .. n :
               i < j /\ s[i].turn = m => s[j].turn = m
          /\ \A i \in 1 .. n : /\ ConvOf[s[i].turn] = d
                               /\ handler[s[i].turn].step # "none"
                               /\ s[i].turn \in Messages
          /\ \A i, j, k \in 1 .. n :
               i < j /\ j < k /\ s[i].turn = s[k].turn => s[j].turn = s[i].turn
      BY <2>4, <3>1 DEF FileInv
    <3>6. \A t \in Messages : ConvOf[t] = d /\ Owns(t)' => t = m
      BY <2>3, <3>1 DEF ExclusionInv
    <3> HIDE DEF s, n
    <3>7. \A i \in 1 .. n + 1 : (i \in 1 .. n /\ i # n + 1) \/ i = n + 1
      BY <3>2
    <3>8. \A i, j \in 1 .. n + 1 : i < j => i \in 1 .. n
      BY <3>2
    <3>9. ASSUME NEW c \in Conversations
          PROVE  /\ \A i \in 1 .. Len(history'[c]) :
                      /\ ConvOf[history'[c][i].turn] = c
                      /\ handler'[history'[c][i].turn].step # "none"
                 /\ \A i, j, k \in 1 .. Len(history'[c]) :
                      i < j /\ j < k /\ history'[c][i].turn = history'[c][k].turn
                        => history'[c][j].turn = history'[c][i].turn
                 /\ \A t \in Messages : ConvOf[t] = c /\ Owns(t)' =>
                      \A i, j \in 1 .. Len(history'[c]) :
                        i < j /\ history'[c][i].turn = t =>
                          history'[c][j].turn = t
      <4>1. CASE c # d
        BY <2>2, <2>3, <2>4, <3>3, <4>1 DEF FileInv
      <4>2. CASE c = d
        <5>1. \A i \in 1 .. n + 1 :
                /\ ConvOf[history'[d][i].turn] = d
                /\ handler'[history'[d][i].turn].step # "none"
          BY <2>2, <3>1, <3>2, <3>4, <3>5, <3>7
        <5>2. \A i, j \in 1 .. n + 1 :
                i < j /\ history'[d][i].turn = m => history'[d][j].turn = m
          BY <3>1, <3>2, <3>5, <3>7, <3>8
        <5>3. ASSUME NEW i \in 1 .. n + 1, NEW j \in 1 .. n + 1,
                     NEW k \in 1 .. n + 1, i < j, j < k,
                     history'[d][i].turn = history'[d][k].turn
              PROVE  history'[d][j].turn = history'[d][i].turn
          <6>1. i \in 1 .. n /\ j \in 1 .. n
            BY <3>8, <5>3
          <6>2. CASE k = n + 1
            BY <3>1, <3>2, <3>5, <5>3, <6>1, <6>2
          <6>3. CASE k \in 1 .. n
            BY <3>2, <3>5, <5>3, <6>1, <6>3
          <6>4. QED
            BY <3>7, <6>2, <6>3
        <5>4. QED
          BY <3>2, <3>6, <4>2, <5>1, <5>2, <5>3
      <4>3. QED
        BY <4>1, <4>2
    <3>10. QED
      BY <3>9 DEF FileInv
  <2>7. QED
    BY <1>6, <2>5, <2>6, HandleWrites
<1>7. CASE UNCHANGED vars
  BY <1>1, <1>7 DEF vars
<1>8. QED
  BY <1>2, <1>3, <1>4, <1>5, <1>6, <1>7 DEF Next, Dispatch

LEMMA FileCorrect == Spec => []FileInv
<1>1. Init => FileInv
  BY EmptySeq DEF Init, FileInv
<1>2. QED
  BY <1>1, TypeInvariant, ExclusionCorrect, ConservationCorrect, FileNext, PTL
     DEF Spec

\* However the handlers of a conversation follow and overlap one another, the
\* entries of one turn stand together in the messages file.
THEOREM TurnsContiguous == Spec => []TurnsDoNotInterleave
<1>1. TypeInv /\ FileInv => TurnsDoNotInterleave
  <2> SUFFICES ASSUME TypeInv, FileInv, NEW c \in Conversations
               PROVE  \A i, j, k \in DOMAIN history[c] :
                        /\ i < j /\ j < k
                        /\ history[c][i].turn = history[c][k].turn
                        => history[c][j].turn = history[c][i].turn
    BY DEF TurnsDoNotInterleave
  <2>1. DOMAIN history[c] = 1 .. Len(history[c])
    BY LenProperties DEF TypeInv, TypeOK
  <2>2. QED
    BY <2>1 DEF FileInv
<1>2. QED
  BY <1>1, TypeInvariant, FileCorrect, PTL

-----------------------------------------------------------------------------
(* The messages file: user messages in the order of their arrival.         *)

\* Where a user message of conversation c stands on its way to the file.
UserEntries(c) == {i \in 1 .. Len(history[c]) : history[c][i].role = "user"}
Persisted(c) == {history[c][i].msg : i \in UserEntries(c)}
Starting(c) == {m \in Messages : ConvOf[m] = c /\ At(m, "start")}
Batched(c) ==
  {x \in Messages : \E n \in Messages :
     ConvOf[n] = c /\ At(n, "inject") /\ x \in Elems(handler[n].batch)}
Buffered(c) == Elems(pending[c])
Dispatched(c) == {m \in Messages : ConvOf[m] = c /\ InDispatcher(m)}

Precede(A, B) == \A a \in A : \A b \in B : <<a, b>> \in earlier
InOrder(s) == \A i, j \in 1 .. Len(s) : i < j => <<s[i], s[j]>> \in earlier

\* They were received in the order of the stations, all of them after they
\* were last received...
Stations(c) ==
  /\ \A a \in Persisted(c) \cup Starting(c) \cup Batched(c) \cup Buffered(c)
               \cup Dispatched(c) : <<a, a>> \in earlier
  /\ Precede(Persisted(c), Starting(c) \cup Batched(c) \cup Buffered(c)
                             \cup Dispatched(c))
  /\ Precede(Starting(c) \cup Batched(c), Buffered(c) \cup Dispatched(c))
  /\ Precede(Buffered(c), Dispatched(c))

\* ... and in order at each station.
Queues(c) ==
  /\ InOrder(pending[c])
  /\ \A n \in Messages : ConvOf[n] = c /\ At(n, "inject") =>
       InOrder(handler[n].batch)
  /\ dispatcher.step = "spawn" /\ ConvOf[dispatcher.msg] = c =>
       pending[c] = <<>>

\* What was persisted was taken out of the message path for good.
Settled(c) ==
  \A a \in Persisted(c) :
    a \in injected \/ handler[a].step \notin {"none", "start"}

EntryOrder(c) ==
  \A i, j \in UserEntries(c) : i < j =>
    /\ history[c][i].msg # history[c][j].msg
    /\ <<history[c][i].msg, history[c][j].msg>> \in earlier

ArrivalInv ==
  \A c \in Conversations :
    Stations(c) /\ Queues(c) /\ Settled(c) /\ EntryOrder(c)

\* The place of a message at each station.
LEMMA StationPlaces ==
  ASSUME TypeInv, ConservationInv, ArrivalInv, NEW c \in Conversations,
         NEW a
  PROVE  /\ a \in Persisted(c) =>
              /\ a \in Messages
              /\ \/ Places(a) = {"injected"}
                 \/ Places(a) = {"handler"} /\ handler[a].step # "start"
         /\ a \in Starting(c) => a \in Messages /\ Places(a) = {"handler"}
         /\ a \in Batched(c) => a \in Messages /\ Places(a) = {"batch"}
         /\ a \in Buffered(c) => /\ a \in Messages /\ ConvOf[a] = c
                                 /\ Places(a) = {"pending"}
         /\ a \in Dispatched(c) => a \in Messages /\ Places(a) = {"dispatcher"}
<1> USE DEF ConservationInv, Places, PlaceNames
<1>1. ASSUME a \in Persisted(c)
      PROVE  /\ a \in Messages
             /\ \/ Places(a) = {"injected"}
                \/ Places(a) = {"handler"} /\ handler[a].step # "start"
  <2>1. PICK i \in 1 .. Len(history[c]) : a = history[c][i].msg
    BY <1>1 DEF Persisted, UserEntries
  <2>2. history[c][i] \in Entry
    BY <2>1, ElementOfSeq DEF TypeInv, TypeOK
  <2>3. a \in Messages
    BY <2>1, <2>2 DEF Entry
  <2>4. a \in injected \/ handler[a].step \notin {"none", "start"}
    BY <1>1 DEF ArrivalInv, Settled
  <2>5. CASE a \in injected
    BY <2>3, <2>5, FoundAt
  <2>6. CASE handler[a].step \notin {"none", "start"}
    BY <2>3, <2>6, FoundAt DEF InHandler
  <2>7. QED
    BY <2>3, <2>4, <2>5, <2>6
<1>2. ASSUME a \in Starting(c) PROVE a \in Messages /\ Places(a) = {"handler"}
  BY <1>2, FoundAt DEF Starting, At, InHandler
<1>3. ASSUME a \in Batched(c) PROVE a \in Messages /\ Places(a) = {"batch"}
  BY <1>3, FoundAt DEF Batched, InBatch
<1>4. ASSUME a \in Buffered(c)
      PROVE  a \in Messages /\ ConvOf[a] = c /\ Places(a) = {"pending"}
  <2>1. pending[c] \in Seq(Messages)
    BY DEF TypeInv, TypeOK
  <2>2. a \in Messages /\ ConvOf[a] = c
    BY <1>4, <2>1, ElemsType DEF Buffered, Buffers
  <2>3. QED
    BY <1>4, <2>2, FoundAt DEF Buffered, InPending
<1>5. ASSUME a \in Dispatched(c)
      PROVE  a \in Messages /\ Places(a) = {"dispatcher"}
  BY <1>5, FoundAt DEF Dispatched
<1>6. QED
  BY <1>1, <1>2, <1>3, <1>4, <1>5

LEMMA PlaceNamesDiffer ==
  /\ {"bus"} \notin {{"dispatcher"}, {"pending"}, {"batch"}, {"handler"},
                     {"injected"}}
  /\ {"dispatcher"} \notin {{"pending"}, {"batch"}, {"handler"}, {"injected"}}
  /\ {"batch"} \notin {{"handler"}, {"injected"}}
  /\ {"handler"} # {"injected"}
OBVIOUS

\* A step that adds nobody to a station keeps the order of the stations.
LEMMA StationsKept ==
  ASSUME NEW c, Stations(c), UNCHANGED earlier,
         Persisted(c)' \subseteq Persisted(c),
         Starting(c)' \subseteq Starting(c),
         Batched(c)' \subseteq Batched(c),
         Buffered(c)' \subseteq Buffered(c),
         Dispatched(c)' \subseteq Dispatched(c)
  PROVE  Stations(c)'
BY DEF Stations, Precede

LEMMA HistoryKept ==
  ASSUME UNCHANGED history
  PROVE  \A c : /\ UserEntries(c)' = UserEntries(c)
                /\ Persisted(c)' = Persisted(c)
BY DEF UserEntries, Persisted

\* Nothing that the order depends on changes.
LEMMA ArrivalStays ==
  ASSUME ArrivalInv,
         UNCHANGED <<dispatcher, pending, handler, history, injected, earlier>>
  PROVE  ArrivalInv'
<1> SUFFICES ASSUME NEW c \in Conversations
             PROVE  /\ Stations(c)' /\ Queues(c)' /\ Settled(c)'
                    /\ EntryOrder(c)'
  BY DEF ArrivalInv
<1>1. /\ Persisted(c)' = Persisted(c) /\ UserEntries(c)' = UserEntries(c)
      /\ Starting(c)' = Starting(c) /\ Batched(c)' = Batched(c)
      /\ Buffered(c)' = Buffered(c) /\ Dispatched(c)' = Dispatched(c)
  BY HistoryKept DEF Starting, Batched, Buffered, Dispatched, At, InDispatcher
<1>2. Stations(c)'
  BY <1>1, StationsKept DEF ArrivalInv
<1>3. Queues(c)'
  BY DEF ArrivalInv, Queues, InOrder, At
<1>4. Settled(c)'
  BY <1>1 DEF ArrivalInv, Settled
<1>5. EntryOrder(c)'
  BY <1>1 DEF ArrivalInv, EntryOrder
<1>6. QED
  BY <1>2, <1>3, <1>4, <1>5

LEMMA ArrivalReceive ==
  ASSUME TypeInv, ConservationInv, ArrivalInv, Receive
  PROVE  ArrivalInv'
<1>1. PICK m \in Messages : /\ dispatcher'.msg = m
                            /\ Moved({m}, "bus", "dispatcher")
  BY ReceiveMoves
<1>2. /\ dispatcher.step = "recv" /\ dispatcher'.step = "check"
      /\ earlier' = ReceivedNow(m)
      /\ UNCHANGED <<pending, handler, history, injected>>
  BY <1>1 DEF Receive, runtimeVars
<1>3. Places(m) = {"bus"}
  BY <1>1 DEF Moved
<1>4. \A a, b \in Messages :
        /\ a # m /\ b # m /\ <<a, b>> \in earlier => <<a, b>> \in earlier'
        /\ <<a, a>> \in earlier \/ a = m => <<a, m>> \in earlier'
  BY <1>2 DEF ReceivedNow
<1> SUFFICES ASSUME NEW c \in Conversations
             PROVE  /\ Stations(c)' /\ Queues(c)' /\ Settled(c)'
                    /\ EntryOrder(c)'
  BY DEF ArrivalInv
<1>5. /\ Persisted(c)' = Persisted(c) /\ UserEntries(c)' = UserEntries(c)
      /\ Starting(c)' = Starting(c) /\ Batched(c)' = Batched(c)
      /\ Buffered(c)' = Buffered(c)
  BY <1>2, HistoryKept DEF Starting, Batched, Buffered, At
<1>6. Dispatched(c) = {} /\ Dispatched(c)' \subseteq {m}
  BY <1>1, <1>2 DEF Dispatched, InDispatcher
<1> DEFINE A == Persisted(c) \cup Starting(c) \cup Batched(c) \cup Buffered(c)
<1>7. \A a \in A : a \in Messages /\ a # m
  BY <1>3, StationPlaces, PlaceNamesDiffer
<1>8. \A a \in A : <<a, a>> \in earlier
  BY DEF ArrivalInv, Stations
<1>9. \A a \in A : /\ <<a, m>> \in earlier' /\ <<m, m>> \in earlier'
                   /\ <<a, a>> \in earlier'
  BY <1>4, <1>7, <1>8
<1>10. \A a, b \in A : <<a, b>> \in earlier => <<a, b>> \in earlier'
  BY <1>4, <1>7
<1>11. Stations(c)'
  <2>1. <<m, m>> \in earlier'
    BY <1>4
  <2>2. Stations(c)
    BY DEF ArrivalInv
  <2>3. \A a \in A \cup Dispatched(c)' : <<a, a>> \in earlier'
    BY <1>6, <1>9, <2>1
  <2>4. \A a \in A : \A b \in Dispatched(c)' : <<a, b>> \in earlier'
    BY <1>6, <1>9
  <2>5. /\ \A a \in Persisted(c) :
             \A b \in Starting(c) \cup Batched(c) \cup Buffered(c) :
               <<a, b>> \in earlier'
        /\ \A a \in Starting(c) \cup Batched(c) : \A b \in Buffered(c) :
             <<a, b>> \in earlier'
    BY <1>10, <2>2 DEF Stations, Precede
  <2>6. QED
    BY <1>5, <2>3, <2>4, <2>5 DEF Stations, Precede
<1>12. Queues(c)'
  <2>1. InOrder(pending[c])'
    <3>1. /\ InOrder(pending[c]) /\ pending' = pending
          /\ \A i \in 1 .. Len(pending[c]) : pending[c][i] \in A
      BY <1>2 DEF ArrivalInv, Queues, Buffered, Elems, TypeInv, TypeOK
    <3>2. QED
      BY <1>10, <3>1 DEF InOrder
  <2>2. ASSUME NEW n \in Messages, ConvOf[n] = c, At(n, "inject")'
        PROVE  InOrder(handler[n].batch)'
    <3> DEFINE s == handler[n].batch
    <3>1. /\ InOrder(s) /\ s \in Seq(Messages) /\ At(n, "inject")
      BY <1>2, <2>2 DEF ArrivalInv, Queues, TypeInv, TypeOK, Handler, At
    <3>2. \A i \in 1 .. Len(s) : s[i] \in A
      <4>1. \A i \in 1 .. Len(s) : s[i] \in Elems(s) /\ s[i] \in Messages
        BY <3>1, ElemsByIndex, ElemsType
      <4>2. QED
        BY <2>2, <3>1, <4>1 DEF Batched
    <3>3. handler'[n].batch = s
      BY <1>2
    <3>4. \A i, j \in 1 .. Len(s) : i < j => <<s[i], s[j]>> \in earlier'
      BY <1>10, <3>1, <3>2 DEF InOrder
    <3>5. QED
      BY <3>3, <3>4 DEF InOrder
  <2>3. QED
    BY <1>2, <2>1, <2>2 DEF Queues
<1>13. Settled(c)'
  BY <1>2, <1>5 DEF ArrivalInv, Settled
<1>14. EntryOrder(c)'
  <2>1. \A i \in UserEntries(c) : history[c][i].msg \in A
    BY DEF Persisted
  <2>2. QED
    BY <1>2, <1>5, <1>10, <2>1 DEF ArrivalInv, EntryOrder
<1>15. QED
  BY <1>11, <1>12, <1>13, <1>14

LEMMA ArrivalPush ==
  ASSUME TypeInv, ConservationInv, ArrivalInv, PushPending
  PROVE  ArrivalInv'
<1>1. PICK m \in Messages : dispatcher.msg = m /\ dispatcher.step = "push"
  BY DEF PushPending, TypeInv, TypeOK
<1> DEFINE d == ConvOf[m]
<1>2. /\ d \in Conversations
      /\ pending[d] \in Seq(Messages)
      /\ pending' = [pending EXCEPT ![d] = Append(pending[d], m)]
      /\ pending \in [Conversations -> Seq(Messages)]
      /\ dispatcher'.step = "recv"
      /\ UNCHANGED <<handler, history, injected, earlier>>
  BY <1>1, DispatchAssumption DEF PushPending, TypeInv, TypeOK, ghostVars
<1> SUFFICES ASSUME NEW c \in Conversations
             PROVE  /\ Stations(c)' /\ Queues(c)' /\ Settled(c)'
                    /\ EntryOrder(c)'
  BY DEF ArrivalInv
<1>3. /\ Persisted(c)' = Persisted(c) /\ UserEntries(c)' = UserEntries(c)
      /\ Starting(c)' = Starting(c) /\ Batched(c)' = Batched(c)
      /\ Dispatched(c)' = {}
  BY <1>2, HistoryKept DEF Starting, Batched, At, Dispatched, InDispatcher
<1>4. Stations(c) /\ Queues(c)
  BY DEF ArrivalInv
<1>5. CASE c # d
  <2>1. pending'[c] = pending[c]
    BY <1>2, <1>5
  <2>2. Stations(c)'
    BY <1>2, <1>3, <1>4, <2>1, StationsKept DEF Buffered
  <2>3. Queues(c)'
    BY <1>2, <1>4, <2>1 DEF Queues, InOrder, At
  <2>4. QED
    BY <1>2, <1>3, <2>2, <2>3 DEF ArrivalInv, Settled, EntryOrder
<1>6. CASE c = d
  <2>1. pending'[c] = Append(pending[c], m)
    BY <1>2, <1>6
  <2>2. /\ \A x : x \in Buffered(c)' <=> x \in Buffered(c) \/ x = m
        /\ Len(pending'[c]) = Len(pending[c]) + 1
        /\ Len(pending[c]) \in Nat
        /\ \A i \in 1 .. Len(pending[c]) : pending'[c][i] = pending[c][i]
        /\ pending'[c][Len(pending[c]) + 1] = m
    BY <1>2, <1>6, <2>1, ElemsAppend, AppendProperties, LenProperties
       DEF Buffered
  <2>3. m \in Dispatched(c)
    BY <1>1, <1>6 DEF Dispatched, InDispatcher
  <2>4. Stations(c)'
    BY <1>2, <1>3, <1>4, <2>2, <2>3 DEF Stations, Precede
  <2>5. InOrder(pending[c])'
    <3>1. \A i \in 1 .. Len(pending[c]) : pending[c][i] \in Buffered(c)
      BY <1>2, <1>6, ElemsByIndex DEF Buffered
    <3>2. \A i \in 1 .. Len(pending[c]) : <<pending[c][i], m>> \in earlier
      BY <1>4, <2>3, <3>1 DEF Stations, Precede
    <3>3. \A i, j \in 1 .. Len(pending[c]) + 1 : i < j =>
            /\ i \in 1 .. Len(pending[c])
            /\ j \in 1 .. Len(pending[c]) \/ j = Len(pending[c]) + 1
      BY <2>2
    <3>4. \A i, j \in 1 .. Len(pending'[c]) :
            i < j => <<pending'[c][i], pending'[c][j]>> \in earlier
      BY <1>4, <2>2, <3>2, <3>3 DEF Queues, InOrder
    <3>5. QED
      BY <1>2, <3>4 DEF InOrder
  <2>6. \A n \in Messages : ConvOf[n] = c /\ At(n, "inject")' =>
          InOrder(handler[n].batch)'
    BY <1>2, <1>4 DEF Queues, InOrder, At
  <2>7. QED
    BY <1>2, <1>3, <2>4, <2>5, <2>6
       DEF ArrivalInv, Queues, Settled, EntryOrder
<1>7. QED
  BY <1>5, <1>6

LEMMA InOrderEmpty == InOrder(<<>>)
BY EmptySeq DEF InOrder

LEMMA ArrivalReset ==
  ASSUME TypeInv, ArrivalInv, Reset
  PROVE  ArrivalInv'
<1>1. PICK m \in Messages : dispatcher.msg = m /\ dispatcher.step = "reset"
  BY DEF Reset, TypeInv, TypeOK
<1> DEFINE d == ConvOf[m]
<1>2. /\ d \in Conversations
      /\ pending' = [pending EXCEPT ![d] = <<>>]
      /\ pending \in [Conversations -> Seq(Messages)]
      /\ dispatcher'.step = "spawn" /\ dispatcher'.msg = m
      /\ UNCHANGED <<handler, history, injected, earlier>>
  BY <1>1, DispatchAssumption DEF Reset, TypeInv, TypeOK
<1> SUFFICES ASSUME NEW c \in Conversations
             PROVE  /\ Stations(c)' /\ Queues(c)' /\ Settled(c)'
                    /\ EntryOrder(c)'
  BY DEF ArrivalInv
<1>3. /\ Persisted(c)' = Persisted(c) /\ UserEntries(c)' = UserEntries(c)
      /\ Starting(c)' = Starting(c) /\ Batched(c)' = Batched(c)
      /\ Dispatched(c)' = Dispatched(c)
  BY <1>1, <1>2, HistoryKept
     DEF Starting, Batched, At, Dispatched, InDispatcher
<1>4. /\ pending'[c] = <<>> \/ pending'[c] = pending[c]
      /\ c = d => pending'[c] = <<>>
  BY <1>2
<1>5. Stations(c)'
  <2>1. Buffered(c)' \subseteq Buffered(c)
    BY <1>4, ElemsEmpty DEF Buffered
  <2>2. QED
    BY <1>2, <1>3, <2>1, StationsKept DEF ArrivalInv
<1>6. Queues(c)'
  <2>1. InOrder(pending[c])'
    BY <1>2, <1>4, EmptySeq DEF ArrivalInv, Queues, InOrder
  <2>2. \A n \in Messages : ConvOf[n] = c /\ At(n, "inject")' =>
          InOrder(handler[n].batch)'
    BY <1>2 DEF ArrivalInv, Queues, InOrder, At
  <2>3. QED
    BY <1>2, <1>4, <2>1, <2>2 DEF Queues
<1>7. QED
  BY <1>2, <1>3, <1>5, <1>6 DEF ArrivalInv, Settled, EntryOrder

LEMMA ArrivalSpawn ==
  ASSUME TypeInv, ExclusionInv, ConservationInv, ArrivalInv, Spawn
  PROVE  ArrivalInv'
<1>1. PICK m \in Messages :
        /\ dispatcher.msg = m /\ handler[m].step = "none"
        /\ handler'[m].step = "start"
        /\ \A n \in Messages \ {m} : handler'[n] = handler[n]
        /\ UNCHANGED <<pending, history, injected, earlier>>
  BY SpawnIsFresh
<1> DEFINE d == ConvOf[m]
<1>2. /\ d \in Conversations /\ dispatcher.step = "spawn"
      /\ dispatcher'.step = "recv"
  BY <1>1, DispatchAssumption DEF Spawn, TypeInv, TypeOK
<1>3. \A n \in Messages : ConvOf[n] = d => ~Owns(n)
  BY <1>1, <1>2 DEF ExclusionInv
<1> SUFFICES ASSUME NEW c \in Conversations
             PROVE  /\ Stations(c)' /\ Queues(c)' /\ Settled(c)'
                    /\ EntryOrder(c)'
  BY DEF ArrivalInv
<1>4. /\ Persisted(c)' = Persisted(c) /\ UserEntries(c)' = UserEntries(c)
      /\ Buffered(c)' = Buffered(c) /\ Dispatched(c)' = {}
  BY <1>1, <1>2, HistoryKept DEF Buffered, Dispatched, InDispatcher
<1>5. Batched(c)' \subseteq Batched(c)
  BY <1>1 DEF Batched, At
<1>6. Stations(c) /\ Queues(c)
  BY DEF ArrivalInv
<1>7. Queues(c)'
  <2>1. \A n \in Messages : At(n, "inject")' =>
          n # m /\ At(n, "inject") /\ handler'[n] = handler[n]
    BY <1>1 DEF At
  <2>2. QED
    BY <1>1, <1>2, <1>6, <2>1 DEF Queues, InOrder
<1>8. Settled(c)'
  <2>1. Persisted(c) \subseteq Messages /\ Settled(c)
    BY StationPlaces DEF ArrivalInv
  <2>2. QED
    BY <1>1, <1>4, <2>1 DEF Settled
<1>9. CASE c # d
  <2>1. Starting(c)' \subseteq Starting(c)
    BY <1>1, <1>9 DEF Starting, At
  <2>2. Stations(c)'
    BY <1>1, <1>4, <1>5, <1>6, <2>1, StationsKept
  <2>3. QED
    BY <1>1, <1>4, <1>7, <1>8, <2>2 DEF ArrivalInv, EntryOrder
<1>10. CASE c = d
  <2>1. m \in Dispatched(c) /\ Buffered(c) = {}
    BY <1>1, <1>2, <1>6, <1>10, ElemsEmpty
       DEF Dispatched, InDispatcher, Queues, Buffered
  <2>2. Starting(c)' \subseteq {m} /\ Batched(c)' = {}
    BY <1>1, <1>3, <1>5, <1>10 DEF Starting, Batched, At, Owns, OwningSteps
  <2>3. Stations(c)'
    BY <1>1, <1>4, <1>6, <2>1, <2>2 DEF Stations, Precede
  <2>4. QED
    BY <1>1, <1>4, <1>7, <1>8, <2>3 DEF ArrivalInv, EntryOrder
<1>11. QED
  BY <1>9, <1>10

-----------------------------------------------------------------------------
(* Arrival order: the steps of the handlers.                               *)

\* A handler that runs never goes back to its first step.
LEMMA HandleLeavesStart ==
  ASSUME TypeInv, NEW m \in Messages, Handle(m)
  PROVE  handler'[m].step # "start"
<1> USE DEF At, Goto, Leave, Fail, NoHandler
<1>1. handler \in [Messages -> Handler] /\ handler[m] \in Handler
  BY DEF TypeInv, TypeOK
<1>2. CASE PersistUserMessage(m) \/ LoadHistory(m) \/ Stream(m)
  BY <1>1, <1>2 DEF PersistUserMessage, LoadHistory, Stream, Handler
<1>3. CASE StartLoop(m) \/ DrainPending(m) \/ InjectNext(m)
  BY <1>1, <1>3 DEF StartLoop, DrainPending, InjectNext, Handler
<1>4. CASE BeginTurn(m)
  BY <1>1, <1>4 DEF BeginTurn, Handler
<1>5. CASE LlmReturns(m) \/ ToolsReturn(m) \/ ToolPanics(m)
  BY <1>1, <1>5 DEF LlmReturns, ToolsReturn, ToolPanics, Handler
<1>6. CASE Finalize(m) \/ Deactivate(m)
  BY <1>1, <1>6 DEF Finalize, Deactivate, Handler
<1>7. CASE FinalDrain(m) \/ Republish(m)
  BY <1>1, <1>7 DEF FinalDrain, Republish, Handler
<1>8. QED
  BY <1>2, <1>3, <1>4, <1>5, <1>6, <1>7 DEF Handle

\* What a step of a handler leaves alone in the order of arrivals.
ArrivalFrame(m) ==
  /\ UNCHANGED <<dispatcher, earlier>>
  /\ \A n \in Messages \ {m} : handler'[n] = handler[n]
  /\ handler[m].step # "none" /\ handler'[m].step \notin {"none", "start"}
  /\ injected \subseteq injected'

LEMMA HandleArrivalFrame ==
  ASSUME TypeInv, NEW m \in Messages, Handle(m)
  PROVE  ArrivalFrame(m)
<1>1. ReplyFrame(m) /\ HandlerFrame(m) /\ handler'[m].step # "start"
  BY HandleReplies, HandleFrame, HandleLeavesStart
<1>2. UNCHANGED earlier /\ injected \subseteq injected'
  BY DEF Handle, PersistUserMessage, LoadHistory, Stream, StartLoop,
         DrainPending, InjectNext, BeginTurn, LlmReturns, ToolsReturn,
         ToolPanics, Finalize, Deactivate, FinalDrain, Republish, ghostVars
<1>3. QED
  BY <1>1, <1>2 DEF ReplyFrame, HandlerFrame, ArrivalFrame

LEMMA ArrivalFrameFacts ==
  ASSUME NEW m \in Messages, ArrivalFrame(m), NEW c,
         Persisted(c) \subseteq Messages
  PROVE  /\ Starting(c)' \subseteq Starting(c) \ {m}
         /\ Dispatched(c)' = Dispatched(c)
         /\ Persisted(c)' \subseteq Persisted(c) /\ Settled(c) => Settled(c)'
         /\ c # ConvOf[m] => Batched(c)' \subseteq Batched(c)
<1>1. /\ UNCHANGED dispatcher
      /\ \A n \in Messages \ {m} : handler'[n] = handler[n]
      /\ handler'[m].step \notin {"none", "start"}
      /\ injected \subseteq injected'
  BY DEF ArrivalFrame
<1>2. Starting(c)' \subseteq Starting(c) \ {m}
  BY <1>1 DEF Starting, At
<1>3. Dispatched(c)' = Dispatched(c)
  BY <1>1 DEF Dispatched, InDispatcher
<1>4. Persisted(c)' \subseteq Persisted(c) /\ Settled(c) => Settled(c)'
  BY <1>1 DEF Settled
<1>5. c # ConvOf[m] => Batched(c)' \subseteq Batched(c)
  BY <1>1 DEF Batched, At
<1>6. QED
  BY <1>2, <1>3, <1>4, <1>5

\* While m owns its conversation no other handler there starts or injects.
LEMMA OwnerAlone ==
  ASSUME ExclusionInv, NEW m \in Messages, Owns(m)
  PROVE  \A n \in Messages :
           ConvOf[n] = ConvOf[m] /\ handler[n].step \in {"start", "inject"}
             => n = m
BY DEF ExclusionInv, Owns, OwningSteps

\* A step of a handler that persists nothing and drains into no loop.
LEMMA ArrivalStill ==
  ASSUME TypeInv, ConservationInv, ArrivalInv, NEW m \in Messages, Handle(m),
         UNCHANGED history,
         At(m, "inject")' => handler'[m].batch = <<>>,
         \A c \in Conversations :
           pending'[c] = pending[c] \/ pending'[c] = <<>>
  PROVE  ArrivalInv'
<1> SUFFICES ASSUME NEW c \in Conversations
             PROVE  /\ Stations(c)' /\ Queues(c)' /\ Settled(c)'
                    /\ EntryOrder(c)'
  BY DEF ArrivalInv
<1>1. ArrivalFrame(m)
  BY HandleArrivalFrame
<1>2. Persisted(c) \subseteq Messages
  BY StationPlaces
<1>3. /\ Persisted(c)' = Persisted(c) /\ UserEntries(c)' = UserEntries(c)
      /\ Starting(c)' \subseteq Starting(c)
      /\ Dispatched(c)' = Dispatched(c)
      /\ Settled(c)'
  BY <1>1, <1>2, HistoryKept, ArrivalFrameFacts DEF ArrivalInv
<1>4. Batched(c)' \subseteq Batched(c)
  BY <1>1, ElemsEmpty DEF Batched, At, ArrivalFrame
<1>5. Buffered(c)' \subseteq Buffered(c)
  BY ElemsEmpty DEF Buffered
<1>6. Stations(c)'
  BY <1>1, <1>3, <1>4, <1>5, StationsKept DEF ArrivalInv, ArrivalFrame
<1>7. Queues(c)'
  <2>1. InOrder(pending[c])'
    BY <1>1, EmptySeq DEF ArrivalInv, Queues, InOrder, ArrivalFrame
  <2>2. \A n \in Messages : ConvOf[n] = c /\ At(n, "inject")' =>
          InOrder(handler[n].batch)'
    BY <1>1, EmptySeq DEF ArrivalInv, Queues, InOrder, At, ArrivalFrame
  <2>3. QED
    BY <1>1, <2>1, <2>2 DEF ArrivalInv, Queues, ArrivalFrame
<1>8. EntryOrder(c)'
  BY <1>1, <1>3 DEF ArrivalInv, EntryOrder, ArrivalFrame
<1>9. QED
  BY <1>3, <1>6, <1>7, <1>8

\* append_message adds at most one message to those persisted, and after
\* them; an assistant entry leaves the user messages alone.
LEMMA AppendOrder ==
  ASSUME TypeInv, ArrivalInv, UNCHANGED earlier,
         NEW role \in {"user", "assistant"},
         NEW a \in Messages, NEW m \in Messages, Append_message(role, a, m),
         role = "user" =>
           \A x \in Persisted(ConvOf[m]) : x # a /\ <<x, a>> \in earlier,
         NEW c \in Conversations
  PROVE  /\ EntryOrder(c)'
         /\ Persisted(c)' \subseteq Persisted(c) \cup {a}
         /\ role # "user" \/ c # ConvOf[m] =>
              Persisted(c)' \subseteq Persisted(c)
<1> DEFINE d == ConvOf[m]
           e == [role |-> role, msg |-> a, turn |-> m]
<1>0. history \in [Conversations -> Seq(Entry)] /\ d \in Conversations
  BY DispatchAssumption DEF TypeInv, TypeOK
<1>1. EntryOrder(c)
  BY DEF ArrivalInv
<1>2. CASE history'[c] = history[c]
  BY <1>1, <1>2 DEF EntryOrder, UserEntries, Persisted
<1>3. CASE history'[c] # history[c]
  <2> DEFINE s == history[c]
             n == Len(s)
  <2>1. c = d /\ history'[c] = Append(s, e)
    BY <1>0, <1>3 DEF Append_message
  <2>2. s \in Seq(Entry) /\ e \in Entry /\ e.role = role /\ e.msg = a
    BY <1>0 DEF Entry
  <2> HIDE DEF e
  <2>3. /\ Len(history'[c]) = n + 1 /\ n \in Nat
        /\ \A i \in 1 .. n : history'[c][i] = s[i]
        /\ history'[c][n + 1] = e
    BY <2>1, <2>2, AppendProperties, LenProperties
  <2>4. \A i \in UserEntries(c)' :
          i \in UserEntries(c) \/ (i = n + 1 /\ role = "user")
    <3>1. \A i \in 1 .. n + 1 : i \in 1 .. n \/ i = n + 1
      BY <2>3
    <3>2. QED
      BY <2>2, <2>3, <3>1 DEF UserEntries
  <2>5. \A i \in UserEntries(c) : /\ i \in 1 .. n /\ history'[c][i] = s[i]
                                  /\ s[i].msg \in Persisted(c)
    BY <2>3 DEF UserEntries, Persisted
  <2>6. \A x \in Persisted(c)' :
          x \in Persisted(c) \/ (x = a /\ role = "user")
    BY <2>2, <2>3, <2>4, <2>5 DEF Persisted
  <2>7. EntryOrder(c)'
    <3>1. SUFFICES ASSUME NEW i \in UserEntries(c)', NEW j \in UserEntries(c)',
                          i < j
                   PROVE  /\ history'[c][i].msg # history'[c][j].msg
                          /\ <<history'[c][i].msg, history'[c][j].msg>>
                               \in earlier
      BY DEF EntryOrder
    <3>2. i \in UserEntries(c)
      BY <2>3, <2>4, <2>5, <3>1
    <3>3. CASE j \in UserEntries(c)
      BY <1>1, <2>5, <3>1, <3>2, <3>3 DEF EntryOrder
    <3>4. CASE j = n + 1 /\ role = "user"
      BY <2>1, <2>2, <2>3, <2>5, <3>2, <3>4
    <3>5. QED
      BY <2>4, <3>3, <3>4
  <2>8. QED
    BY <2>1, <2>6, <2>7
<1>4. QED
  BY <1>2, <1>3

LEMMA ArrivalPersist ==
  ASSUME TypeInv, ExclusionInv, ConservationInv, ArrivalInv,
         NEW m \in Messages, PersistUserMessage(m)
  PROVE  ArrivalInv'
<1>0. ConvOf[m] \in Conversations /\ handler \in [Messages -> Handler]
  BY DispatchAssumption DEF TypeInv, TypeOK
<1>1. /\ At(m, "start") /\ Owns(m)
      /\ Append_message("user", m, m)
      /\ UNCHANGED <<dispatcher, pending, injected, earlier>>
      /\ handler'[m].step = "load"
  BY <1>0 DEF PersistUserMessage, runtimeVars, ghostVars, At, Owns,
              OwningSteps, Goto
<1>2. ArrivalFrame(m)
  BY HandleArrivalFrame DEF Handle
<1>3. m \in Starting(ConvOf[m])
  BY <1>1 DEF Starting
<1>4. \A x \in Persisted(ConvOf[m]) : x # m /\ <<x, m>> \in earlier
  <2>1. \A x \in Persisted(ConvOf[m]) : <<x, m>> \in earlier
    BY <1>0, <1>3 DEF ArrivalInv, Stations, Precede
  <2>2. m \notin Persisted(ConvOf[m])
    BY <1>0, <1>1, <1>3, StationPlaces, PlaceNamesDiffer DEF At
  <2>3. QED
    BY <2>1, <2>2
<1> SUFFICES ASSUME NEW c \in Conversations
             PROVE  /\ Stations(c)' /\ Queues(c)' /\ Settled(c)'
                    /\ EntryOrder(c)'
  BY DEF ArrivalInv
<1>5. /\ EntryOrder(c)'
      /\ Persisted(c)' \subseteq Persisted(c) \cup {m}
      /\ c # ConvOf[m] => Persisted(c)' \subseteq Persisted(c)
  BY <1>1, <1>4, AppendOrder
<1>6. Persisted(c) \subseteq Messages
  BY StationPlaces
<1>7. /\ Starting(c)' \subseteq Starting(c) \ {m}
      /\ Dispatched(c)' = Dispatched(c) /\ Buffered(c)' = Buffered(c)
  BY <1>1, <1>2, <1>6, ArrivalFrameFacts DEF Buffered
<1>8. Batched(c)' \subseteq Batched(c)
  BY <1>1, <1>2 DEF Batched, At, ArrivalFrame
<1>9. Queues(c)'
  BY <1>1, <1>2 DEF ArrivalInv, Queues, InOrder, At, ArrivalFrame
<1>10. Settled(c)'
  BY <1>1, <1>2, <1>5, <1>6 DEF ArrivalInv, Settled, ArrivalFrame
<1>11. Stations(c)'
  <2>1. CASE c # ConvOf[m]
    BY <1>1, <1>5, <1>7, <1>8, <2>1, StationsKept DEF ArrivalInv
  <2>2. CASE c = ConvOf[m]
    <3>1. Starting(c) \subseteq {m} /\ Batched(c) = {}
      BY <1>1, <2>2, OwnerAlone DEF Starting, Batched, At
    <3>2. Starting(c)' = {} /\ Batched(c)' = {}
      BY <1>7, <1>8, <3>1
    <3>3. Stations(c)
      BY DEF ArrivalInv
    <3>4. QED
      BY <1>1, <1>3, <1>5, <1>7, <2>2, <3>2, <3>3 DEF Stations, Precede
  <2>3. QED
    BY <2>1, <2>2
<1>12. QED
  BY <1>5, <1>9, <1>10, <1>11

LEMMA ArrivalFinalize ==
  ASSUME TypeInv, ConservationInv, ArrivalInv, NEW m \in Messages, Finalize(m)
  PROVE  ArrivalInv'
<1>1. /\ Append_message("assistant", m, m)
      /\ UNCHANGED <<dispatcher, pending, injected, earlier>>
      /\ handler'[m].step = "deactivate"
  BY DEF Finalize, runtimeVars, ghostVars, Leave, NoHandler, TypeInv, TypeOK
<1>2. ArrivalFrame(m)
  BY HandleArrivalFrame DEF Handle
<1> SUFFICES ASSUME NEW c \in Conversations
             PROVE  /\ Stations(c)' /\ Queues(c)' /\ Settled(c)'
                    /\ EntryOrder(c)'
  BY DEF ArrivalInv
<1>3. EntryOrder(c)' /\ Persisted(c)' \subseteq Persisted(c)
  BY <1>1, AppendOrder
<1>4. Persisted(c) \subseteq Messages
  BY StationPlaces
<1>5. /\ Starting(c)' \subseteq Starting(c)
      /\ Dispatched(c)' = Dispatched(c) /\ Buffered(c)' = Buffered(c)
      /\ Settled(c)'
  BY <1>1, <1>2, <1>3, <1>4, ArrivalFrameFacts DEF Buffered, ArrivalInv
<1>6. Batched(c)' \subseteq Batched(c)
  BY <1>1, <1>2 DEF Batched, At, ArrivalFrame
<1>7. Queues(c)'
  BY <1>1, <1>2 DEF ArrivalInv, Queues, InOrder, At, ArrivalFrame
<1>8. Stations(c)'
  BY <1>1, <1>3, <1>5, <1>6, StationsKept DEF ArrivalInv
<1>9. QED
  BY <1>3, <1>5, <1>7, <1>8

LEMMA ArrivalDrain ==
  ASSUME TypeInv, ExclusionInv, ConservationInv, ArrivalInv,
         NEW m \in Messages, DrainPending(m)
  PROVE  ArrivalInv'
<1> DEFINE d == ConvOf[m]
<1>0. /\ d \in Conversations /\ handler \in [Messages -> Handler]
      /\ pending \in [Conversations -> Seq(Messages)]
  BY DispatchAssumption DEF TypeInv, TypeOK
<1>1. /\ At(m, "drain") /\ Owns(m)
      /\ UNCHANGED <<dispatcher, history, earlier>>
      /\ pending'[d] = <<>>
      /\ \A c \in Conversations \ {d} : pending'[c] = pending[c]
      /\ handler'[m].batch = pending[d]
  BY <1>0 DEF DrainPending, ghostVars, At, Owns, OwningSteps, Handler
<1>2. ArrivalFrame(m)
  BY HandleArrivalFrame DEF Handle
<1> SUFFICES ASSUME NEW c \in Conversations
             PROVE  /\ Stations(c)' /\ Queues(c)' /\ Settled(c)'
                    /\ EntryOrder(c)'
  BY DEF ArrivalInv
<1>3. Persisted(c) \subseteq Messages
  BY StationPlaces
<1>4. /\ Persisted(c)' = Persisted(c) /\ UserEntries(c)' = UserEntries(c)
      /\ Starting(c)' \subseteq Starting(c)
      /\ Dispatched(c)' = Dispatched(c)
      /\ Settled(c)'
  BY <1>1, <1>2, <1>3, HistoryKept, ArrivalFrameFacts DEF ArrivalInv
<1>5. EntryOrder(c)'
  BY <1>1, <1>4 DEF ArrivalInv, EntryOrder
<1>6. Stations(c) /\ Queues(c)
  BY DEF ArrivalInv
<1>7. Queues(c)'
  <2>1. InOrder(pending[c])'
    BY <1>1, <1>6, EmptySeq DEF Queues, InOrder
  <2>2. ASSUME NEW n \in Messages, ConvOf[n] = c, At(n, "inject")'
        PROVE  InOrder(handler[n].batch)'
    <3>1. CASE n = m
      BY <1>1, <1>6, <2>2, <3>1 DEF Queues, InOrder
    <3>2. CASE n # m
      BY <1>1, <1>2, <1>6, <2>2, <3>2 DEF Queues, InOrder, At, ArrivalFrame
    <3>3. QED
      BY <3>1, <3>2
  <2>3. dispatcher'.step = "spawn" /\ ConvOf[dispatcher'.msg] = c =>
          pending'[c] = <<>>
    BY <1>1, <1>6 DEF Queues
  <2>4. QED
    BY <2>1, <2>2, <2>3 DEF Queues
<1>8. CASE c # d
  <2>1. Batched(c)' \subseteq Batched(c) /\ Buffered(c)' = Buffered(c)
    BY <1>1, <1>2, <1>3, <1>8, ArrivalFrameFacts DEF Buffered
  <2>2. Stations(c)'
    BY <1>1, <1>4, <1>6, <2>1, StationsKept
  <2>3. QED
    BY <1>4, <1>5, <1>7, <2>2
<1>9. CASE c = d
  <2>1. Starting(c) = {}
    BY <1>1, <1>9, OwnerAlone DEF Starting, At
  <2>2. Batched(c)' \subseteq Buffered(c)
    <3>1. \A n \in Messages : ConvOf[n] = c /\ At(n, "inject")' => n = m
      BY <1>1, <1>2, <1>9, OwnerAlone DEF At, ArrivalFrame
    <3>2. QED
      BY <1>1, <1>9, <3>1 DEF Batched, Buffered
  <2>3. Buffered(c)' = {}
    BY <1>1, <1>9, ElemsEmpty DEF Buffered
  <2>4. Stations(c)'
    BY <1>1, <1>4, <1>6, <2>1, <2>2, <2>3 DEF Stations, Precede
  <2>5. QED
    BY <1>4, <1>5, <1>7, <2>4
<1>10. QED
  BY <1>8, <1>9

LEMMA InOrderTail ==
  ASSUME NEW S, NEW s \in Seq(S), s # <<>>, InOrder(s)
  PROVE  /\ InOrder(Tail(s))
         /\ \A x \in Elems(Tail(s)) : <<Head(s), x>> \in earlier
<1> DEFINE t == Tail(s)
<1>1. /\ t \in Seq(S) /\ Len(t) = Len(s) - 1 /\ Len(s) \in Nat \ {0}
      /\ \A i \in 1 .. Len(t) : t[i] = s[i + 1]
  BY HeadTailProperties, EmptySeq
<1>2. Head(s) = s[1]
  OBVIOUS
<1> HIDE DEF t
<1>3. /\ \A i \in 1 .. Len(t) : i + 1 \in 1 .. Len(s) /\ 1 < i + 1
      /\ 1 \in 1 .. Len(s)
      /\ \A i, j \in 1 .. Len(t) : i < j => i + 1 < j + 1
  BY <1>1
<1>4. InOrder(t)
  BY <1>1, <1>3 DEF InOrder
<1>5. ASSUME NEW x \in Elems(t) PROVE <<Head(s), x>> \in earlier
  <2>1. PICK i \in 1 .. Len(t) : t[i] = x
    BY <1>1, <1>5, ElemsByIndex
  <2>2. QED
    BY <1>1, <1>2, <1>3, <2>1 DEF InOrder
<1>6. QED
  BY <1>4, <1>5 DEF t

LEMMA ArrivalInject ==
  ASSUME TypeInv, ExclusionInv, ConservationInv, ArrivalInv,
         NEW m \in Messages, InjectNext(m)
  PROVE  ArrivalInv'
<1> DEFINE d == ConvOf[m]
           s == handler[m].batch
<1>0. /\ d \in Conversations /\ handler \in [Messages -> Handler]
      /\ handler[m] \in Handler /\ s \in Seq(Messages) /\ s # <<>>
  BY DispatchAssumption DEF TypeInv, TypeOK, Handler, InjectNext
<1>1. PICK h \in Messages : h = Head(s)
  BY <1>0, ElemsTail
<1>2. /\ At(m, "inject") /\ Owns(m)
      /\ Append_message("user", h, m)
      /\ injected' = injected \cup {h}
      /\ UNCHANGED <<dispatcher, pending, earlier>>
      /\ handler'[m].batch = Tail(s)
  BY <1>0, <1>1 DEF InjectNext, runtimeVars, ghostVars, At, Owns, OwningSteps,
                    Handler
<1>3. ArrivalFrame(m)
  BY HandleArrivalFrame DEF Handle
<1>4. h \in Elems(s) /\ \A x \in Elems(Tail(s)) : x \in Elems(s)
  BY <1>0, <1>1, ElemsTail
<1>5. InOrder(s)
  BY <1>0, <1>2 DEF ArrivalInv, Queues
<1>6. InOrder(Tail(s)) /\ \A x \in Elems(Tail(s)) : <<h, x>> \in earlier
  BY <1>0, <1>1, <1>5, InOrderTail
<1>7. \A x \in Elems(s) : x \in Messages /\ x \in Batched(d)
  BY <1>0, <1>2, ElemsType DEF Batched
<1>8. \A x \in Persisted(d) : x # h /\ <<x, h>> \in earlier
  <2>1. \A x \in Persisted(d) : <<x, h>> \in earlier
    BY <1>0, <1>4, <1>7 DEF ArrivalInv, Stations, Precede
  <2>2. h \notin Persisted(d)
    BY <1>0, <1>4, <1>7, StationPlaces, PlaceNamesDiffer
  <2>3. QED
    BY <2>1, <2>2
<1> SUFFICES ASSUME NEW c \in Conversations
             PROVE  /\ Stations(c)' /\ Queues(c)' /\ Settled(c)'
                    /\ EntryOrder(c)'
  BY DEF ArrivalInv
<1>9. /\ EntryOrder(c)'
      /\ Persisted(c)' \subseteq Persisted(c) \cup {h}
      /\ c # d => Persisted(c)' \subseteq Persisted(c)
  BY <1>2, <1>8, AppendOrder
<1>10. Persisted(c) \subseteq Messages
  BY StationPlaces
<1>11. /\ Starting(c)' \subseteq Starting(c)
       /\ Dispatched(c)' = Dispatched(c) /\ Buffered(c)' = Buffered(c)
       /\ c # d => Batched(c)' \subseteq Batched(c)
  BY <1>2, <1>3, <1>10, ArrivalFrameFacts DEF Buffered
<1>12. Settled(c)'
  BY <1>2, <1>3, <1>9, <1>10 DEF ArrivalInv, Settled, ArrivalFrame
<1>13. Queues(c)'
  <2>1. ASSUME NEW n \in Messages, ConvOf[n] = c, At(n, "inject")'
        PROVE  InOrder(handler[n].batch)'
    <3>1. CASE n = m
      BY <1>2, <1>6, <3>1 DEF InOrder
    <3>2. CASE n # m
      BY <1>2, <1>3, <2>1, <3>2
         DEF ArrivalInv, Queues, InOrder, At, ArrivalFrame
    <3>3. QED
      BY <3>1, <3>2
  <2>2. QED
    BY <1>2, <2>1 DEF ArrivalInv, Queues, InOrder
<1>14. Stations(c)'
  <2>1. CASE c # d
    BY <1>2, <1>9, <1>11, <2>1, StationsKept DEF ArrivalInv
  <2>2. CASE c = d
    <3>1. Starting(c) = {}
      BY <1>2, <2>2, OwnerAlone DEF Starting, At
    <3>2. Batched(c)' \subseteq Elems(Tail(s))
      <4>1. \A n \in Messages : ConvOf[n] = c /\ At(n, "inject")' => n = m
        BY <1>2, <1>3, <2>2, OwnerAlone DEF At, ArrivalFrame
      <4>2. QED
        BY <1>2, <4>1 DEF Batched
    <3>3. Batched(c)' \subseteq Batched(c) /\ h \in Batched(c)
      BY <1>4, <1>7, <2>2, <3>2
    <3>4. \A x \in Batched(c)' : <<h, x>> \in earlier
      BY <1>6, <3>2
    <3>5. Stations(c)
      BY DEF ArrivalInv
    <3>6. QED
      BY <1>2, <1>9, <1>11, <3>1, <3>3, <3>4, <3>5 DEF Stations, Precede
  <2>3. QED
    BY <2>1, <2>2
<1>15. QED
  BY <1>9, <1>12, <1>13, <1>14

LEMMA ArrivalHandle ==
  ASSUME TypeInv, ExclusionInv, ConservationInv, ArrivalInv,
         NEW m \in Messages, Handle(m)
  PROVE  ArrivalInv'
<1>1. ConvOf[m] \in Conversations /\ handler \in [Messages -> Handler]
  BY DispatchAssumption DEF TypeInv, TypeOK
<1>2. CASE \/ LoadHistory(m) \/ Stream(m) \/ StartLoop(m) \/ BeginTurn(m)
           \/ LlmReturns(m) \/ ToolsReturn(m) \/ ToolPanics(m)
           \/ Deactivate(m)
  <2>1. QuietStep(m) /\ UNCHANGED history
    BY <1>2 DEF QuietStep, LoadHistory, Stream, StartLoop, BeginTurn,
                LlmReturns, ToolsReturn, ToolPanics, Deactivate
  <2>2. handler'[m].batch = <<>> /\ UNCHANGED pending
    BY <2>1, QuietFrame DEF ConservationInv
  <2>3. QED
    BY <2>1, <2>2, ArrivalStill
<1>3. CASE FinalDrain(m)
  <2>1. /\ UNCHANGED history
        /\ pending' = [pending EXCEPT ![ConvOf[m]] = <<>>]
        /\ handler'[m].step # "inject"
    BY <1>1, <1>3 DEF FinalDrain, Handler
  <2>2. QED
    BY <1>1, <2>1, ArrivalStill DEF At, TypeInv, TypeOK
<1>4. CASE Republish(m)
  <2>1. UNCHANGED <<history, pending>> /\ handler'[m].step # "inject"
    BY <1>1, <1>4 DEF Republish, runtimeVars, Handler
  <2>2. QED
    BY <2>1, ArrivalStill DEF At
<1>5. QED
  BY <1>2, <1>3, <1>4, ArrivalPersist, ArrivalFinalize, ArrivalDrain,
     ArrivalInject DEF Handle

LEMMA ArrivalNext ==
  /\ TypeInv /\ ExclusionInv /\ ConservationInv /\ ArrivalInv /\ [Next]_vars
  => ArrivalInv'
<1> SUFFICES ASSUME TypeInv, ExclusionInv, ConservationInv, ArrivalInv,
                    [Next]_vars
             PROVE  ArrivalInv'
  OBVIOUS
<1>1. ASSUME NEW m \in Messages, Send(m) PROVE ArrivalInv'
  BY <1>1, ArrivalStays DEF Send, runtimeVars
<1>2. ASSUME NEW c \in Conversations, Cancel(c) PROVE ArrivalInv'
  BY <1>2, ArrivalStays DEF Cancel, ghostVars
<1>3. CASE CheckActive
  <2>1. /\ UNCHANGED <<pending, handler, history, injected, earlier>>
        /\ dispatcher.step = "check" /\ dispatcher'.step # "spawn"
        /\ dispatcher'.msg = dispatcher.msg
    BY <1>3 DEF CheckActive, runtimeVars, TypeInv, TypeOK
  <2>2. SUFFICES ASSUME NEW c \in Conversations
                 PROVE  /\ Stations(c)' /\ Queues(c)' /\ Settled(c)'
                        /\ EntryOrder(c)'
    BY DEF ArrivalInv
  <2>3. /\ Persisted(c)' = Persisted(c) /\ UserEntries(c)' = UserEntries(c)
        /\ Starting(c)' = Starting(c) /\ Batched(c)' = Batched(c)
        /\ Buffered(c)' = Buffered(c) /\ Dispatched(c)' \subseteq Dispatched(c)
    BY <2>1, HistoryKept
       DEF Starting, Batched, Buffered, Dispatched, At, InDispatcher
  <2>4. Stations(c)'
    BY <2>1, <2>3, StationsKept DEF ArrivalInv
  <2>5. Queues(c)'
    BY <2>1 DEF ArrivalInv, Queues, InOrder, At
  <2>6. QED
    BY <2>1, <2>3, <2>4, <2>5 DEF ArrivalInv, Settled, EntryOrder
<1>4. ASSUME NEW m \in Messages, Handle(m) PROVE ArrivalInv'
  BY <1>4, ArrivalHandle
<1>5. CASE UNCHANGED vars
  BY <1>5, ArrivalStays DEF vars
<1>6. QED
  BY <1>1, <1>2, <1>3, <1>4, <1>5, ArrivalReceive, ArrivalPush, ArrivalReset,
     ArrivalSpawn DEF Next, Dispatch

LEMMA ArrivalInit == Init => ArrivalInv
<1> SUFFICES ASSUME Init, NEW c \in Conversations
             PROVE  /\ Stations(c) /\ Queues(c) /\ Settled(c)
                    /\ EntryOrder(c)
  BY DEF ArrivalInv
<1>1. /\ UserEntries(c) = {} /\ Starting(c) = {} /\ Batched(c) = {}
      /\ Buffered(c) = {} /\ Dispatched(c) = {}
  BY EmptySeq, ElemsEmpty
     DEF Init, UserEntries, Starting, Batched, Buffered, Dispatched, At,
         InDispatcher, NoHandler
<1>2. Persisted(c) = {}
  BY <1>1 DEF Persisted
<1>3. Queues(c)
  BY EmptySeq DEF Init, Queues, InOrder, At, NoHandler
<1>4. QED
  BY <1>1, <1>2, <1>3 DEF Stations, Precede, Settled, EntryOrder

LEMMA ArrivalCorrect == Spec => []ArrivalInv
BY ArrivalInit, TypeInvariant, ExclusionCorrect, ConservationCorrect,
   ArrivalNext, PTL DEF Spec

\* Through channel, buffer and drains the user messages of a conversation
\* reach the messages file in the order in which run_loop received them, and
\* none of them twice.
THEOREM ArrivalOrder == Spec => []PersistedInArrivalOrder
<1>1. TypeInv /\ ArrivalInv => PersistedInArrivalOrder
  <2> SUFFICES ASSUME TypeInv, ArrivalInv, NEW c \in Conversations,
                      NEW i \in DOMAIN history[c], NEW j \in DOMAIN history[c],
                      i < j, history[c][i].role = "user",
                      history[c][j].role = "user"
               PROVE  /\ history[c][i].msg # history[c][j].msg
                      /\ <<history[c][i].msg, history[c][j].msg>> \in earlier
    BY DEF PersistedInArrivalOrder
  <2>1. DOMAIN history[c] = 1 .. Len(history[c])
    BY LenProperties DEF TypeInv, TypeOK
  <2>2. i \in UserEntries(c) /\ j \in UserEntries(c)
    BY <2>1 DEF UserEntries
  <2>3. QED
    BY <2>2 DEF ArrivalInv, EntryOrder
<1>2. QED
  BY <1>1, TypeInvariant, ArrivalCorrect, PTL

=============================================================================
