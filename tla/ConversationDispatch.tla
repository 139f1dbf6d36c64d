------------------------ MODULE ConversationDispatch ------------------------
(***************************************************************************)
(* How a user message reaches the agent.                                   *)
(*                                                                         *)
(* EventRunner::run_loop is one task that takes user messages off its      *)
(* event-bus subscription and dispatches them.  A message for an idle      *)
(* conversation gets a handler task of its own, which runs the ReAct loop; *)
(* a message for a busy one is pushed on the conversation's pending        *)
(* buffer, and the handler that is running drains the buffer before each   *)
(* call of the model and once more when it has ended.                      *)
(*                                                                         *)
(* The dispatcher and the handlers run on a multi-threaded executor, and   *)
(* the three fields of ConversationRuntime (cancel token, pending buffer,  *)
(* active flag) are each protected on their own, never together: every     *)
(* access to one of them is a step of its own here.                        *)
(***************************************************************************)
EXTENDS Naturals, Sequences, FiniteSets

CONSTANTS
  Conversations,  \* conversation ids
  Messages,       \* user messages, each published once by its author
  ConvOf,         \* the conversation a message is addressed to
  NoText,         \* those that carry images and no text
  None,           \* no message, no cancel token
  BusCapacity,    \* slots of the dispatcher's broadcast channel (256)
  MaxTurns        \* TurnBudget::max_turns (50): calls of the model per loop

ASSUME DispatchAssumption ==
  /\ ConvOf \in [Messages -> Conversations]
  /\ NoText \subseteq Messages
  /\ None \notin Messages
  /\ BusCapacity \in Nat \ {0}
  /\ MaxTurns \in Nat \ {0}

VARIABLES
  bus,         \* messages in the channel run_loop receives from
  dispatcher,  \* where run_loop is, and the message it is dispatching
  active,      \* ConversationRuntime::active
  pending,     \* ConversationRuntime::pending
  token,       \* ConversationRuntime::cancel_token, named by the message
               \* whose dispatch created it
  cancelled,   \* the cancel tokens that were triggered
  handler,     \* the task that handles a message
  history,     \* the messages file of the conversation store
  answered,    \* messages whose handler published its assistant.message
  injected,    \* messages a running loop took from the pending buffer
  sent,        \* messages published by a client or a connector
  skipped,     \* messages the channel dropped because run_loop lagged
  discarded,   \* messages the dispatcher dropped: ConversationRuntime::reset
               \* removed them from a buffer, or they had no text
  earlier      \* <<a, b>>: run_loop last received a before b, or a is b

runtimeVars == <<active, pending, token, cancelled>>
ghostVars == <<sent, skipped, discarded, earlier>>
vars == <<bus, dispatcher, active, pending, token, cancelled, handler,
          history, answered, injected, sent, skipped, discarded, earlier>>

-----------------------------------------------------------------------------
(* Types.                                                                  *)

DispatcherSteps == {"recv", "check", "push", "reset", "spawn"}

\* Steps of a handler that still owns its conversation: it has not executed
\* set_active(false).  A handler that panicked ("dead") never will.
OwningSteps == {"start", "load", "acquire", "stream", "drain", "inject",
                "llm", "tools", "finalize", "deactivate", "dead"}

\* Steps at which the ReAct loop holds the cancel token it was given.
LoopSteps == {"drain", "inject", "llm", "tools"}

HandlerSteps == OwningSteps \cup {"none", "final_drain", "republish", "done"}

Handler == [step  : HandlerSteps,
            batch : Seq(Messages),          \* drained, not yet passed on
            token : Messages \cup {None},   \* the loop's cancel token
            turns : 0 .. MaxTurns]          \* llm_calls_count

Entry == [role : {"user", "assistant"}, msg : Messages, turn : Messages]

TypeOK ==
  /\ bus \in Seq(Messages)
  /\ dispatcher \in [step : DispatcherSteps, msg : Messages \cup {None}]
  /\ dispatcher.step # "recv" => dispatcher.msg \in Messages
  /\ active \in [Conversations -> BOOLEAN]
  /\ pending \in [Conversations -> Seq(Messages)]
  /\ token \in [Conversations -> Messages \cup {None}]
  /\ cancelled \subseteq Messages
  /\ handler \in [Messages -> Handler]
  /\ history \in [Conversations -> Seq(Entry)]
  /\ answered \subseteq Messages
  /\ injected \subseteq Messages
  /\ sent \subseteq Messages
  /\ skipped \subseteq Messages
  /\ discarded \subseteq Messages
  /\ earlier \subseteq Messages \X Messages

-----------------------------------------------------------------------------
(* Helpers.                                                                *)

Elems(s) == {s[i] : i \in DOMAIN s}

NoHandler == [step |-> "none", batch |-> <<>>, token |-> None, turns |-> 0]
NewHandler == [NoHandler EXCEPT !.step = "start"]

At(m, s) == handler[m].step = s

\* The handler of m still owns its conversation.
Owns(m) == handler[m].step \in OwningSteps

Goto(m, s) == handler' = [handler EXCEPT ![m].step = s]

\* Bus::publish into run_loop's channel: a full broadcast channel overwrites
\* its oldest event, which the lagging receiver then skips.
Publish(m) ==
  IF Len(bus) < BusCapacity
    THEN /\ bus' = Append(bus, m)
         /\ UNCHANGED skipped
    ELSE /\ bus' = Append(Tail(bus), m)
         /\ skipped' = skipped \cup {Head(bus)}

\* ConversationStore::append_message of an entry written during turn t; a
\* failed append is logged and otherwise ignored.
Append_message(role, m, t) ==
  LET c == ConvOf[t] IN
    \/ history' = [history EXCEPT ![c] =
                     Append(@, [role |-> role, msg |-> m, turn |-> t])]
    \/ UNCHANGED history

-----------------------------------------------------------------------------
Init ==
  /\ bus = <<>>
  /\ dispatcher = [step |-> "recv", msg |-> None]
  /\ active = [c \in Conversations |-> FALSE]
  /\ pending = [c \in Conversations |-> <<>>]
  /\ token = [c \in Conversations |-> None]
  /\ cancelled = {}
  /\ handler = [m \in Messages |-> NoHandler]
  /\ history = [c \in Conversations |-> <<>>]
  /\ answered = {}
  /\ injected = {}
  /\ sent = {}
  /\ skipped = {}
  /\ discarded = {}
  /\ earlier = {}

-----------------------------------------------------------------------------
(* The outside: clients, connectors and the cancel request.                *)

\* The hub's send_message, or handle_connector_message, publishes a
\* UserMessage event; with images it may have no text.
Send(m) ==
  /\ m \notin sent
  /\ sent' = sent \cup {m}
  /\ Publish(m)
  /\ UNCHANGED <<dispatcher, runtimeVars, handler, history, answered,
                 injected, discarded, earlier>>

\* EventRunner::cancel_session: nothing to do before the conversation has a
\* runtime, otherwise the token of the moment is triggered.
Cancel(c) ==
  /\ token[c] # None
  /\ token[c] \notin cancelled
  /\ cancelled' = cancelled \cup {token[c]}
  /\ UNCHANGED <<bus, dispatcher, active, pending, token, handler, history,
                 answered, injected, ghostVars>>

-----------------------------------------------------------------------------
(* The dispatcher: run_loop and dispatch_user_message.                     *)

\* The order of arrivals when m has just been received (again).
ReceivedNow(m) ==
  {p \in earlier : p[1] # m /\ p[2] # m}
    \cup {p \in Messages \X {m} : <<p[1], p[1]>> \in earlier \/ p[1] = m}

Receive ==
  /\ dispatcher.step = "recv"
  /\ bus # <<>>
  /\ dispatcher' = [step |-> "check", msg |-> Head(bus)]
  /\ bus' = Tail(bus)
  /\ earlier' = ReceivedNow(Head(bus))
  /\ UNCHANGED <<runtimeVars, handler, history, answered, injected, sent,
                 skipped, discarded>>

\* A message without text goes no further.  For the others, if
\* runtime.is_active(): the flag is read here and acted upon later.
CheckActive ==
  /\ dispatcher.step = "check"
  /\ IF dispatcher.msg \in NoText
       THEN /\ dispatcher' = [dispatcher EXCEPT !.step = "recv"]
            /\ discarded' = discarded \cup {dispatcher.msg}
       ELSE /\ dispatcher' = [dispatcher EXCEPT
                 !.step = IF active[ConvOf[dispatcher.msg]] THEN "push" ELSE "reset"]
            /\ UNCHANGED discarded
  /\ UNCHANGED <<bus, runtimeVars, handler, history, answered, injected, sent,
                 skipped, earlier>>

\* Mutant: the message is inserted at the front of the buffer.
PushInFront ==
  /\ dispatcher.step = "push"
  /\ pending' = [pending EXCEPT ![ConvOf[dispatcher.msg]] =
                   <<dispatcher.msg>> \o @]
  /\ dispatcher' = [dispatcher EXCEPT !.step = "recv"]
  /\ UNCHANGED <<bus, active, token, cancelled, handler, history, answered,
                 injected, ghostVars>>

PushPending ==
  /\ dispatcher.step = "push"
  /\ pending' = [pending EXCEPT ![ConvOf[dispatcher.msg]] =
                   Append(@, dispatcher.msg)]
  /\ dispatcher' = [dispatcher EXCEPT !.step = "recv"]
  /\ UNCHANGED <<bus, active, token, cancelled, handler, history, answered,
                 injected, ghostVars>>

\* Mutant: a conversation keeps its first cancel token.
ResetKeepingToken ==
  LET m == dispatcher.msg
      c == ConvOf[m] IN
  /\ dispatcher.step = "reset"
  /\ token' = [token EXCEPT ![c] = IF @ = None THEN m ELSE @]
  /\ discarded' = discarded \cup Elems(pending[c])
  /\ pending' = [pending EXCEPT ![c] = <<>>]
  /\ active' = [active EXCEPT ![c] = FALSE]
  /\ dispatcher' = [dispatcher EXCEPT !.step = "spawn"]
  /\ UNCHANGED <<bus, cancelled, handler, history, answered, injected, sent,
                 skipped, earlier>>

\* ConversationRuntime::reset: a fresh cancel token, an empty buffer, and
\* the flag cleared.  A token that nobody holds any more is forgotten.
Reset ==
  LET m == dispatcher.msg
      c == ConvOf[m] IN
  /\ dispatcher.step = "reset"
  /\ token' = [token EXCEPT ![c] = m]
  /\ cancelled' = {t \in cancelled : \/ \E d \in Conversations : token'[d] = t
                                    \/ \E n \in Messages : handler[n].token = t}
  /\ discarded' = discarded \cup Elems(pending[c])
  /\ pending' = [pending EXCEPT ![c] = <<>>]
  /\ active' = [active EXCEPT ![c] = FALSE]
  /\ dispatcher' = [dispatcher EXCEPT !.step = "spawn"]
  /\ UNCHANGED <<bus, handler, history, answered, injected, sent, skipped,
                 earlier>>

\* set_active(true), then the handler task is spawned.
Spawn ==
  LET m == dispatcher.msg IN
  /\ dispatcher.step = "spawn"
  /\ active' = [active EXCEPT ![ConvOf[m]] = TRUE]
  /\ handler' = [handler EXCEPT ![m] = NewHandler]
  /\ dispatcher' = [dispatcher EXCEPT !.step = "recv"]
  /\ UNCHANGED <<bus, pending, token, cancelled, history, answered, injected,
                 ghostVars>>

Dispatch == Receive \/ CheckActive \/ PushPending \/ Reset \/ Spawn

-----------------------------------------------------------------------------
(* A handler task: handle_user_message and what follows it.                *)

\* handle_user_message is over: the configuration of the loop is dropped.
Leave(m) == handler' = [handler EXCEPT ![m] =
                          [NoHandler EXCEPT !.step = "deactivate"]]

\* The handler publishes an assistant.message with an error and returns.
Fail(m) ==
  /\ Leave(m)
  /\ answered' = answered \cup {m}

PersistUserMessage(m) ==
  /\ At(m, "start")
  /\ Append_message("user", m, m)
  /\ Goto(m, "load")
  /\ UNCHANGED <<bus, dispatcher, runtimeVars, answered, injected, ghostVars>>

\* Mutant: a failed load returns without telling the client.
LoadHistorySilently(m) ==
  /\ At(m, "load")
  /\ \/ \E next \in {"acquire", "stream"} : Goto(m, next)
     \/ Leave(m)
  /\ UNCHANGED <<bus, dispatcher, runtimeVars, history, answered, injected,
                 ghostVars>>

\* load_messages, compression and prompt composition; the policy of the
\* conversation may leave it without tools.
LoadHistory(m) ==
  /\ At(m, "load")
  /\ \/ \E next \in {"acquire", "stream"} : Goto(m, next) /\ UNCHANGED answered
     \/ Fail(m)
  /\ UNCHANGED <<bus, dispatcher, runtimeVars, history, injected, ghostVars>>

\* process_without_tools: one streamed or buffered call, no draining.
Stream(m) ==
  /\ At(m, "stream")
  /\ \/ Goto(m, "finalize") /\ UNCHANGED answered
     \/ Fail(m)
  /\ UNCHANGED <<bus, dispatcher, runtimeVars, history, injected, ghostVars>>

\* pool.acquire, which the handler goes on without when it is refused; then
\* the loop is configured with the cancel token of the moment.
StartLoop(m) ==
  /\ At(m, "acquire")
  /\ handler' = [handler EXCEPT ![m].step = "drain",
                                ![m].token = token[ConvOf[m]]]
  /\ UNCHANGED <<bus, dispatcher, runtimeVars, history, answered, injected,
                 ghostVars>>

\* Mutant: the buffer is copied and not emptied.
DrainByCopy(m) ==
  /\ At(m, "drain")
  /\ handler' = [handler EXCEPT ![m].step = "inject",
                                ![m].batch = pending[ConvOf[m]]]
  /\ UNCHANGED <<bus, dispatcher, runtimeVars, history, answered, injected,
                 ghostVars>>

\* The top of ReactLoop::run_inner empties the pending buffer...
DrainPending(m) ==
  /\ At(m, "drain")
  /\ handler' = [handler EXCEPT ![m].step = "inject",
                                ![m].batch = pending[ConvOf[m]]]
  /\ pending' = [pending EXCEPT ![ConvOf[m]] = <<>>]
  /\ UNCHANGED <<bus, dispatcher, active, token, cancelled, history, answered,
                 injected, ghostVars>>

\* ... and persists and adds to the chat one message after another.
InjectNext(m) ==
  LET batch == handler[m].batch IN
  /\ At(m, "inject")
  /\ batch # <<>>
  /\ Append_message("user", Head(batch), m)
  /\ injected' = injected \cup {Head(batch)}
  /\ handler' = [handler EXCEPT ![m].batch = Tail(batch)]
  /\ UNCHANGED <<bus, dispatcher, runtimeVars, answered, ghostVars>>

\* Mutant: the turn limit is not checked.
BeginTurnUnlimited(m) ==
  /\ At(m, "inject")
  /\ handler[m].batch = <<>>
  /\ IF handler[m].token \in cancelled
       THEN Goto(m, "finalize") /\ UNCHANGED answered
       ELSE \/ Goto(m, "llm") /\ UNCHANGED answered
            \/ Fail(m)
  /\ UNCHANGED <<bus, dispatcher, runtimeVars, history, injected, ghostVars>>

\* Mutant: a cancelled loop goes round again instead of returning.
BeginTurnRetrying(m) ==
  /\ At(m, "inject")
  /\ handler[m].batch = <<>>
  /\ IF handler[m].token \in cancelled
       THEN Goto(m, "drain") /\ UNCHANGED answered
       ELSE IF handler[m].turns >= MaxTurns
              THEN Goto(m, "finalize") /\ UNCHANGED answered
              ELSE Goto(m, "llm") /\ UNCHANGED answered
  /\ UNCHANGED <<bus, dispatcher, runtimeVars, history, injected, ghostVars>>

\* The checks before a call of the model: cancellation, turn limit, output
\* tokens (only after a first call), wall-clock deadline, in this order.
BeginTurn(m) ==
  /\ At(m, "inject")
  /\ handler[m].batch = <<>>
  /\ IF handler[m].token \in cancelled \/ handler[m].turns >= MaxTurns
       THEN Goto(m, "finalize") /\ UNCHANGED answered
       ELSE \/ Goto(m, "llm") /\ UNCHANGED answered
            \/ handler[m].turns > 0 /\ Goto(m, "finalize") /\ UNCHANGED answered
            \/ Fail(m)
  /\ UNCHANGED <<bus, dispatcher, runtimeVars, history, injected, ghostVars>>

\* Mutant: the flag is cleared before the reply is persisted.
LlmReturnsInactive(m) ==
  /\ At(m, "llm")
  /\ \E next \in {"finalize", "tools"} :
       /\ handler' = [handler EXCEPT ![m].step = next, ![m].turns = @ + 1]
       /\ active' = [active EXCEPT ![ConvOf[m]] = (next = "tools")]
  /\ UNCHANGED <<bus, dispatcher, pending, token, cancelled, history, answered,
                 injected, ghostVars>>

\* provider.chat under the remaining time: a final text, tool calls, or an
\* error or timeout that ends the loop without counting the call.
LlmReturns(m) ==
  /\ At(m, "llm")
  /\ \/ \E next \in {"finalize", "tools"} :
          /\ handler' = [handler EXCEPT ![m].step = next, ![m].turns = @ + 1]
          /\ UNCHANGED answered
     \/ Fail(m)
  /\ UNCHANGED <<bus, dispatcher, runtimeVars, history, injected, ghostVars>>

\* The tool calls of the response have run, or one was yield_control.
ToolsReturn(m) ==
  /\ At(m, "tools")
  /\ \E next \in {"drain", "finalize"} : Goto(m, next)
  /\ UNCHANGED <<bus, dispatcher, runtimeVars, history, answered, injected,
                 ghostVars>>

\* compact_tool_response slices the tail of a long result at a byte offset
\* that need not be a character boundary: the task panics and nothing after
\* handle_user_message runs.
ToolPanics(m) ==
  /\ At(m, "tools")
  /\ Goto(m, "dead")
  /\ UNCHANGED <<bus, dispatcher, runtimeVars, history, answered, injected,
                 ghostVars>>

\* finalize_response: persist the reply unless it is empty, then publish it.
Finalize(m) ==
  /\ At(m, "finalize")
  /\ Append_message("assistant", m, m)
  /\ answered' = answered \cup {m}
  /\ Leave(m)
  /\ UNCHANGED <<bus, dispatcher, runtimeVars, injected, ghostVars>>

\* rt.set_active(false)
Deactivate(m) ==
  /\ At(m, "deactivate")
  /\ active' = [active EXCEPT ![ConvOf[m]] = FALSE]
  /\ Goto(m, "final_drain")
  /\ UNCHANGED <<bus, dispatcher, pending, token, cancelled, history,
                 answered, injected, ghostVars>>

\* Mutant: the flag is cleared once more, after the last drain.
FinalDrainClearingFlag(m) ==
  LET left == pending[ConvOf[m]] IN
  /\ At(m, "final_drain")
  /\ handler' = [handler EXCEPT
                   ![m].step = IF left = <<>> THEN "done" ELSE "republish",
                   ![m].batch = left]
  /\ pending' = [pending EXCEPT ![ConvOf[m]] = <<>>]
  /\ active' = [active EXCEPT ![ConvOf[m]] = FALSE]
  /\ UNCHANGED <<bus, dispatcher, token, cancelled, history, answered,
                 injected, ghostVars>>

\* Mutant: nothing is drained once the loop has ended.
NoFinalDrain(m) ==
  /\ At(m, "final_drain")
  /\ Goto(m, "done")
  /\ UNCHANGED <<bus, dispatcher, runtimeVars, history, answered, injected,
                 ghostVars>>

\* let pending = rt.drain()
FinalDrain(m) ==
  LET left == pending[ConvOf[m]] IN
  /\ At(m, "final_drain")
  /\ handler' = [handler EXCEPT
                   ![m].step = IF left = <<>> THEN "done" ELSE "republish",
                   ![m].batch = left]
  /\ pending' = [pending EXCEPT ![ConvOf[m]] = <<>>]
  /\ UNCHANGED <<bus, dispatcher, active, token, cancelled, history, answered,
                 injected, ghostVars>>

\* Mutant: only the first drained message is published again.
RepublishFirst(m) ==
  LET batch == handler[m].batch IN
  /\ At(m, "republish")
  /\ batch # <<>>
  /\ Publish(Head(batch))
  /\ handler' = [handler EXCEPT ![m].batch = <<>>, ![m].step = "done"]
  /\ UNCHANGED <<dispatcher, runtimeVars, history, answered, injected, sent,
                 discarded, earlier>>

\* Each drained message is published again as a new UserMessage.
Republish(m) ==
  LET batch == handler[m].batch IN
  /\ At(m, "republish")
  /\ batch # <<>>
  /\ Publish(Head(batch))
  /\ handler' = [handler EXCEPT
                   ![m].batch = Tail(batch),
                   ![m].step = IF Len(batch) = 1 THEN "done" ELSE "republish"]
  /\ UNCHANGED <<dispatcher, runtimeVars, history, answered, injected, sent,
                 discarded, earlier>>

Handle(m) ==
  \/ PersistUserMessage(m) \/ LoadHistory(m) \/ Stream(m) \/ StartLoop(m)
  \/ DrainPending(m) \/ InjectNext(m) \/ BeginTurn(m) \/ LlmReturns(m)
  \/ ToolsReturn(m) \/ ToolPanics(m) \/ Finalize(m)
  \/ Deactivate(m) \/ FinalDrain(m) \/ Republish(m)

Next ==
  \/ \E m \in Messages : Send(m)
  \/ \E c \in Conversations : Cancel(c)
  \/ Dispatch
  \/ \E m \in Messages : Handle(m)

Spec == Init /\ [][Next]_vars

-----------------------------------------------------------------------------
(* Fairness.  The executor polls every task that is ready, so the          *)
(* dispatcher and the handlers go on; a call of the model ends, since the  *)
(* providers' HTTP clients have a timeout and the loop's calls run under   *)
(* tokio::time::timeout besides.  Nothing bounds a tool (an approval       *)
(* prompt may stay unanswered) or the wait for a pool slot: these two have *)
(* no fairness, and the liveness properties name them.                     *)

FairHandler(m) ==
  \/ PersistUserMessage(m) \/ LoadHistory(m) \/ Stream(m)
  \/ DrainPending(m) \/ InjectNext(m) \/ BeginTurn(m) \/ LlmReturns(m)
  \/ Finalize(m) \/ Deactivate(m) \/ FinalDrain(m) \/ Republish(m)

Fairness ==
  /\ WF_vars(Dispatch)
  /\ \A m \in Messages : WF_vars(FairHandler(m))

FairSpec == Spec /\ Fairness

-----------------------------------------------------------------------------
(* Safety.                                                                 *)

\* At most one handler owns a conversation, and the active flag is up exactly
\* while one does: dispatch_user_message relies on a flag it reads, resets
\* and sets in three separate steps while an earlier handler may still be
\* clearing it.
OneLoopPerConversation ==
  \A c \in Conversations :
    LET owners == {m \in Messages : ConvOf[m] = c /\ Owns(m)} IN
      /\ \A m, n \in owners : m = n
      /\ active[c] <=> owners # {}

\* The token that cancel_session triggers at any moment of a loop is the one
\* this loop watches, and a loop never starts with a token that was triggered
\* before its message was dispatched.
CancelHitsTheRunningLoop ==
  \A m \in Messages :
    /\ Owns(m) => token[ConvOf[m]] = m
    /\ handler[m].step \in LoopSteps => handler[m].token = m

\* In the messages file the entries of one turn (its user message, the
\* messages injected into it, its reply) are never split by another turn's.
TurnsDoNotInterleave ==
  \A c \in Conversations :
    \A i, j, k \in DOMAIN history[c] :
      /\ i < j /\ j < k
      /\ history[c][i].turn = history[c][k].turn
      => history[c][j].turn = history[c][i].turn

\* User messages are persisted in the order in which run_loop (last) received
\* them, whatever buffer they went through, and each of them at most once.
PersistedInArrivalOrder ==
  \A c \in Conversations :
    \A i, j \in DOMAIN history[c] :
      /\ i < j
      /\ history[c][i].role = "user" /\ history[c][j].role = "user"
      => /\ history[c][i].msg # history[c][j].msg
         /\ <<history[c][i].msg, history[c][j].msg>> \in earlier

\* Every message that was published is in exactly one place: no hand-over
\* between channel, dispatcher, buffer, drain, chat and re-publication
\* duplicates a message or forgets one; what is gone is gone by a lag of the
\* channel, by a reset, or because it had no text.
Occurrences(s, m) == Cardinality({i \in DOMAIN s : s[i] = m})

MessagesConserved ==
  \A m \in Messages :
    LET held == {n \in Messages : Occurrences(handler[n].batch, m) > 0}
        places ==
          { p \in {"bus", "dispatcher", "pending", "batch", "handler",
                   "injected", "skipped", "discarded"} :
            CASE p = "bus" -> m \in Elems(bus)
              [] p = "dispatcher" -> dispatcher.step # "recv" /\ dispatcher.msg = m
              [] p = "pending" -> m \in Elems(pending[ConvOf[m]])
              [] p = "batch" -> held # {}
              [] p = "handler" -> handler[m].step # "none"
              [] p = "injected" -> m \in injected
              [] p = "skipped" -> m \in skipped
              [] p = "discarded" -> m \in discarded }
    IN /\ Cardinality(places) = IF m \in sent THEN 1 ELSE 0
       /\ Occurrences(bus, m) <= 1
       /\ \A c \in Conversations :
            Occurrences(pending[c], m) <= IF c = ConvOf[m] THEN 1 ELSE 0
       /\ Cardinality(held) <= 1
       /\ \A n \in held : Occurrences(handler[n].batch, m) = 1

\* docs/ws-protocol.md, send_message: a message that meets a running loop "is
\* buffered and injected before the next LLM call".  No buffered message is
\* thrown away instead.
BufferedMessagesSurvive == discarded \subseteq NoText

-----------------------------------------------------------------------------
(* The abstract view of a state (see ConversationTurns).                   *)

StageOf(m) ==
  CASE m \notin sent -> "new"
    [] m \in skipped \cup discarded -> "lost"
    [] handler[m].step # "none" \/ m \in injected -> "taken"
    [] OTHER -> "waiting"

TurnOf(c) ==
  LET owners == {m \in Messages : ConvOf[m] = c /\ Owns(m)}
  IN  IF owners = {} THEN None ELSE CHOOSE m \in owners : TRUE

Turns == INSTANCE ConversationTurns WITH
           stage <- [m \in Messages |-> StageOf(m)],
           turn <- [c \in Conversations |-> TurnOf(c)],
           replied <- answered

\* The dispatcher and its handlers implement ConversationTurns: a message
\* taken into a turn is never lost, turns of a conversation exclude one
\* another, and a turn ends only after it has replied.
ImplementsTurns == Turns!Spec

-----------------------------------------------------------------------------
(* Liveness, under FairSpec.                                               *)

\* The handler of m is never held forever by a tool or by the actor pool.
NeverStuck(m) ==
  /\ []<>(~At(m, "tools"))
  /\ []<>(~At(m, "acquire"))

\* Every handler publishes its reply or its error and gives its conversation
\* back, unless it panicked.
EveryTurnEnds ==
  \A m \in Messages :
    NeverStuck(m) =>
      (At(m, "start") ~> ((m \in answered /\ ~Owns(m)) \/ At(m, "dead")))

\* A message that waits in the buffer of a conversation whose handler runs is
\* taken out of it, by a drain of that handler or by the next dispatch, unless
\* the handler panicked.
DeadHandler(c) == \E n \in Messages : ConvOf[n] = c /\ At(n, "dead")

BufferIsEmptied ==
  (\A n \in Messages : NeverStuck(n)) =>
    \A m \in Messages :
      (m \in Elems(pending[ConvOf[m]]) /\ active[ConvOf[m]]) ~>
        (m \notin Elems(pending[ConvOf[m]]) \/ DeadHandler(ConvOf[m]))

\* A message waits in a buffer although no handler runs that would drain it:
\* run_loop read the flag before, and pushed after, the last drain.
Stranded(m) == m \in Elems(pending[ConvOf[m]]) /\ ~active[ConvOf[m]]

\* Every published message is answered by a turn of its own or joins one,
\* unless the channel or the dispatcher dropped it (a reset, or no text), it is
\* stranded, or its conversation's handler panicked.
EveryMessageSettles ==
  (\A n \in Messages : NeverStuck(n)) =>
    \A m \in Messages :
      m \in sent ~>
        \/ m \in answered \cup injected \cup skipped \cup discarded
        \/ Stranded(m)
        \/ DeadHandler(ConvOf[m])
=============================================================================
