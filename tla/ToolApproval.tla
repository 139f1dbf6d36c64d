------------------------------ MODULE ToolApproval ------------------------------
(***************************************************************************)
(* The approval of dangerous tools.  The loop of a conversation that is    *)
(* about to run one asks the user: the prompt goes over the event bus and  *)
(* the WebSocket hub to the clients of the conversation, the answer comes  *)
(* back over the bus to the open channel of every waiting loop.  A loop    *)
(* runs its tools one after the other, so it waits for one prompt at most. *)
(***************************************************************************)
EXTENDS Naturals, SequencesExt

CONSTANTS
  Conversations,
  Tools,          \* the dangerous tools, which the wrapper guards
  GlobalAllowed,  \* those that the configuration allows
  Clients,        \* WebSocket clients
  All,            \* "*", the permission for every tool
  None,
  Slots,          \* capacity of the channel of a subscription
  MaxCalls,       \* bound: calls of tools
  MaxBinds,       \* bound: times a client opens a conversation
  MaxAnswers      \* bound: responses of the clients, an accept-all being one

ASSUME ApprovalAssumption ==
  /\ GlobalAllowed \subseteq Tools
  /\ All \notin Tools
  /\ None \notin Conversations
  /\ Slots \in Nat \ {0}
  /\ MaxCalls \in Nat /\ MaxBinds \in Nat /\ MaxAnswers \in Nat

VARIABLES
  allowed,   \* ToolPermissions::session_allowed
  call,      \* the call of each conversation's loop: step, and its prompt
  channel,   \* responses in the channel the loop subscribed, oldest first
  hub,       \* prompts on the way to the bridge of the hub, oldest first
  bound,     \* the conversation of each client
  inbox,     \* prompts each client has received and not answered
  shown,     \* prompts, by their tokens, that some client has received
  calls,     \* calls so far
  binds,     \* conversations opened so far
  answers,   \* the responses the clients gave, in the order published
  accepted,  \* ghost: conversations for which a user accepted all tools
  lost       \* ghost: prompts, or their responses, that were dropped on the way

vars == <<allowed, call, channel, hub, bound, inbox, shown, calls, binds,
          answers, accepted, lost>>

\* The token names the tool and is unique; the event names the conversation.
Prompt == [conv : Conversations, tool : Tools, seq : 1 .. MaxCalls]

Response == [prompt : Prompt, value : {"once", "session", "deny"}]

\* "passed" calls found the tool allowed, "granted" ones were answered.
Steps == {"asking", "subscribed", "waiting", "passed", "granted"}

NoCall == [step |-> "idle", prompt |-> None]

CallState == {NoCall} \cup [step : Steps, prompt : Prompt]

TypeOK ==
  /\ allowed \in [Conversations -> SUBSET (Tools \cup {All})]
  /\ call \in [Conversations -> CallState]
  /\ channel \in [Conversations -> Seq(Response)]
  /\ hub \in Seq(Prompt)
  /\ bound \in [Clients -> Conversations \cup {None}]
  /\ inbox \in [Clients -> SUBSET Prompt]
  /\ shown \subseteq Prompt
  /\ calls \in 0 .. MaxCalls
  /\ binds \in 0 .. MaxBinds
  /\ answers \in Seq(Response)
  /\ accepted \subseteq Conversations
  /\ lost \subseteq Prompt
  /\ \A c \in Conversations :
       /\ Len(channel[c]) <= Slots
       /\ call[c].step # "idle" => call[c].prompt.conv = c

At(c, s) == call[c].step = s
Goto(c, s) == call' = [call EXCEPT ![c].step = s]

Init ==
  /\ allowed = [c \in Conversations |-> {}]
  /\ call = [c \in Conversations |-> NoCall]
  /\ channel = [c \in Conversations |-> <<>>]
  /\ hub = <<>>
  /\ bound = [k \in Clients |-> None]
  /\ inbox = [k \in Clients |-> {}]
  /\ shown = {}
  /\ calls = 0
  /\ binds = 0
  /\ answers = <<>>
  /\ accepted = {}
  /\ lost = {}

-----------------------------------------------------------------------------
(* The loop: DangerousToolWrapper::run and request_approval *)

IsAllowed(c, t) ==
  t \in GlobalAllowed \/ All \in allowed[c] \/ t \in allowed[c]

\* The wrapper looks the permission up; the tool runs at once or is asked for.
Call(c, t) ==
  /\ At(c, "idle")
  /\ calls < MaxCalls
  /\ calls' = calls + 1
  /\ call' = [call EXCEPT ![c] =
                [step   |-> IF IsAllowed(c, t) THEN "passed" ELSE "asking",
                 prompt |-> [conv |-> c, tool |-> t, seq |-> calls + 1]]]
  /\ UNCHANGED <<allowed, channel, hub, bound, inbox, shown, binds, answers, accepted,
                 lost>>

\* The channel for the responses is open before the prompt is published.
Subscribe(c) ==
  /\ At(c, "asking")
  /\ Goto(c, "subscribed")
  /\ UNCHANGED <<allowed, channel, hub, bound, inbox, shown, calls, binds, answers,
                 accepted, lost>>

Publish(c) ==
  /\ At(c, "subscribed")
  /\ hub' = Append(hub, call[c].prompt)
  /\ Goto(c, "waiting")
  /\ UNCHANGED <<allowed, channel, bound, inbox, shown, calls, binds, answers,
                 accepted, lost>>

\* What the loop does with the value of response r.
Obey(c, r) ==
  /\ call' = [call EXCEPT ![c] = IF r.value \in {"once", "session"}
                                  THEN [@ EXCEPT !.step = "granted"] ELSE NoCall]
  /\ allowed' = IF r.value = "session"
                  THEN [allowed EXCEPT ![c] = @ \cup {call[c].prompt.tool}]
                  ELSE allowed
  /\ channel' = [channel EXCEPT ![c] = <<>>]
  /\ UNCHANGED <<hub, bound, inbox, shown, calls, binds, answers, accepted, lost>>

\* Mutant: a response to another prompt is passed over again and again.
SkipAndPutBack(c) ==
  /\ At(c, "waiting")
  /\ channel[c] # <<>>
  /\ Head(channel[c]).prompt # call[c].prompt
  /\ channel' = [channel EXCEPT ![c] = <<Head(@)>> \o Tail(@)]
  /\ UNCHANGED <<allowed, call, hub, bound, inbox, shown, calls, binds, answers,
                 accepted, lost>>

\* Mutant: what queued up behind a response to another prompt goes with it.
SkipAll(c) ==
  /\ At(c, "waiting")
  /\ channel[c] # <<>>
  /\ Head(channel[c]).prompt # call[c].prompt
  /\ channel' = [channel EXCEPT ![c] = <<>>]
  /\ UNCHANGED <<allowed, call, hub, bound, inbox, shown, calls, binds, answers,
                 accepted, lost>>

\* Responses to other prompts are passed over ...
Skip(c) ==
  /\ At(c, "waiting")
  /\ channel[c] # <<>>
  /\ Head(channel[c]).prompt # call[c].prompt
  /\ channel' = [channel EXCEPT ![c] = Tail(@)]
  /\ UNCHANGED <<allowed, call, hub, bound, inbox, shown, calls, binds, answers,
                 accepted, lost>>

\* Mutant: any response ends the wait, whatever its token.
TakeAny(c) ==
  /\ At(c, "waiting")
  /\ channel[c] # <<>>
  /\ Obey(c, Head(channel[c]))

\* Mutant: the newest response to the prompt decides.
TakeNewest(c) ==
  /\ At(c, "waiting")
  /\ channel[c] # <<>>
  /\ Last(channel[c]).prompt = call[c].prompt
  /\ Obey(c, Last(channel[c]))

\* ... and the first one to this prompt decides; the channel is closed.
Take(c) ==
  /\ At(c, "waiting")
  /\ channel[c] # <<>>
  /\ Head(channel[c]).prompt = call[c].prompt
  /\ Obey(c, Head(channel[c]))

\* The tool has run.
Finish(c) ==
  /\ call[c].step \in {"passed", "granted"}
  /\ call' = [call EXCEPT ![c] = NoCall]
  /\ UNCHANGED <<allowed, channel, hub, bound, inbox, shown, calls, binds, answers,
                 accepted, lost>>

-----------------------------------------------------------------------------
(* The hub: bridge_events and the clients *)

\* send_to_session: every client of the conversation, perhaps none.
Forward ==
  /\ hub # <<>>
  /\ hub' = Tail(hub)
  /\ LET p == Head(hub)
         listeners == {k \in Clients : bound[k] = p.conv}
     IN  /\ inbox' = [k \in Clients |->
                        IF k \in listeners THEN inbox[k] \cup {p} ELSE inbox[k]]
         /\ shown' = IF listeners = {} THEN shown ELSE shown \cup {p}
         /\ lost' = IF listeners = {} THEN lost \cup {p} ELSE lost
  /\ UNCHANGED <<allowed, call, channel, bound, calls, binds, answers, accepted>>

\* The bridge shares the bus with every other event: it lags and skips prompts.
Lag ==
  /\ hub # <<>>
  /\ hub' = Tail(hub)
  /\ lost' = lost \cup {Head(hub)}
  /\ UNCHANGED <<allowed, call, channel, bound, inbox, shown, calls, binds, answers,
                 accepted>>

\* open_session binds the client: prompts that wait there are not sent again.
Bind(k, c) ==
  /\ bound[k] # c
  /\ binds < MaxBinds
  /\ binds' = binds + 1
  /\ bound' = [bound EXCEPT ![k] = c]
  /\ UNCHANGED <<allowed, call, channel, hub, inbox, shown, calls, answers, accepted,
                 lost>>

Answered(p) == \E r \in Range(answers) : r.prompt = p

\* The client goes, and with it the prompts nobody has answered that it was the
\* last to hold.
Disconnect(k) ==
  /\ bound[k] # None
  /\ bound' = [bound EXCEPT ![k] = None]
  /\ inbox' = [inbox EXCEPT ![k] = {}]
  /\ lost' = lost \cup
       {p \in inbox[k] : ~Answered(p) /\ \A j \in Clients \ {k} : p \notin inbox[j]}
  /\ UNCHANGED <<allowed, call, channel, hub, shown, calls, binds, answers, accepted>>

\* Mutant: the channel takes every response.
KeptAll(q) == q

\* A channel holds the newest Slots responses.
Kept(q) == IF Len(q) > Slots THEN Tail(q) ELSE q

\* Users have not said all that the bound allows.
MaySpeak == Len(answers) + Cardinality(accepted) < MaxAnswers

Listening(c) == call[c].step \in {"subscribed", "waiting"}

\* handle_prompt_response publishes what a client says for every open channel.
\* It takes any token, also one answered before or shown to other clients only.
Answer(k, p, v) ==
  /\ MaySpeak
  /\ inbox' = [inbox EXCEPT ![k] = @ \ {p}]
  /\ LET r == [prompt |-> p, value |-> v]
     IN  /\ answers' = Append(answers, r)
         /\ channel' = [c \in Conversations |->
                          IF Listening(c) THEN Kept(Append(channel[c], r))
                                          ELSE channel[c]]
  /\ lost' = lost \cup
       {call[c].prompt : c \in {d \in Conversations :
          Listening(d) /\ Len(channel[d]) = Slots
            /\ Head(channel[d]).prompt = call[d].prompt}}
  /\ UNCHANGED <<allowed, call, hub, bound, shown, calls, binds, accepted>>

\* handle_accept_all, for any conversation: later calls pass; an open prompt
\* stays open.
AcceptAll(c) ==
  /\ MaySpeak
  /\ allowed' = [allowed EXCEPT ![c] = @ \cup {All}]
  /\ accepted' = accepted \cup {c}
  /\ UNCHANGED <<call, channel, hub, bound, inbox, shown, calls, binds, answers, lost>>

Next ==
  \/ \E c \in Conversations :
       \/ \E t \in Tools : Call(c, t)
       \/ Subscribe(c) \/ Publish(c) \/ Skip(c) \/ Take(c) \/ Finish(c)
       \/ AcceptAll(c)
       \/ \E k \in Clients : Bind(k, c)
  \/ Forward \/ Lag
  \/ \E k \in Clients :
       \/ Disconnect(k)
       \/ \E p \in shown, v \in {"once", "session", "deny"} : Answer(k, p, v)

Spec == Init /\ [][Next]_vars

\* The tasks of the gateway are scheduled; users owe nothing.
FairSpec ==
  /\ Spec
  /\ WF_vars(Forward)
  /\ \A c \in Conversations :
       WF_vars(Subscribe(c)) /\ WF_vars(Publish(c)) /\ WF_vars(Skip(c))
         /\ WF_vars(Take(c))

-----------------------------------------------------------------------------
Said(p, values) ==
  \E r \in Range(answers) : r.prompt = p /\ r.value \in values

\* A dangerous tool runs only on the configuration's word or a user's: for this
\* very call, for this tool in this conversation, or for all of the conversation.
RunsOnlyWhenGranted ==
  \A c \in Conversations :
    LET p == call[c].prompt
    IN  /\ At(c, "granted") => Said(p, {"once", "session"})
        /\ At(c, "passed") =>
             \/ p.tool \in GlobalAllowed
             \/ c \in accepted
             \/ \E r \in Range(answers) :
                  /\ r.value = "session"
                  /\ r.prompt.conv = c
                  /\ r.prompt.tool = p.tool

\* The prompt of a waiting loop is on its way, before a user or answered, unless
\* it was dropped where the bridge lagged, no client was there, the last client
\* with it left before an answer, or the loop's own channel overflowed.
PromptIsSomewhere ==
  \A c \in Conversations :
    At(c, "waiting") =>
      LET p == call[c].prompt
      IN  \/ p \in Range(hub)
          \/ \E k \in Clients : p \in inbox[k]
          \/ \E r \in Range(channel[c]) : r.prompt = p
          \/ p \in lost

\* When one prompt is answered several times, the first answer decides and the
\* later ones change nothing, unless the first was dropped.
FirstAnswerDecides ==
  [][\A c \in Conversations :
       At(c, "waiting") /\ call'[c].step # "waiting" /\ call[c].prompt \notin lost =>
         LET i == CHOOSE i \in 1 .. Len(answers) :
                    /\ answers[i].prompt = call[c].prompt
                    /\ \A j \in 1 .. i - 1 : answers[j].prompt # call[c].prompt
         IN  (answers[i].value = "deny") <=> (call'[c].step = "idle")]_vars

AwaitsAnswered(c, n) ==
  /\ At(c, "waiting")
  /\ call[c].prompt.seq = n
  /\ call[c].prompt \notin lost
  /\ Said(call[c].prompt, {"once", "session", "deny"})

\* A loop whose prompt was answered goes on, unless the answer was dropped.
AnsweredPromptsSettle ==
  \A c \in Conversations : \A n \in 1 .. MaxCalls :
    AwaitsAnswered(c, n) ~> ~AwaitsAnswered(c, n)
=============================================================================
