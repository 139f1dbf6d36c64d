---------------------------- MODULE ToolApprovalProofs ----------------------------
(***************************************************************************)
(* For any conversations, tools and clients, and channels of any capacity: *)
(* the types, that a dangerous tool runs only on a user's word, that an    *)
(* open prompt is never silently gone, and that its first answer decides.  *)
(***************************************************************************)
EXTENDS ToolApproval, SequenceTheorems, TLAPS

-----------------------------------------------------------------------------
(* Sequences and the set of their elements *)

LEMMA RangeAppend ==
  ASSUME NEW S, NEW s \in Seq(S), NEW x \in S
  PROVE  /\ Append(s, x) \in Seq(S)
         /\ Len(Append(s, x)) = Len(s) + 1
         /\ Range(Append(s, x)) = Range(s) \cup {x}
BY AppendProperties, LenProperties DEF Range

LEMMA RangeTail ==
  ASSUME NEW S, NEW s \in Seq(S), s # <<>>
  PROVE  /\ Head(s) \in S
         /\ Tail(s) \in Seq(S)
         /\ Len(Tail(s)) = Len(s) - 1
         /\ Range(s) = {Head(s)} \cup Range(Tail(s))
<1>1. /\ Head(s) \in S /\ Head(s) = s[1]
      /\ Tail(s) \in Seq(S) /\ Len(Tail(s)) = Len(s) - 1
      /\ \A i \in 1 .. Len(s) - 1 : Tail(s)[i] = s[i + 1]
  BY HeadTailProperties, LenProperties
<1>2. Len(s) \in Nat /\ Len(s) > 0 /\ DOMAIN s = 1 .. Len(s)
      /\ DOMAIN Tail(s) = 1 .. Len(s) - 1
  BY <1>1, LenProperties, EmptySeq
<1>3. ASSUME NEW i \in 1 .. Len(s) PROVE s[i] \in {Head(s)} \cup Range(Tail(s))
  <2>1. CASE i = 1
    BY <1>1, <2>1
  <2>2. CASE i # 1
    <3>1. i - 1 \in DOMAIN Tail(s) /\ Tail(s)[i - 1] = s[i]
      BY <1>1, <1>2, <2>2
    <3> QED
      BY <3>1 DEF Range
  <2> QED
    BY <2>1, <2>2
<1>4. ASSUME NEW i \in 1 .. Len(s) - 1 PROVE Tail(s)[i] \in Range(s)
  <2>1. i + 1 \in DOMAIN s /\ Tail(s)[i] = s[i + 1]
    BY <1>1, <1>2
  <2> QED
    BY <2>1 DEF Range
<1>5. Head(s) \in Range(s)
  BY <1>1, <1>2 DEF Range
<1> QED
  BY <1>1, <1>2, <1>3, <1>4, <1>5 DEF Range

LEMMA RangeEmpty == Range(<<>>) = {}
BY DEF Range

LEMMA RangeType ==
  ASSUME NEW S, NEW s \in Seq(S) PROVE Range(s) \subseteq S
BY ElementOfSeq, LenProperties DEF Range

\* A full channel gives up its oldest response and nothing else.
LEMMA KeptFacts ==
  ASSUME NEW S, NEW s \in Seq(S), NEW x \in S, Len(s) <= Slots
  PROVE  LET q == Kept(Append(s, x))
         IN  /\ q \in Seq(S)
             /\ Len(q) <= Slots
             /\ Range(q) \subseteq Range(s) \cup {x}
             /\ x \in Range(q)
             /\ Range(s) \subseteq Range(q) \/
                  (Len(s) = Slots /\ s # <<>> /\ Range(s) \subseteq {Head(s)} \cup Range(q))
<1> USE ApprovalAssumption
<1> DEFINE a == Append(s, x)
<1>1. /\ a \in Seq(S) /\ Len(a) = Len(s) + 1 /\ Range(a) = Range(s) \cup {x}
      /\ Len(s) \in Nat
  BY RangeAppend, LenProperties
<1>2. CASE Len(a) <= Slots
  <2>1. Kept(a) = a
    BY <1>1, <1>2 DEF Kept
  <2> QED
    BY <1>1, <1>2, <2>1
<1>3. CASE Len(a) > Slots
  <2>1. Kept(a) = Tail(a) /\ Len(s) = Slots
    BY <1>1, <1>3 DEF Kept
  <2>2. s # <<>> /\ a # <<>>
    BY <1>1, <2>1, EmptySeq
  <2>3. Head(a) = Head(s)
    BY <2>1, <2>2, HeadTailProperties, AppendProperties, LenProperties
  <2>4. /\ Tail(a) \in Seq(S) /\ Len(Tail(a)) = Len(a) - 1
        /\ Range(a) = {Head(a)} \cup Range(Tail(a))
    BY <1>1, <2>2, RangeTail
  <2>5. x \in Range(Tail(a))
    <3>1. a[Len(a)] = x /\ Len(a) >= 2
      BY <1>1, <2>1, AppendProperties
    <3>2. Len(a) - 1 \in 1 .. Len(Tail(a)) /\ Tail(a)[Len(a) - 1] = a[Len(a)]
      BY <1>1, <2>2, <2>4, <3>1, HeadTailProperties
    <3>3. DOMAIN Tail(a) = 1 .. Len(Tail(a))
      BY <2>4, LenProperties
    <3> QED
      BY <3>1, <3>2, <3>3 DEF Range
  <2> QED
    BY <1>1, <2>1, <2>2, <2>3, <2>4, <2>5
<1> QED
  BY <1>1, <1>2, <1>3

-----------------------------------------------------------------------------
(* Types *)

LEMMA CallFacts ==
  /\ NoCall \in CallState /\ NoCall.step = "idle"
  /\ \A x \in CallState : x.step # "idle" =>
       x \in [step : Steps, prompt : Prompt]
  /\ \A s \in Steps : \A p \in Prompt :
       [step |-> s, prompt |-> p] \in CallState
  /\ \A x \in [step : Steps, prompt : Prompt] : \A s \in Steps :
       /\ [x EXCEPT !.step = s] \in CallState
       /\ [x EXCEPT !.step = s].prompt = x.prompt
       /\ [x EXCEPT !.step = s].step = s
BY DEF NoCall, CallState, Steps

\* A call that goes on keeps its prompt.
LEMMA GotoFacts ==
  ASSUME TypeOK, NEW c \in Conversations, ~At(c, "idle"), NEW s \in Steps,
         Goto(c, s)
  PROVE  /\ call' \in [Conversations -> CallState]
         /\ call'[c].step = s /\ call'[c].prompt = call[c].prompt
         /\ call[c].prompt \in Prompt /\ call[c].prompt.conv = c
         /\ \A d \in Conversations \ {c} : call'[d] = call[d]
<1>1. call[c] \in [step : Steps, prompt : Prompt]
  BY CallFacts DEF TypeOK, At
<1>2. [call[c] EXCEPT !.step = s] \in CallState
  BY <1>1, CallFacts
<1>3. call' = [call EXCEPT ![c] = [call[c] EXCEPT !.step = s]]
  BY DEF Goto
<1>4. call[c].prompt \in Prompt /\ call[c].prompt.conv = c
  BY <1>1 DEF TypeOK, At
<1> QED
  BY <1>1, <1>2, <1>3, <1>4, CallFacts DEF TypeOK

\* A call that ends takes the other calls nowhere.
LEMMA EndFacts ==
  ASSUME TypeOK, NEW c \in Conversations, call' = [call EXCEPT ![c] = NoCall]
  PROVE  /\ call' \in [Conversations -> CallState]
         /\ call'[c].step = "idle"
         /\ \A d \in Conversations \ {c} : call'[d] = call[d]
BY CallFacts DEF TypeOK

LEMMA ObeyFacts ==
  ASSUME TypeOK, NEW c \in Conversations, NEW r, At(c, "waiting"), Obey(c, r)
  PROVE  /\ call' \in [Conversations -> CallState]
         /\ \A d \in Conversations \ {c} : call'[d] = call[d]
         /\ \/ call'[c].step = "idle"
            \/ /\ call'[c].step = "granted" /\ r.value \in {"once", "session"}
               /\ call'[c].prompt = call[c].prompt
         /\ call[c].prompt \in Prompt /\ call[c].prompt.conv = c
         /\ call[c].prompt.tool \in Tools
<1>1. call[c] \in [step : Steps, prompt : Prompt]
  BY CallFacts DEF TypeOK, At
<1>2. call[c].prompt \in Prompt /\ call[c].prompt.conv = c
      /\ call[c].prompt.tool \in Tools
  BY <1>1 DEF TypeOK, At, Prompt
<1>3. CASE r.value \in {"once", "session"}
  <2>1. Goto(c, "granted")
    BY <1>3 DEF Obey, Goto
  <2>2. ~At(c, "idle") /\ "granted" \in Steps
    BY DEF At, Steps
  <2> QED
    BY <1>2, <1>3, <2>1, <2>2, GotoFacts
<1>4. CASE r.value \notin {"once", "session"}
  BY <1>2, <1>4, EndFacts DEF Obey
<1> QED
  BY <1>3, <1>4

LEMMA TypeInit == Init => TypeOK
BY ApprovalAssumption, CallFacts, EmptySeq DEF Init, TypeOK

LEMMA TypeLoop ==
  ASSUME TypeOK, NEW c \in Conversations,
         \/ \E t \in Tools : Call(c, t)
         \/ Subscribe(c) \/ Publish(c) \/ Skip(c) \/ Take(c) \/ Finish(c)
  PROVE  TypeOK'
<1>1. ASSUME NEW t \in Tools, Call(c, t) PROVE TypeOK'
  <2> DEFINE p == [conv |-> c, tool |-> t, seq |-> calls + 1]
             s == IF IsAllowed(c, t) THEN "passed" ELSE "asking"
  <2>1. calls + 1 \in 1 .. MaxCalls
    BY <1>1, ApprovalAssumption DEF Call, TypeOK
  <2>2. p \in Prompt /\ s \in Steps /\ p.conv = c
    BY <2>1 DEF Prompt, Steps
  <2>3. [step |-> s, prompt |-> p] \in CallState
    BY <2>2, CallFacts
  <2>4. call' = [call EXCEPT ![c] = [step |-> s, prompt |-> p]]
        /\ calls' = calls + 1
        /\ UNCHANGED <<allowed, channel, hub, bound, inbox, shown, binds, answers,
                       accepted, lost>>
    BY <1>1 DEF Call
  <2> HIDE DEF p, s
  <2> QED
    BY <2>1, <2>2, <2>3, <2>4 DEF TypeOK
<1>2. CASE Subscribe(c)
  <2>1. ~At(c, "idle") /\ Goto(c, "subscribed") /\ "subscribed" \in Steps
    BY <1>2 DEF Subscribe, At, Steps
  <2> QED
    BY <1>2, <2>1, GotoFacts DEF Subscribe, TypeOK
<1>3. CASE Publish(c)
  <2>1. ~At(c, "idle") /\ Goto(c, "waiting") /\ "waiting" \in Steps
    BY <1>3 DEF Publish, At, Steps
  <2>2. hub' \in Seq(Prompt)
    BY <1>3, <2>1, GotoFacts, RangeAppend DEF Publish, TypeOK
  <2> QED
    BY <1>3, <2>1, <2>2, GotoFacts DEF Publish, TypeOK
<1>4. CASE Skip(c)
  <2>1. Tail(channel[c]) \in Seq(Response) /\ Len(Tail(channel[c])) <= Slots
    BY <1>4, RangeTail, LenProperties, ApprovalAssumption DEF Skip, TypeOK
  <2> QED
    BY <1>4, <2>1 DEF Skip, TypeOK
<1>5. CASE Take(c)
  <2> DEFINE r == Head(channel[c])
  <2>1. At(c, "waiting") /\ Obey(c, r)
    BY <1>5 DEF Take
  <2> HIDE DEF r
  <2>6. /\ call' \in [Conversations -> CallState]
        /\ \A d \in Conversations \ {c} : call'[d] = call[d]
        /\ call'[c].step # "idle" => call'[c].prompt = call[c].prompt
        /\ call[c].prompt.conv = c
        /\ call[c].prompt.tool \in Tools
    BY <2>1, ObeyFacts
  <2>7. allowed' = IF r.value = "session"
                    THEN [allowed EXCEPT ![c] = allowed[c] \cup {call[c].prompt.tool}]
                    ELSE allowed
    BY <2>1 DEF Obey
  <2>2. channel' \in [Conversations -> Seq(Response)]
        /\ \A d \in Conversations : Len(channel'[d]) <= Slots
    BY <2>1, EmptySeq, ApprovalAssumption DEF Obey, TypeOK
  <2>3. allowed' \in [Conversations -> SUBSET (Tools \cup {All})]
    BY <2>6, <2>7 DEF TypeOK
  <2>4. \A d \in Conversations : call'[d].step # "idle" => call'[d].prompt.conv = d
    BY <2>6 DEF TypeOK
  <2>5. UNCHANGED <<hub, bound, inbox, shown, calls, binds, answers, accepted, lost>>
    BY <2>1 DEF Obey
  <2> QED
    BY <2>1, <2>2, <2>3, <2>4, <2>5, ObeyFacts DEF TypeOK
<1>6. CASE Finish(c)
  BY <1>6, EndFacts DEF Finish, TypeOK
<1> QED
  BY <1>1, <1>2, <1>3, <1>4, <1>5, <1>6

LEMMA TypeHub ==
  ASSUME TypeOK,
         \/ Forward \/ Lag \/ \E c \in Conversations : AcceptAll(c)
         \/ \E k \in Clients :
              \/ Disconnect(k)
              \/ \E c \in Conversations : Bind(k, c)
              \/ \E p \in shown, v \in {"once", "session", "deny"} : Answer(k, p, v)
  PROVE  TypeOK'
<1>1. CASE Forward
  <2>1. Head(hub) \in Prompt /\ Tail(hub) \in Seq(Prompt)
    BY <1>1, RangeTail DEF Forward, TypeOK
  <2>3. inbox' \in [Clients -> SUBSET Prompt]
    BY <1>1, <2>1 DEF Forward, TypeOK
  <2>4. lost' \subseteq Prompt /\ shown' \subseteq Prompt
    BY <1>1, <2>1 DEF Forward, TypeOK
  <2> QED
    BY <1>1, <2>1, <2>3, <2>4 DEF Forward, TypeOK
<1>2. CASE Lag
  <2>1. Head(hub) \in Prompt /\ Tail(hub) \in Seq(Prompt)
    BY <1>2, RangeTail DEF Lag, TypeOK
  <2> QED
    BY <1>2, <2>1 DEF Lag, TypeOK
<1>3. ASSUME NEW k \in Clients, Disconnect(k) PROVE TypeOK'
  BY <1>3 DEF Disconnect, TypeOK
<1>4. ASSUME NEW c \in Conversations, AcceptAll(c) PROVE TypeOK'
  BY <1>4 DEF AcceptAll, TypeOK
<1>5. ASSUME NEW k \in Clients, NEW c \in Conversations, Bind(k, c) PROVE TypeOK'
  BY <1>5, ApprovalAssumption DEF Bind, TypeOK
<1>6. ASSUME NEW k \in Clients, NEW p \in shown,
             NEW v \in {"once", "session", "deny"}, Answer(k, p, v)
      PROVE TypeOK'
  <2> DEFINE r == [prompt |-> p, value |-> v]
  <2>1. p \in Prompt /\ inbox' \in [Clients -> SUBSET Prompt]
    BY <1>6 DEF Answer, TypeOK
  <2>2. r \in Response
    BY <2>1 DEF Response
  <2>3. answers' \in Seq(Response)
    BY <1>6, <2>2, RangeAppend DEF Answer, TypeOK
  <2>4. ASSUME NEW c \in Conversations
        PROVE  Kept(Append(channel[c], r)) \in Seq(Response)
               /\ Len(Kept(Append(channel[c], r))) <= Slots
    BY <2>2, KeptFacts DEF TypeOK
  <2>5. channel' = [c \in Conversations |->
                      IF Listening(c) THEN Kept(Append(channel[c], r)) ELSE channel[c]]
    BY <1>6 DEF Answer
  <2> HIDE DEF r
  <2>6. channel' \in [Conversations -> Seq(Response)]
        /\ \A c \in Conversations : Len(channel'[c]) <= Slots
    BY <2>4, <2>5 DEF TypeOK
  <2>7. \A c \in Conversations : Listening(c) => call[c].prompt \in Prompt
    BY CallFacts DEF Listening, TypeOK
  <2>8. lost' \subseteq Prompt
    BY <1>6, <2>7 DEF Answer, TypeOK
  <2> QED
    BY <1>6, <2>1, <2>3, <2>6, <2>8 DEF Answer, TypeOK
<1> QED
  BY <1>1, <1>2, <1>3, <1>4, <1>5, <1>6

LEMMA TypeNext == TypeOK /\ [Next]_vars => TypeOK'
<1>1. CASE UNCHANGED vars
  BY <1>1 DEF vars, TypeOK
<1> QED
  BY <1>1, TypeLoop, TypeHub DEF Next

LEMMA TypeHolds == Spec => []TypeOK
BY TypeInit, TypeNext, PTL DEF Spec

\* The state of every call, prompt and client is what its comment says.
THEOREM TypesCorrect == Spec => []TypeOK
BY TypeHolds

-----------------------------------------------------------------------------
(* Permissions come from users *)

\* What a loop can read from its channel was said by a user, and every
\* permission of a conversation goes back to a user's word for it.
WordsAreReal ==
  /\ \A c \in Conversations : Range(channel[c]) \subseteq Range(answers)
  /\ \A c \in Conversations : All \in allowed[c] => c \in accepted
  /\ \A c \in Conversations : \A t \in allowed[c] \ {All} :
       \E r \in Range(answers) :
         r.value = "session" /\ r.prompt.conv = c /\ r.prompt.tool = t

GrantInv == TypeOK /\ WordsAreReal /\ RunsOnlyWhenGranted

LEMMA GrantInit == Init => GrantInv
BY TypeInit, RangeEmpty, CallFacts
   DEF Init, GrantInv, WordsAreReal, RunsOnlyWhenGranted, At

\* Words are never taken back, so a step that only moves calls that do not run
\* keeps what was granted.
LEMMA GrantKept ==
  ASSUME GrantInv, TypeOK',
         Range(answers) \subseteq Range(answers)', accepted \subseteq accepted',
         WordsAreReal',
         \A c \in Conversations :
           call'[c] = call[c] \/ call'[c].step \notin {"passed", "granted"}
  PROVE  GrantInv'
<1> SUFFICES ASSUME NEW c \in Conversations, At(c, "granted")' \/ At(c, "passed")'
             PROVE  call'[c] = call[c]
  BY DEF GrantInv, RunsOnlyWhenGranted, Said, At
<1> QED
  BY DEF At

LEMMA GrantLoop ==
  ASSUME GrantInv, TypeOK', NEW c \in Conversations,
         \/ \E t \in Tools : Call(c, t)
         \/ Subscribe(c) \/ Publish(c) \/ Skip(c) \/ Take(c) \/ Finish(c)
  PROVE  GrantInv'
<1> USE DEF GrantInv
<1>1. ASSUME NEW t \in Tools, Call(c, t) PROVE GrantInv'
  <2>1. WordsAreReal'
    BY <1>1 DEF Call, WordsAreReal
  <2>2. call'[c].prompt.tool = t /\ call'[c].step \in {"passed", "asking"}
        /\ (call'[c].step = "passed" => IsAllowed(c, t))
        /\ \A d \in Conversations \ {c} : call'[d] = call[d]
    BY <1>1 DEF Call, TypeOK
  <2>3. UNCHANGED <<answers, accepted, allowed>>
    BY <1>1 DEF Call
  <2>4. At(c, "passed")' =>
          \/ t \in GlobalAllowed \/ c \in accepted
          \/ \E r \in Range(answers) :
               r.value = "session" /\ r.prompt.conv = c /\ r.prompt.tool = t
    BY <2>2, ApprovalAssumption DEF IsAllowed, WordsAreReal, At
  <2>5. RunsOnlyWhenGranted'
    BY <2>2, <2>3, <2>4 DEF RunsOnlyWhenGranted, Said, At
  <2> QED
    BY <2>1, <2>5
<1>2. CASE Subscribe(c)
  <2>1. ~At(c, "idle") /\ Goto(c, "subscribed") /\ "subscribed" \in Steps
    BY <1>2 DEF Subscribe, At, Steps
  <2> QED
    BY <1>2, <2>1, GotoFacts, GrantKept DEF Subscribe, WordsAreReal
<1>3. CASE Publish(c)
  <2>1. ~At(c, "idle") /\ Goto(c, "waiting") /\ "waiting" \in Steps
    BY <1>3 DEF Publish, At, Steps
  <2> QED
    BY <1>3, <2>1, GotoFacts, GrantKept DEF Publish, WordsAreReal
<1>4. CASE Skip(c)
  <2>1. Range(Tail(channel[c])) \subseteq Range(channel[c])
    BY <1>4, RangeTail DEF Skip, TypeOK
  <2>2. WordsAreReal'
    BY <1>4, <2>1 DEF Skip, WordsAreReal, TypeOK
  <2> QED
    BY <1>4, <2>2, GrantKept DEF Skip
<1>5. CASE Take(c)
  <2> DEFINE r == Head(channel[c])
  <2>1. /\ At(c, "waiting") /\ Obey(c, r) /\ r.prompt = call[c].prompt
        /\ r \in Range(channel[c])
    BY <1>5, RangeTail DEF Take, TypeOK
  <2>2. r \in Range(answers)
    BY <2>1 DEF WordsAreReal
  <2> HIDE DEF r
  <2>3. /\ \A d \in Conversations \ {c} : call'[d] = call[d]
        /\ \/ call'[c].step = "idle"
           \/ /\ call'[c].step = "granted" /\ r.value \in {"once", "session"}
              /\ call'[c].prompt = call[c].prompt
        /\ call[c].prompt.conv = c
    BY <2>1, ObeyFacts
  <2>4. UNCHANGED <<answers, accepted>>
    BY <2>1 DEF Obey
  <2>5. channel' = [channel EXCEPT ![c] = <<>>]
    BY <2>1 DEF Obey
  <2>6. allowed' = IF r.value = "session"
                    THEN [allowed EXCEPT ![c] = allowed[c] \cup {call[c].prompt.tool}]
                    ELSE allowed
    BY <2>1 DEF Obey
  <2>11. call[c].prompt.tool # All
    BY <2>1, ObeyFacts, ApprovalAssumption
  <2>12. ASSUME NEW d \in Conversations, NEW t \in allowed'[d], t \notin allowed[d]
         PROVE  d = c /\ t = call[c].prompt.tool /\ r.value = "session"
    <3>1. allowed \in [Conversations -> SUBSET (Tools \cup {All})]
      BY DEF TypeOK
    <3>2. r.value = "session"
      BY <2>6, <2>12
    <3>3. allowed' = [allowed EXCEPT ![c] = allowed[c] \cup {call[c].prompt.tool}]
      BY <2>6, <3>2
    <3> QED
      BY <2>12, <3>1, <3>2, <3>3
  <2>13. ASSUME NEW d \in Conversations
         PROVE  Range(channel'[d]) \subseteq Range(answers)
    <3>1. channel'[d] = IF d = c THEN <<>> ELSE channel[d]
      BY <2>5 DEF TypeOK
    <3>2. CASE d = c
      BY <3>1, <3>2, RangeEmpty
    <3>3. CASE d # c
      BY <3>1, <3>3 DEF WordsAreReal
    <3> QED
      BY <3>2, <3>3
  <2>7. ASSUME NEW d \in Conversations, All \in allowed'[d] PROVE d \in accepted
    BY <2>7, <2>11, <2>12 DEF WordsAreReal
  <2>8. ASSUME NEW d \in Conversations, NEW t \in allowed'[d] \ {All}
        PROVE \E q \in Range(answers) :
                q.value = "session" /\ q.prompt.conv = d /\ q.prompt.tool = t
    <3>1. CASE t \in allowed[d]
      BY <3>1 DEF WordsAreReal
    <3>2. CASE t \notin allowed[d]
      <4>1. d = c /\ t = call[c].prompt.tool /\ r.value = "session"
        BY <2>12, <3>2
      <4> QED
        BY <2>1, <2>2, <2>3, <4>1
    <3> QED
      BY <3>1, <3>2
  <2>9. WordsAreReal'
    BY <2>4, <2>13, <2>7, <2>8 DEF WordsAreReal
  <2>10. RunsOnlyWhenGranted'
    BY <2>1, <2>2, <2>3, <2>4 DEF RunsOnlyWhenGranted, Said, At
  <2> QED
    BY <2>9, <2>10
<1>6. CASE Finish(c)
  <2>1. call' = [call EXCEPT ![c] = NoCall]
    BY <1>6 DEF Finish
  <2>2. call'[c].step = "idle" /\ \A d \in Conversations \ {c} : call'[d] = call[d]
    BY <2>1, EndFacts
  <2>3. WordsAreReal' /\ UNCHANGED <<answers, accepted>>
    BY <1>6 DEF Finish, WordsAreReal
  <2>4. \A d \in Conversations :
          call'[d] = call[d] \/ call'[d].step \notin {"passed", "granted"}
    BY <2>2
  <2> QED
    BY <2>3, <2>4, GrantKept
<1> QED
  BY <1>1, <1>2, <1>3, <1>4, <1>5, <1>6

LEMMA GrantHub ==
  ASSUME GrantInv, TypeOK',
         \/ Forward \/ Lag \/ \E c \in Conversations : AcceptAll(c)
         \/ \E k \in Clients :
              \/ Disconnect(k)
              \/ \E c \in Conversations : Bind(k, c)
              \/ \E p \in shown, v \in {"once", "session", "deny"} : Answer(k, p, v)
  PROVE  GrantInv'
<1>1. CASE Forward \/ Lag
  BY <1>1, GrantKept DEF Forward, Lag, WordsAreReal, GrantInv
<1>2. ASSUME NEW k \in Clients,
             Disconnect(k) \/ \E c \in Conversations : Bind(k, c)
      PROVE GrantInv'
  BY <1>2, GrantKept DEF Disconnect, Bind, WordsAreReal, GrantInv
<1>3. ASSUME NEW c \in Conversations, AcceptAll(c) PROVE GrantInv'
  <2>2. WordsAreReal'
    BY <1>3 DEF AcceptAll, WordsAreReal, GrantInv, TypeOK
  <2> QED
    BY <1>3, <2>2, GrantKept DEF AcceptAll
<1>4. ASSUME NEW k \in Clients, NEW p \in shown,
             NEW v \in {"once", "session", "deny"}, Answer(k, p, v)
      PROVE GrantInv'
  <2> DEFINE r == [prompt |-> p, value |-> v]
  <2>1. r \in Response
    BY DEF GrantInv, TypeOK, Response
  <2>2. answers' = Append(answers, r) /\ UNCHANGED <<accepted, allowed, call>>
        /\ channel' = [c \in Conversations |->
                         IF Listening(c) THEN Kept(Append(channel[c], r))
                                         ELSE channel[c]]
    BY <1>4 DEF Answer
  <2> HIDE DEF r
  <2>3. Range(answers') = Range(answers) \cup {r}
    BY <2>1, <2>2, RangeAppend DEF GrantInv, TypeOK
  <2>4. ASSUME NEW c \in Conversations
        PROVE Range(channel'[c]) \subseteq Range(answers')
    <3>1. Range(Kept(Append(channel[c], r))) \subseteq Range(channel[c]) \cup {r}
      BY <2>1, KeptFacts DEF GrantInv, TypeOK
    <3> QED
      BY <2>2, <2>3, <3>1 DEF GrantInv, WordsAreReal
  <2>5. WordsAreReal'
    BY <2>2, <2>3, <2>4 DEF GrantInv, WordsAreReal
  <2> QED
    BY <2>2, <2>3, <2>5, GrantKept
<1> QED
  BY <1>1, <1>2, <1>3, <1>4

LEMMA GrantNext == GrantInv /\ TypeOK' /\ [Next]_vars => GrantInv'
<1>1. ASSUME GrantInv, UNCHANGED vars PROVE GrantInv'
  BY <1>1 DEF vars, GrantInv, TypeOK, WordsAreReal, RunsOnlyWhenGranted, Said, At
<1> QED
  BY <1>1, GrantLoop, GrantHub DEF Next

\* A dangerous tool runs only on a user's word for the call, the tool or the
\* conversation, however prompts and answers of several conversations cross.
THEOREM GrantedRuns == Spec => []RunsOnlyWhenGranted
<1>1. GrantInv => RunsOnlyWhenGranted
  BY DEF GrantInv
<1> QED
  BY <1>1, TypeHolds, GrantInit, GrantNext, PTL DEF Spec

-----------------------------------------------------------------------------
(* The first answer decides.  What waits in the open channel of a loop is    *)
(* the end of everything users answered; the answers before it were to       *)
(* other prompts, unless the loop's own was dropped.                         *)

\* Prompt p has left its loop.
Seen(p) == p \in Range(hub) \/ p \in shown

\* Clients hold and answer what they were shown.
ShownOK ==
  /\ \A k \in Clients : inbox[k] \subseteq shown
  /\ \A i \in 1 .. Len(answers) : answers[i].prompt \in shown

\* Numbers of prompts are those of calls so far.
Numbered ==
  /\ \A p \in Prompt : Seen(p) => p.seq <= calls
  /\ \A c \in Conversations : ~At(c, "idle") => call[c].prompt.seq <= calls

\* A prompt is seen by nobody before its loop publishes it.
UnseenOK(c) == call[c].step \in {"asking", "subscribed"} => ~Seen(call[c].prompt)

\* The channel of c is what followed the first n answers, none of them to p.
Follows(c, p, n) ==
  /\ Len(channel[c]) = Len(answers) - n
  /\ \A i \in 1 .. Len(channel[c]) : channel[c][i] = answers[n + i]
  /\ \A j \in 1 .. n : answers[j].prompt # p

ChannelOK(c) ==
  /\ ~Listening(c) => channel[c] = <<>>
  /\ Listening(c) /\ call[c].prompt \notin lost =>
       \E n \in 0 .. Len(answers) : Follows(c, call[c].prompt, n)

AnswerInv ==
  Numbered /\ \A c \in Conversations : UnseenOK(c) /\ ChannelOK(c)

LEMMA AppendFacts ==
  ASSUME NEW S, NEW s \in Seq(S), NEW x \in S
  PROVE  /\ Append(s, x) \in Seq(S)
         /\ Len(s) \in Nat /\ Len(Append(s, x)) = Len(s) + 1
         /\ Append(s, x)[Len(s) + 1] = x
         /\ \A i \in 1 .. Len(s) : Append(s, x)[i] = s[i]
BY AppendProperties, LenProperties

LEMMA TailFacts ==
  ASSUME NEW S, NEW s \in Seq(S), s # <<>>
  PROVE  /\ Len(s) \in Nat \ {0} /\ Head(s) = s[1]
         /\ Len(Tail(s)) = Len(s) - 1
         /\ \A i \in 1 .. Len(s) - 1 : Tail(s)[i] = s[i + 1]
BY HeadTailProperties, LenProperties, EmptySeq

\* A loop that a step passes by.
LEMMA ChannelKept ==
  ASSUME NEW c \in Conversations, ChannelOK(c), call'[c] = call[c],
         channel'[c] = channel[c], answers' = answers, lost \subseteq lost'
  PROVE  ChannelOK(c)'
BY DEF ChannelOK, Follows, Listening

\* A step that shows users no prompt but those they saw, and starts no call.
LEMMA SeenKept ==
  ASSUME TypeOK, AnswerInv, \A p \in Prompt : Seen(p)' => Seen(p), calls' = calls,
         \A c \in Conversations :
           /\ call'[c].step # "idle" =>
                call[c].step # "idle" /\ call'[c].prompt = call[c].prompt
           /\ call'[c].step \in {"asking", "subscribed"} =>
                call[c].step \in {"asking", "subscribed"}
  PROVE  Numbered' /\ \A c \in Conversations : UnseenOK(c)'
<1>1. \A c \in Conversations : call[c].step # "idle" => call[c].prompt \in Prompt
  BY CallFacts DEF TypeOK
<1>2. Numbered'
  BY DEF AnswerInv, Numbered, At
<1>3. ASSUME NEW c \in Conversations PROVE UnseenOK(c)'
  BY <1>1 DEF AnswerInv, UnseenOK
<1> QED
  BY <1>2, <1>3

LEMMA SeenUnchanged ==
  ASSUME UNCHANGED <<hub, inbox, shown, answers>>
  PROVE  \A p : Seen(p)' <=> Seen(p)
BY DEF Seen

LEMMA AnswerCall ==
  ASSUME TypeOK, AnswerInv, NEW c \in Conversations, NEW t \in Tools, Call(c, t)
  PROVE  AnswerInv'
<1> DEFINE p == [conv |-> c, tool |-> t, seq |-> calls + 1]
           s == IF IsAllowed(c, t) THEN "passed" ELSE "asking"
           x == [step |-> s, prompt |-> p]
<1>1. /\ calls \in Nat /\ calls + 1 \in 1 .. MaxCalls /\ calls' = calls + 1
      /\ At(c, "idle") /\ call' = [call EXCEPT ![c] = x]
      /\ UNCHANGED <<channel, hub, inbox, shown, answers, lost>>
  BY ApprovalAssumption DEF Call, TypeOK
<1>2. /\ p \in Prompt /\ p.seq = calls + 1 /\ x.prompt = p
      /\ x.step \in {"passed", "asking"}
  BY <1>1 DEF Prompt
<1> HIDE DEF p, s, x
<1>3. call'[c] = x /\ \A d \in Conversations \ {c} : call'[d] = call[d]
  BY <1>1 DEF TypeOK
<1>4. \A q \in Prompt : q.seq \in Nat
  BY ApprovalAssumption DEF Prompt
<1>5. \A d \in Conversations : call[d].step # "idle" => call[d].prompt \in Prompt
  BY CallFacts DEF TypeOK
<1>6. \A q : Seen(q)' <=> Seen(q)
  BY <1>1, SeenUnchanged
<1>7. Numbered'
  <2>1. \A q \in Prompt : Seen(q)' => q.seq <= calls'
    BY <1>1, <1>4, <1>6 DEF AnswerInv, Numbered
  <2>2. \A d \in Conversations : ~At(d, "idle")' => call'[d].prompt.seq <= calls'
    BY <1>1, <1>2, <1>3, <1>4, <1>5 DEF AnswerInv, Numbered, At
  <2> QED
    BY <2>1, <2>2 DEF Numbered
<1>8. ~Seen(p)
  BY <1>1, <1>2 DEF AnswerInv, Numbered
<1>9. \A d \in Conversations : UnseenOK(d)'
  BY <1>2, <1>3, <1>6, <1>8 DEF AnswerInv, UnseenOK
<1>10. ASSUME NEW d \in Conversations PROVE ChannelOK(d)'
  <2>1. CASE d = c
    <3>1. channel[c] = <<>>
      BY <1>1 DEF AnswerInv, ChannelOK, Listening, At
    <3> QED
      BY <1>1, <1>2, <1>3, <2>1, <3>1 DEF ChannelOK, Listening
  <2>2. CASE d # c
    BY <1>1, <1>3, <2>2, ChannelKept DEF AnswerInv
  <2> QED
    BY <2>1, <2>2
<1> QED
  BY <1>7, <1>9, <1>10 DEF AnswerInv

\* When the channel opens, no answer to the prompt exists.
LEMMA AnswerSubscribe ==
  ASSUME TypeOK, ShownOK, AnswerInv, NEW c \in Conversations, Subscribe(c)
  PROVE  AnswerInv'
<1>1. /\ At(c, "asking") /\ Goto(c, "subscribed") /\ "subscribed" \in Steps
      /\ ~At(c, "idle")
      /\ UNCHANGED <<channel, hub, inbox, shown, calls, answers, lost>>
  BY DEF Subscribe, At, Steps
<1>2. /\ call'[c].step = "subscribed" /\ call'[c].prompt = call[c].prompt
      /\ \A d \in Conversations \ {c} : call'[d] = call[d]
  BY <1>1, GotoFacts
<1>3. Numbered' /\ \A d \in Conversations : UnseenOK(d)'
  BY <1>1, <1>2, SeenKept, SeenUnchanged DEF At
<1>4. ChannelOK(c)'
  <2>1. /\ channel[c] = <<>> /\ Len(answers) \in Nat
        /\ \A j \in 1 .. Len(answers) : answers[j].prompt # call[c].prompt
    BY <1>1, LenProperties
       DEF AnswerInv, ChannelOK, ShownOK, UnseenOK, Seen, Listening, At, TypeOK
  <2>2. Follows(c, call[c].prompt, Len(answers))
    BY <2>1, EmptySeq DEF Follows
  <2> QED
    BY <1>1, <1>2, <2>1, <2>2 DEF ChannelOK, Follows, Listening
<1> QED
  BY <1>1, <1>2, <1>3, <1>4, ChannelKept DEF AnswerInv

LEMMA AnswerPublish ==
  ASSUME TypeOK, AnswerInv, NEW c \in Conversations, Publish(c)
  PROVE  AnswerInv'
<1> DEFINE p == call[c].prompt
<1>1. /\ At(c, "subscribed") /\ Goto(c, "waiting") /\ "waiting" \in Steps
      /\ ~At(c, "idle") /\ hub' = Append(hub, call[c].prompt)
      /\ UNCHANGED <<channel, inbox, shown, calls, answers, lost>>
  BY DEF Publish, At, Steps
<1>2. /\ call'[c].step = "waiting" /\ call'[c].prompt = call[c].prompt
      /\ call[c].prompt \in Prompt /\ call[c].prompt.conv = c
      /\ \A d \in Conversations \ {c} : call'[d] = call[d]
  BY <1>1, GotoFacts
<1>3. Range(hub') = Range(hub) \cup {call[c].prompt}
  BY <1>1, <1>2, RangeAppend DEF TypeOK
<1>4. \A q : Seen(q)' => Seen(q) \/ q = call[c].prompt
  BY <1>1, <1>3 DEF Seen
<1>5. Numbered'
  BY <1>1, <1>2, <1>4 DEF AnswerInv, Numbered, At
<1>6. ASSUME NEW d \in Conversations PROVE UnseenOK(d)'
  <2>1. CASE d = c
    BY <1>2, <2>1 DEF UnseenOK
  <2>2. CASE d # c
    <3>1. call[d].step # "idle" => call[d].prompt.conv = d
      BY DEF TypeOK
    <3> QED
      BY <1>2, <1>4, <2>2, <3>1 DEF AnswerInv, UnseenOK
  <2> QED
    BY <2>1, <2>2
<1>7. ChannelOK(c)'
  BY <1>1, <1>2 DEF AnswerInv, ChannelOK, Follows, Listening, At
<1> QED
  BY <1>1, <1>2, <1>5, <1>6, <1>7, ChannelKept DEF AnswerInv

\* Passing a response over counts it among the earlier ones.
LEMMA AnswerSkip ==
  ASSUME TypeOK, AnswerInv, NEW c \in Conversations, Skip(c)
  PROVE  AnswerInv'
<1>1. /\ At(c, "waiting") /\ channel[c] # <<>>
      /\ Head(channel[c]).prompt # call[c].prompt
      /\ channel'[c] = Tail(channel[c])
      /\ \A d \in Conversations \ {c} : channel'[d] = channel[d]
      /\ UNCHANGED <<call, hub, inbox, shown, calls, answers, lost>>
  BY DEF Skip, TypeOK
<1>2. Numbered' /\ \A d \in Conversations : UnseenOK(d)'
  BY <1>1, SeenUnchanged DEF AnswerInv, Numbered, UnseenOK, At
<1>3. ASSUME call[c].prompt \notin lost, NEW n \in 0 .. Len(answers),
             Follows(c, call[c].prompt, n)
      PROVE  n + 1 \in 0 .. Len(answers) /\ Follows(c, call[c].prompt, n + 1)'
  <2>1. /\ Len(channel[c]) \in Nat \ {0} /\ Head(channel[c]) = channel[c][1]
        /\ Len(channel'[c]) = Len(channel[c]) - 1
        /\ \A i \in 1 .. Len(channel[c]) - 1 : channel'[c][i] = channel[c][i + 1]
    BY <1>1, TailFacts DEF TypeOK
  <2>2. /\ Len(channel[c]) = Len(answers) - n /\ Len(answers) \in Nat
        /\ \A i \in 1 .. Len(channel[c]) : channel[c][i] = answers[n + i]
        /\ \A j \in 1 .. n : answers[j].prompt # call[c].prompt
    BY <1>3, LenProperties DEF Follows, TypeOK
  <2>3. answers[n + 1].prompt # call[c].prompt
    <3>1. 1 \in 1 .. Len(channel[c])
      BY <2>1
    <3> QED
      BY <1>1, <2>1, <2>2, <3>1
  <2>4. Len(channel'[c]) = Len(answers) - (n + 1) /\ n + 1 \in 0 .. Len(answers)
    BY <2>1, <2>2
  <2>5. ASSUME NEW i \in 1 .. Len(channel'[c])
        PROVE  channel'[c][i] = answers[n + 1 + i]
    <3>1. i \in 1 .. Len(channel[c]) - 1 /\ i + 1 \in 1 .. Len(channel[c])
      BY <2>1
    <3>2. channel'[c][i] = answers[n + (i + 1)]
      BY <2>1, <2>2, <3>1
    <3>3. n + (i + 1) = n + 1 + i
      OBVIOUS
    <3> QED
      BY <3>2, <3>3
  <2>6. \A j \in 1 .. n + 1 : answers[j].prompt # call[c].prompt
    BY <2>2, <2>3
  <2> QED
    BY <1>1, <2>4, <2>5, <2>6 DEF Follows
<1>4. ChannelOK(c)'
  <2>1. Listening(c) /\ Listening(c)'
    BY <1>1 DEF Listening, At
  <2> QED
    BY <1>1, <1>3, <2>1 DEF AnswerInv, ChannelOK
<1> QED
  BY <1>1, <1>2, <1>4, ChannelKept DEF AnswerInv

LEMMA AnswerEnds ==
  ASSUME TypeOK, AnswerInv, NEW c \in Conversations, Take(c) \/ Finish(c)
  PROVE  AnswerInv'
<1>1. /\ call'[c].step \in {"idle", "granted"}
      /\ call'[c].step = "granted" =>
           ~At(c, "idle") /\ call'[c].prompt = call[c].prompt
      /\ \A d \in Conversations \ {c} : call'[d] = call[d]
      /\ channel'[c] = <<>>
      /\ \A d \in Conversations \ {c} : channel'[d] = channel[d]
      /\ UNCHANGED <<hub, inbox, shown, calls, answers, lost>>
  <2>1. CASE Take(c)
    <3>1. At(c, "waiting") /\ Obey(c, Head(channel[c]))
      BY <2>1 DEF Take
    <3>2. /\ channel'[c] = <<>>
          /\ \A d \in Conversations \ {c} : channel'[d] = channel[d]
          /\ UNCHANGED <<hub, inbox, shown, calls, answers, lost>>
      BY <3>1 DEF Obey, TypeOK
    <3> QED
      BY <3>1, <3>2, ObeyFacts DEF At
  <2>2. CASE Finish(c)
    <3>1. call' = [call EXCEPT ![c] = NoCall] /\ ~Listening(c)
          /\ UNCHANGED <<channel, hub, inbox, shown, calls, answers, lost>>
      BY <2>2 DEF Finish, Listening
    <3> QED
      BY <3>1, EndFacts DEF AnswerInv, ChannelOK
  <2> QED
    BY <2>1, <2>2
<1>2. Numbered' /\ \A d \in Conversations : UnseenOK(d)'
  BY <1>1, SeenUnchanged DEF AnswerInv, Numbered, UnseenOK, At
<1>3. ChannelOK(c)'
  BY <1>1 DEF ChannelOK, Listening
<1> QED
  BY <1>1, <1>2, <1>3, ChannelKept DEF AnswerInv

\* A step between hub and clients that shows users no new prompt, and that
\* answers none.
LEMMA AnswerQuiet ==
  ASSUME AnswerInv, \A p : Seen(p)' => Seen(p), lost \subseteq lost',
         UNCHANGED <<call, channel, calls, answers>>
  PROVE  AnswerInv'
<1>1. Numbered' /\ \A c \in Conversations : UnseenOK(c)'
  BY DEF AnswerInv, Numbered, UnseenOK, At
<1> QED
  BY <1>1, ChannelKept DEF AnswerInv

LEMMA AnswerHub ==
  ASSUME TypeOK, AnswerInv,
         \/ Forward \/ Lag \/ \E c \in Conversations : AcceptAll(c)
         \/ \E k \in Clients :
              Disconnect(k) \/ \E c \in Conversations : Bind(k, c)
  PROVE  AnswerInv'
<1>1. CASE Forward
  <2>1. /\ Head(hub) \in Prompt
        /\ Range(hub) = {Head(hub)} \cup Range(Tail(hub))
    BY <1>1, RangeTail DEF Forward, TypeOK
  <2>3. shown' \subseteq shown \cup {Head(hub)}
    BY <1>1 DEF Forward
  <2>4. /\ hub' = Tail(hub) /\ lost \subseteq lost'
        /\ UNCHANGED <<call, channel, calls, answers>>
    BY <1>1 DEF Forward
  <2>5. \A p : Seen(p)' => Seen(p)
    BY <2>1, <2>3, <2>4 DEF Seen
  <2> QED
    BY <2>4, <2>5, AnswerQuiet
<1>2. CASE Lag
  <2>1. /\ Range(hub) = {Head(hub)} \cup Range(Tail(hub))
        /\ hub' = Tail(hub) /\ lost \subseteq lost'
        /\ UNCHANGED <<call, channel, shown, calls, answers>>
    BY <1>2, RangeTail DEF Lag, TypeOK
  <2>2. \A p : Seen(p)' => Seen(p)
    BY <2>1 DEF Seen
  <2> QED
    BY <2>1, <2>2, AnswerQuiet
<1>3. ASSUME NEW k \in Clients, Disconnect(k) PROVE AnswerInv'
  <2>1. lost \subseteq lost' /\ UNCHANGED <<call, channel, hub, shown, calls, answers>>
    BY <1>3 DEF Disconnect
  <2> QED
    BY <2>1, AnswerQuiet DEF Seen
<1>4. ASSUME NEW c \in Conversations,
             AcceptAll(c) \/ \E k \in Clients : Bind(k, c)
      PROVE  AnswerInv'
  <2>1. UNCHANGED <<call, channel, hub, shown, calls, answers, lost>>
    BY <1>4 DEF AcceptAll, Bind
  <2> QED
    BY <2>1, AnswerQuiet DEF Seen
<1> QED
  BY <1>1, <1>2, <1>3, <1>4

\* A channel that took one more answer holds what followed the same answers, or
\* one more if it was full.
LEMMA FollowsOn ==
  ASSUME TypeOK, NEW c \in Conversations, NEW p, NEW r \in Response,
         NEW n \in 0 .. Len(answers), Follows(c, p, n),
         answers' = Append(answers, r), channel'[c] = Kept(Append(channel[c], r)),
         Len(channel[c]) = Slots => Head(channel[c]).prompt # p
  PROVE  \E m \in 0 .. Len(answers') : Follows(c, p, m)'
<1> DEFINE s == channel[c]
           a == Append(s, r)
<1>1. /\ Slots \in Nat \ {0} /\ Len(s) <= Slots
      /\ s \in Seq(Response) /\ answers \in Seq(Response)
  BY ApprovalAssumption DEF TypeOK
<1>2. /\ a \in Seq(Response) /\ Len(s) \in Nat /\ Len(a) = Len(s) + 1
      /\ a[Len(s) + 1] = r /\ \A i \in 1 .. Len(s) : a[i] = s[i]
  BY <1>1, AppendFacts
<1>3. /\ Len(answers) \in Nat /\ Len(answers') = Len(answers) + 1
      /\ answers'[Len(answers) + 1] = r
      /\ \A i \in 1 .. Len(answers) : answers'[i] = answers[i]
  BY <1>1, AppendFacts
<1>4. /\ Len(s) = Len(answers) - n
      /\ \A i \in 1 .. Len(s) : s[i] = answers[n + i]
      /\ \A j \in 1 .. n : answers[j].prompt # p
  BY DEF Follows
<1> HIDE DEF s, a
<1>5. ASSUME NEW i \in 1 .. Len(a) PROVE a[i] = answers'[n + i]
  <2>1. CASE i \in 1 .. Len(s)
    <3>1. n + i \in 1 .. Len(answers)
      BY <1>2, <1>3, <1>4, <2>1
    <3> QED
      BY <1>2, <1>3, <1>4, <2>1, <3>1
  <2>2. CASE i \notin 1 .. Len(s)
    <3>1. i = Len(s) + 1 /\ n + i = Len(answers) + 1
      BY <1>2, <1>3, <1>4, <2>2
    <3> QED
      BY <1>2, <1>3, <3>1
  <2> QED
    BY <2>1, <2>2
<1>6. \A j \in 1 .. n : answers'[j].prompt # p
  BY <1>3, <1>4
<1>7. channel'[c] = IF Len(a) > Slots THEN Tail(a) ELSE a
  BY DEF Kept, s, a
<1>8. CASE Len(a) <= Slots
  <2>1. channel'[c] = a
    BY <1>1, <1>2, <1>7, <1>8
  <2>2. Len(a) = Len(answers') - n /\ n \in 0 .. Len(answers')
    BY <1>2, <1>3, <1>4
  <2>3. Follows(c, p, n)'
    BY <1>5, <1>6, <2>1, <2>2 DEF Follows
  <2> QED
    BY <2>2, <2>3
<1>9. CASE Len(a) > Slots
  <2>1. channel'[c] = Tail(a) /\ Len(s) = Slots /\ a # <<>> /\ s # <<>>
    BY <1>1, <1>2, <1>7, <1>9, EmptySeq
  <2>2. /\ Len(Tail(a)) = Len(a) - 1
        /\ \A i \in 1 .. Len(a) - 1 : Tail(a)[i] = a[i + 1]
    BY <1>2, <2>1, TailFacts
  <2>3. Len(Tail(a)) = Len(answers') - (n + 1) /\ n + 1 \in 0 .. Len(answers')
    BY <1>1, <1>2, <1>3, <1>4, <2>2
  <2>4. ASSUME NEW i \in 1 .. Len(Tail(a)) PROVE Tail(a)[i] = answers'[n + 1 + i]
    <3>1. i \in 1 .. Len(a) - 1 /\ i + 1 \in 1 .. Len(a) /\ n + (i + 1) = n + 1 + i
      BY <1>2, <2>2
    <3>2. Tail(a)[i] = a[i + 1] /\ a[i + 1] = answers'[n + (i + 1)]
      BY <1>5, <2>2, <3>1
    <3> QED
      BY <3>1, <3>2
  <2>5. answers'[n + 1].prompt # p
    <3>1. 1 \in 1 .. Len(s) /\ n + 1 \in 1 .. Len(answers)
      BY <1>1, <1>2, <1>3, <1>4, <2>1
    <3>2. Head(s) = s[1] /\ s[1] = answers'[n + 1]
      BY <1>1, <1>3, <1>4, <2>1, <3>1, TailFacts
    <3> QED
      BY <2>1, <3>2 DEF s
  <2>6. \A j \in 1 .. n + 1 : answers'[j].prompt # p
    BY <1>6, <2>5
  <2>7. Follows(c, p, n + 1)'
    BY <2>1, <2>3, <2>4, <2>6 DEF Follows
  <2> QED
    BY <2>3, <2>7
<1> QED
  BY <1>1, <1>2, <1>8, <1>9

LEMMA AnswerAnswer ==
  ASSUME TypeOK, AnswerInv, NEW k \in Clients, NEW q \in shown,
         NEW v \in {"once", "session", "deny"}, Answer(k, q, v)
  PROVE  AnswerInv'
<1> DEFINE r == [prompt |-> q, value |-> v]
<1>1. r \in Response
  BY DEF TypeOK, Response
<1>2. /\ UNCHANGED <<call, hub, shown, calls>>
      /\ answers' = Append(answers, r)
      /\ lost \subseteq lost'
      /\ channel' = [c \in Conversations |->
                       IF Listening(c) THEN Kept(Append(channel[c], r))
                                       ELSE channel[c]]
      /\ \A c \in Conversations :
           Listening(c) /\ Len(channel[c]) = Slots
             /\ Head(channel[c]).prompt = call[c].prompt => call[c].prompt \in lost'
  BY DEF Answer
<1> HIDE DEF r
<1>5. \A p : Seen(p)' => Seen(p)
  BY <1>2 DEF Seen
<1>6. Numbered' /\ \A c \in Conversations : UnseenOK(c)'
  BY <1>2, <1>5 DEF AnswerInv, Numbered, UnseenOK, At
<1>7. ASSUME NEW c \in Conversations PROVE ChannelOK(c)'
  <2>1. CASE ~Listening(c)
    BY <1>2, <2>1 DEF AnswerInv, ChannelOK, Listening
  <2>2. CASE Listening(c)
    <3>1. Listening(c)' /\ channel'[c] = Kept(Append(channel[c], r))
      BY <1>2, <2>2 DEF Listening
    <3>2. ASSUME call[c].prompt \notin lost'
          PROVE  \E m \in 0 .. Len(answers') : Follows(c, call[c].prompt, m)'
      <4>1. PICK n \in 0 .. Len(answers) : Follows(c, call[c].prompt, n)
        BY <1>2, <2>2, <3>2 DEF AnswerInv, ChannelOK
      <4>2. Len(channel[c]) = Slots => Head(channel[c]).prompt # call[c].prompt
        BY <1>2, <2>2, <3>2
      <4> SUFFICES ASSUME NEW p, p = call[c].prompt
                   PROVE  \E m \in 0 .. Len(answers') : Follows(c, p, m)'
        BY <1>2
      <4> QED
        BY <1>1, <1>2, <3>1, <4>1, <4>2, FollowsOn
    <3> QED
      BY <1>2, <3>1, <3>2 DEF ChannelOK
  <2> QED
    BY <2>1, <2>2
<1> QED
  BY <1>6, <1>7 DEF AnswerInv

LEMMA AnswerInit == Init => AnswerInv
<1> SUFFICES ASSUME Init PROVE AnswerInv
  OBVIOUS
<1>1. /\ \A c \in Conversations : At(c, "idle") /\ channel[c] = <<>>
      /\ Range(hub) = {} /\ shown = {} /\ Len(answers) = 0
  BY CallFacts, RangeEmpty, EmptySeq DEF Init, At
<1>2. \A p : ~Seen(p)
  BY <1>1 DEF Seen
<1> QED
  BY <1>1, <1>2 DEF AnswerInv, Numbered, UnseenOK, ChannelOK, Listening, At

LEMMA ShownNext == TypeOK /\ ShownOK /\ [Next]_vars => ShownOK'
<1> SUFFICES ASSUME TypeOK, ShownOK, [Next]_vars PROVE ShownOK'
  OBVIOUS
<1>1. CASE Forward
  BY <1>1 DEF Forward, ShownOK
<1>2. ASSUME NEW k \in Clients, NEW p \in shown,
             NEW v \in {"once", "session", "deny"}, Answer(k, p, v)
      PROVE  ShownOK'
  <2> DEFINE r == [prompt |-> p, value |-> v]
  <2>1. r \in Response /\ r.prompt = p
    BY DEF TypeOK, Response
  <2>2. answers' = Append(answers, r) /\ inbox' = [inbox EXCEPT ![k] = inbox[k] \ {p}]
        /\ shown' = shown
    BY <1>2 DEF Answer
  <2> HIDE DEF r
  <2>3. \A i \in 1 .. Len(answers') : answers'[i] = r \/
          (i \in 1 .. Len(answers) /\ answers'[i] = answers[i])
    BY <2>1, <2>2, AppendFacts DEF TypeOK
  <2> QED
    BY <2>1, <2>2, <2>3 DEF ShownOK, TypeOK
<1>3. ASSUME NEW k \in Clients, Disconnect(k) PROVE ShownOK'
  BY <1>3 DEF Disconnect, ShownOK, TypeOK
<1>4. CASE UNCHANGED <<inbox, shown, answers>>
  BY <1>4 DEF ShownOK
<1> QED
  BY <1>1, <1>2, <1>3, <1>4
     DEF Next, vars, Call, Subscribe, Publish, Skip, Take, Obey, Finish, Bind,
         Lag, AcceptAll

LEMMA AnswerNext == TypeOK /\ ShownOK /\ AnswerInv /\ [Next]_vars => AnswerInv'
<1>1. ASSUME AnswerInv, UNCHANGED vars PROVE AnswerInv'
  BY <1>1, SeenUnchanged, AnswerQuiet DEF vars
<1> QED
  BY <1>1, AnswerCall, AnswerSubscribe, AnswerPublish, AnswerSkip, AnswerEnds,
     AnswerHub, AnswerAnswer DEF Next

LEMMA AnswerHolds == Spec => [](ShownOK /\ AnswerInv)
<1>1. Init => ShownOK
  BY EmptySeq DEF Init, ShownOK
<1> QED
  BY <1>1, AnswerInit, ShownNext, AnswerNext, TypeHolds, PTL DEF Spec

\* Only an answer ends the wait.
LEMMA WaitEnds ==
  ASSUME TypeOK, [Next]_vars, NEW c \in Conversations, At(c, "waiting"),
         call'[c].step # "waiting"
  PROVE  Take(c)
<1>1. ASSUME NEW d \in Conversations, NEW t \in Tools, Call(d, t) PROVE FALSE
  BY <1>1 DEF Call, At, TypeOK
<1>2. ASSUME NEW d \in Conversations, Subscribe(d) \/ Publish(d) PROVE FALSE
  BY <1>2 DEF Subscribe, Publish, Goto, At, TypeOK
<1>3. ASSUME NEW d \in Conversations, Finish(d) PROVE FALSE
  BY <1>3, EndFacts DEF Finish, At
<1>4. ASSUME NEW d \in Conversations, Take(d) PROVE d = c
  BY <1>4, ObeyFacts DEF Take, At
<1> QED
  BY <1>1, <1>2, <1>3, <1>4
     DEF Next, vars, At, Skip, Bind, Forward, Lag, Disconnect, AcceptAll, Answer

\* However many clients answer, and whatever other loops' answers cross them, the
\* value a loop obeys is that of the first answer to its prompt.
THEOREM FirstAnswers == Spec => FirstAnswerDecides
<1>1. ASSUME TypeOK, AnswerInv, [Next]_vars, NEW c \in Conversations,
             At(c, "waiting"), call'[c].step # "waiting", call[c].prompt \notin lost
      PROVE  LET i == CHOOSE i \in 1 .. Len(answers) :
                        /\ answers[i].prompt = call[c].prompt
                        /\ \A j \in 1 .. i - 1 : answers[j].prompt # call[c].prompt
             IN  (answers[i].value = "deny") <=> (call'[c].step = "idle")
  <2> DEFINE p == call[c].prompt
             First(i) == /\ answers[i].prompt = p
                         /\ \A j \in 1 .. i - 1 : answers[j].prompt # p
             i == CHOOSE i \in 1 .. Len(answers) : First(i)
  <2>1. /\ Take(c) /\ Listening(c) /\ channel[c] # <<>>
        /\ Head(channel[c]).prompt = p /\ Obey(c, Head(channel[c]))
    BY <1>1, WaitEnds DEF Take, Listening, At
  <2>2. PICK n \in 0 .. Len(answers) : Follows(c, p, n)
    BY <1>1, <2>1 DEF AnswerInv, ChannelOK
  <2>3. /\ Len(channel[c]) \in Nat \ {0} /\ Head(channel[c]) = channel[c][1]
        /\ Len(answers) \in Nat
    BY <1>1, <2>1, TailFacts, LenProperties DEF TypeOK
  <2>4. /\ n + 1 \in 1 .. Len(answers) /\ answers[n + 1] = Head(channel[c])
        /\ \A j \in 1 .. n : answers[j].prompt # p
    <3>1. 1 \in 1 .. Len(channel[c]) /\ Len(channel[c]) = Len(answers) - n
      BY <2>2, <2>3 DEF Follows
    <3> QED
      BY <2>2, <2>3, <3>1 DEF Follows
  <2>5. First(n + 1)
    BY <2>1, <2>4
  <2>6. \A m \in 1 .. Len(answers) : First(m) => m = n + 1
    <3> SUFFICES ASSUME NEW m \in 1 .. Len(answers), First(m), m # n + 1 PROVE FALSE
      OBVIOUS
    <3>1. m \in 1 .. n \/ n + 1 \in 1 .. m - 1
      BY <2>3
    <3> QED
      BY <2>1, <2>4, <3>1
  <2> HIDE DEF First
  <2>7. i = n + 1
    BY <2>4, <2>5, <2>6
  <2>8. Head(channel[c]).value \in {"once", "session", "deny"}
    <3>1. channel[c] \in Seq(Response)
      BY <1>1 DEF TypeOK
    <3>2. Head(channel[c]) \in Response
      BY <2>1, <3>1, RangeTail
    <3> QED
      BY <3>2 DEF Response
  <2>9. (Head(channel[c]).value = "deny") <=> (call'[c].step = "idle")
    BY <1>1, <2>1, <2>8, CallFacts DEF Obey, TypeOK, At
  <2>10. (answers[i].value = "deny") <=> (call'[c].step = "idle")
    BY <2>4, <2>7, <2>9
  <2> QED
    BY <2>10 DEF First
<1>2. TypeOK /\ AnswerInv /\ [Next]_vars =>
        [\A c \in Conversations :
           At(c, "waiting") /\ call'[c].step # "waiting" /\ call[c].prompt \notin lost =>
             LET i == CHOOSE i \in 1 .. Len(answers) :
                        /\ answers[i].prompt = call[c].prompt
                        /\ \A j \in 1 .. i - 1 : answers[j].prompt # call[c].prompt
             IN  (answers[i].value = "deny") <=> (call'[c].step = "idle")]_vars
  BY <1>1
<1> QED
  BY <1>2, AnswerHolds, TypeHolds, PTL DEF Spec, FirstAnswerDecides

-----------------------------------------------------------------------------
(* Prompts do not vanish *)

\* Where the prompt of loop c can be.
Found(c) ==
  LET p == call[c].prompt
  IN  \/ p \in Range(hub)
      \/ \E k \in Clients : p \in inbox[k]
      \/ \E r \in Range(channel[c]) : r.prompt = p
      \/ p \in lost

LEMMA FoundIsSomewhere ==
  PromptIsSomewhere <=> \A c \in Conversations : At(c, "waiting") => Found(c)
BY DEF PromptIsSomewhere, Found

\* A step that leaves every place as it is, for the loops that still wait.
LEMMA FoundKept ==
  ASSUME PromptIsSomewhere, UNCHANGED <<hub, inbox, lost>>,
         \A c \in Conversations : At(c, "waiting")' =>
           \/ call'[c] = call[c] /\ channel'[c] = channel[c]
           \/ Found(c)'
  PROVE  PromptIsSomewhere'
<1> SUFFICES ASSUME NEW c \in Conversations, At(c, "waiting")' PROVE Found(c)'
  BY FoundIsSomewhere DEF PromptIsSomewhere, Found, At
<1>1. CASE call'[c] = call[c] /\ channel'[c] = channel[c]
  BY <1>1 DEF PromptIsSomewhere, Found, At
<1> QED
  BY <1>1

LEMMA FoundLoop ==
  ASSUME TypeOK, PromptIsSomewhere, NEW c \in Conversations,
         \/ \E t \in Tools : Call(c, t)
         \/ Subscribe(c) \/ Publish(c) \/ Skip(c) \/ Take(c) \/ Finish(c)
  PROVE  PromptIsSomewhere'
<1>1. ASSUME NEW t \in Tools, Call(c, t) PROVE PromptIsSomewhere'
  <2>1. call'[c].step # "waiting" /\ \A d \in Conversations \ {c} : call'[d] = call[d]
    BY <1>1 DEF Call, TypeOK
  <2> QED
    BY <1>1, <2>1, FoundKept DEF Call, At
<1>2. CASE Subscribe(c)
  <2>1. ~At(c, "idle") /\ Goto(c, "subscribed") /\ "subscribed" \in Steps
    BY <1>2 DEF Subscribe, At, Steps
  <2>2. call'[c].step # "waiting" /\ \A d \in Conversations \ {c} : call'[d] = call[d]
    BY <2>1, GotoFacts
  <2> QED
    BY <1>2, <2>2, FoundKept DEF Subscribe, At
<1>3. CASE Publish(c)
  <2>1. ~At(c, "idle") /\ Goto(c, "waiting") /\ "waiting" \in Steps
    BY <1>3 DEF Publish, At, Steps
  <2>2. call'[c].prompt = call[c].prompt /\ call[c].prompt \in Prompt
        /\ \A d \in Conversations \ {c} : call'[d] = call[d]
    BY <2>1, GotoFacts
  <2>3. hub' = Append(hub, call[c].prompt) /\ UNCHANGED <<channel, inbox, lost>>
    BY <1>3 DEF Publish
  <2>4. Range(hub') = Range(hub) \cup {call[c].prompt}
    BY <2>2, <2>3, RangeAppend DEF TypeOK
  <2> QED
    BY <2>2, <2>3, <2>4 DEF PromptIsSomewhere, At
<1>4. CASE Skip(c)
  <2>1. Range(channel[c]) = {Head(channel[c])} \cup Range(Tail(channel[c]))
    BY <1>4, RangeTail DEF Skip, TypeOK
  <2>2. channel' = [channel EXCEPT ![c] = Tail(channel[c])]
        /\ Head(channel[c]).prompt # call[c].prompt
        /\ UNCHANGED <<call, hub, inbox, lost>>
    BY <1>4 DEF Skip
  <2>3. channel'[c] = Tail(channel[c])
        /\ \A d \in Conversations \ {c} : channel'[d] = channel[d]
    BY <2>2 DEF TypeOK
  <2> QED
    BY <2>1, <2>2, <2>3 DEF PromptIsSomewhere, At
<1>5. CASE Take(c)
  <2> DEFINE r == Head(channel[c])
  <2>1. At(c, "waiting") /\ Obey(c, r)
    BY <1>5 DEF Take
  <2> HIDE DEF r
  <2>2. call'[c].step # "waiting" /\ \A d \in Conversations \ {c} : call'[d] = call[d]
    BY <2>1, ObeyFacts
  <2>3. UNCHANGED <<hub, inbox, lost>>
    BY <2>1 DEF Obey
  <2>4. \A d \in Conversations \ {c} : channel'[d] = channel[d]
    BY <2>1 DEF Obey, TypeOK
  <2> QED
    BY <2>2, <2>3, <2>4, FoundKept DEF At
<1>6. CASE Finish(c)
  <2>1. call' = [call EXCEPT ![c] = NoCall] /\ UNCHANGED <<channel, hub, inbox, lost>>
    BY <1>6 DEF Finish
  <2>2. call'[c].step # "waiting" /\ \A d \in Conversations \ {c} : call'[d] = call[d]
    BY <2>1, EndFacts
  <2> QED
    BY <2>1, <2>2, FoundKept DEF At
<1> QED
  BY <1>1, <1>2, <1>3, <1>4, <1>5, <1>6

LEMMA FoundAfterAnswer ==
  ASSUME TypeOK, PromptIsSomewhere, NEW k \in Clients, NEW t \in shown,
         NEW v \in {"once", "session", "deny"}, Answer(k, t, v)
  PROVE  PromptIsSomewhere'
<1> DEFINE r == [prompt |-> t, value |-> v]
<1>1. r \in Response
  BY DEF TypeOK, Response
<1>2. /\ UNCHANGED <<call, hub>>
      /\ lost \subseteq lost'
      /\ inbox' = [inbox EXCEPT ![k] = inbox[k] \ {t}]
      /\ channel' = [c \in Conversations |->
                       IF Listening(c) THEN Kept(Append(channel[c], r))
                                       ELSE channel[c]]
      /\ \A c \in Conversations :
           Listening(c) /\ Len(channel[c]) = Slots
             /\ Head(channel[c]).prompt = call[c].prompt => call[c].prompt \in lost'
  BY DEF Answer
<1>3. r.prompt = t
  OBVIOUS
<1> HIDE DEF r
<1> SUFFICES ASSUME NEW c \in Conversations, At(c, "waiting") PROVE Found(c)'
  BY <1>2 DEF PromptIsSomewhere, Found, At
<1> DEFINE p == call[c].prompt
<1>4. /\ Listening(c) /\ call'[c].prompt = p
      /\ channel'[c] = Kept(Append(channel[c], r))
  BY <1>2 DEF Listening, At
<1>5. /\ r \in Range(channel'[c])
      /\ \/ Range(channel[c]) \subseteq Range(channel'[c])
         \/ /\ Len(channel[c]) = Slots
            /\ Range(channel[c]) \subseteq {Head(channel[c])} \cup Range(channel'[c])
  BY <1>1, <1>4, KeptFacts DEF TypeOK
<1>6. CASE p \in Range(hub)
  BY <1>2, <1>4, <1>6 DEF Found
<1>7. ASSUME NEW j \in Clients, p \in inbox[j] PROVE Found(c)'
  <2>1. CASE p = t
    BY <1>3, <1>4, <1>5, <2>1 DEF Found
  <2>2. CASE p # t
    <3>1. p \in inbox'[j]
      BY <1>2, <1>7, <2>2 DEF TypeOK
    <3> QED
      BY <1>4, <3>1 DEF Found
  <2> QED
    BY <2>1, <2>2
<1>8. ASSUME NEW q \in Range(channel[c]), q.prompt = p PROVE Found(c)'
  <2>1. CASE q \in Range(channel'[c])
    BY <1>4, <1>8, <2>1 DEF Found
  <2>2. CASE q \notin Range(channel'[c])
    <3>1. p \in lost'
      BY <1>2, <1>4, <1>5, <1>8, <2>2
    <3> QED
      BY <1>4, <3>1 DEF Found
  <2> QED
    BY <2>1, <2>2
<1>9. CASE p \in lost
  BY <1>2, <1>4, <1>9 DEF Found
<1> QED
  BY <1>6, <1>7, <1>8, <1>9 DEF PromptIsSomewhere

\* An answer that is not dropped waits in the channel of its loop.
LEMMA AnswerIsFound ==
  ASSUME TypeOK, AnswerInv, NEW c \in Conversations, At(c, "waiting"),
         Answered(call[c].prompt)
  PROVE  \/ \E r \in Range(channel[c]) : r.prompt = call[c].prompt
         \/ call[c].prompt \in lost
<1> SUFFICES ASSUME call[c].prompt \notin lost
             PROVE  \E r \in Range(channel[c]) : r.prompt = call[c].prompt
  OBVIOUS
<1>1. PICK n \in 0 .. Len(answers) : Follows(c, call[c].prompt, n)
  BY DEF AnswerInv, ChannelOK, Listening, At
<1>2. PICK j \in DOMAIN answers : answers[j].prompt = call[c].prompt
  BY DEF Answered, Range
<1>3. /\ DOMAIN answers = 1 .. Len(answers) /\ Len(answers) \in Nat
      /\ DOMAIN channel[c] = 1 .. Len(channel[c])
  BY LenProperties DEF TypeOK
<1>4. /\ Len(channel[c]) = Len(answers) - n
      /\ \A i \in 1 .. Len(channel[c]) : channel[c][i] = answers[n + i]
      /\ \A i \in 1 .. n : answers[i].prompt # call[c].prompt
  BY <1>1 DEF Follows
<1>5. /\ j \in 1 .. Len(answers) /\ j \notin 1 .. n
      /\ n \in 0 .. Len(answers)
  BY <1>2, <1>3, <1>4
<1>6. j - n \in 1 .. Len(channel[c]) /\ n + (j - n) = j
  <2>1. ASSUME NEW l \in Nat, NEW m \in 0 .. l, NEW x \in 1 .. l, x \notin 1 .. m
        PROVE  x - m \in 1 .. l - m /\ m + (x - m) = x
    BY <2>1
  <2>2. j - n \in 1 .. Len(answers) - n /\ n + (j - n) = j
    BY <1>3, <1>5, <2>1
  <2> QED
    BY <1>4, <2>2
<1>7. channel[c][j - n] = answers[j]
  BY <1>4, <1>6
<1> QED
  BY <1>2, <1>3, <1>6, <1>7 DEF Range

LEMMA FoundHub ==
  ASSUME TypeOK, AnswerInv, PromptIsSomewhere,
         \/ Forward \/ Lag \/ \E c \in Conversations : AcceptAll(c)
         \/ \E k \in Clients :
              \/ Disconnect(k)
              \/ \E c \in Conversations : Bind(k, c)
              \/ \E p \in shown, v \in {"once", "session", "deny"} : Answer(k, p, v)
  PROVE  PromptIsSomewhere'
<1>1. CASE Forward
  <2>1. Range(hub) = {Head(hub)} \cup Range(Tail(hub))
    BY <1>1, RangeTail DEF Forward, TypeOK
  <2>3. \A k \in Clients :
          /\ inbox[k] \subseteq inbox'[k]
          /\ bound[k] = Head(hub).conv => Head(hub) \in inbox'[k]
    BY <1>1 DEF Forward
  <2>4. (\A k \in Clients : bound[k] # Head(hub).conv) => Head(hub) \in lost'
    BY <1>1 DEF Forward
  <2>5. hub' = Tail(hub) /\ lost \subseteq lost' /\ UNCHANGED <<call, channel>>
    BY <1>1 DEF Forward
  <2> QED
    BY <2>1, <2>3, <2>4, <2>5 DEF PromptIsSomewhere, At
<1>2. CASE Lag
  <2>1. Range(hub) = {Head(hub)} \cup Range(Tail(hub))
    BY <1>2, RangeTail DEF Lag, TypeOK
  <2> QED
    BY <1>2, <2>1 DEF Lag, PromptIsSomewhere, At
<1>3. ASSUME NEW k \in Clients, Disconnect(k) PROVE PromptIsSomewhere'
  <2>1. \A j \in Clients \ {k} : inbox'[j] = inbox[j]
    BY <1>3 DEF Disconnect, TypeOK
  <2>2. \A p \in inbox[k] :
          Answered(p) \/ p \in lost' \/ \E j \in Clients \ {k} : p \in inbox'[j]
    BY <1>3, <2>1 DEF Disconnect
  <2>3. lost \subseteq lost' /\ UNCHANGED <<call, channel, hub>>
    BY <1>3 DEF Disconnect
  <2>4. \A c \in Conversations :
          At(c, "waiting") /\ Answered(call[c].prompt) =>
            \/ \E r \in Range(channel[c]) : r.prompt = call[c].prompt
            \/ call[c].prompt \in lost
    BY AnswerIsFound
  <2> QED
    BY <2>1, <2>2, <2>3, <2>4 DEF PromptIsSomewhere, At
<1>4. CASE \E c \in Conversations : AcceptAll(c) \/ \E k \in Clients : Bind(k, c)
  BY <1>4 DEF AcceptAll, Bind, PromptIsSomewhere, At
<1> QED
  BY <1>1, <1>2, <1>3, <1>4, FoundAfterAnswer

LEMMA FoundNext ==
  TypeOK /\ AnswerInv /\ PromptIsSomewhere /\ [Next]_vars => PromptIsSomewhere'
<1>1. ASSUME PromptIsSomewhere, UNCHANGED vars PROVE PromptIsSomewhere'
  BY <1>1 DEF vars, PromptIsSomewhere, At
<1> QED
  BY <1>1, FoundLoop, FoundHub DEF Next

\* An open prompt is on its way, before a user, answered, or dropped at one of
\* the four places that drop it: no other step of loop or hub makes it vanish.
THEOREM PromptsAreSomewhere == Spec => []PromptIsSomewhere
<1>1. Init => PromptIsSomewhere
  BY CallFacts DEF Init, PromptIsSomewhere, At
<1> QED
  BY <1>1, TypeHolds, AnswerHolds, FoundNext, PTL DEF Spec

=============================================================================
