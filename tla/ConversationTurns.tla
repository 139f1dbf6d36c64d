------------------------- MODULE ConversationTurns -------------------------
(***************************************************************************)
(* What the message path promises, without bus, buffers or tasks.  A       *)
(* conversation works on one turn at a time.  A waiting message opens a    *)
(* turn or joins the one that runs; from then on it cannot be lost.  A     *)
(* turn publishes one reply and only then may end.  A message that is      *)
(* still waiting may be lost.                                              *)
(***************************************************************************)
CONSTANTS Conversations, Messages, ConvOf, None

VARIABLES
  stage,    \* of a message: new, waiting, taken into a turn, or lost
  turn,     \* the message that opened the running turn, if any
  replied   \* the turns whose reply was published

tvars == <<stage, turn, replied>>

Init ==
  /\ stage = [m \in Messages |-> "new"]
  /\ turn = [c \in Conversations |-> None]
  /\ replied = {}

Move(m, from, to) ==
  /\ stage[m] = from
  /\ stage' = [stage EXCEPT ![m] = to]

\* A publication may push the oldest waiting message out of the channel.
Submit(m) ==
  /\ stage[m] = "new"
  /\ \E lost \in {{}} \cup {{n} : n \in Messages} :
       /\ \A n \in lost : stage[n] = "waiting"
       /\ stage' = [n \in Messages |-> IF n = m THEN "waiting"
                                       ELSE IF n \in lost THEN "lost"
                                       ELSE stage[n]]
  /\ UNCHANGED <<turn, replied>>

Open(m) ==
  /\ turn[ConvOf[m]] = None
  /\ Move(m, "waiting", "taken")
  /\ turn' = [turn EXCEPT ![ConvOf[m]] = m]
  /\ UNCHANGED replied

Join(m) ==
  /\ turn[ConvOf[m]] # None
  /\ Move(m, "waiting", "taken")
  /\ UNCHANGED <<turn, replied>>

Reply(m) ==
  /\ turn[ConvOf[m]] = m
  /\ m \notin replied
  /\ replied' = replied \cup {m}
  /\ UNCHANGED <<stage, turn>>

End(m) ==
  /\ turn[ConvOf[m]] = m
  /\ m \in replied
  /\ turn' = [turn EXCEPT ![ConvOf[m]] = None]
  /\ UNCHANGED <<stage, replied>>

Lose(ms) ==
  /\ ms # {}
  /\ \A m \in ms : stage[m] = "waiting"
  /\ stage' = [m \in Messages |-> IF m \in ms THEN "lost" ELSE stage[m]]
  /\ UNCHANGED <<turn, replied>>

Next ==
  \/ \E m \in Messages : Submit(m) \/ Open(m) \/ Join(m) \/ Reply(m) \/ End(m)
  \/ \E ms \in SUBSET Messages : Lose(ms)

Spec == Init /\ [][Next]_tvars
=============================================================================
