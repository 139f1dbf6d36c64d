-------------------------- MODULE ConversationRecord --------------------------
(***************************************************************************)
(* What the writers of a conversation's record count on: each operation    *)
(* changes the record as it is, in one step, and the fields it is not      *)
(* about stay.  Which fields update_session is about is for the model to   *)
(* say.  The record is absent until the conversation is created.           *)
(***************************************************************************)
EXTENDS Naturals

CONSTANTS Absent, Indices

VARIABLES record, messages

NewRecord == [status |-> "active", tokens |-> 0, count |-> 0, start |-> 0,
              route |-> "none", project |-> FALSE]

Init == record = Absent /\ messages = 0

Create == record = Absent /\ record' = NewRecord

\* The cost tracker accumulates the usage of one model call.
AddTokens == record' = [record EXCEPT !.tokens = @ + 1]

\* The end of a turn brings the message count up to date.
CountMessages == record' = [record EXCEPT !.count = messages]

\* A clear hides messages that exist, from some moment of the request.
Clear == \E n \in 0 .. messages : record' = [record EXCEPT !.start = n]

\* A connector's message leaves its channel where there is none.
Routed(r) == [r EXCEPT !.route = IF @ = "none" THEN "connector" ELSE @]
Route == record' = Routed(record)

\* A project is opened or closed.
Assign == \E v \in BOOLEAN : record' = [record EXCEPT !.project = v]

\* update_session merges metadata, keys of the others among them.
SharedKeys == {"start", "route"}
Merged(r, keys, n) ==
  [r EXCEPT !.start = IF "start" \in keys THEN n ELSE @,
            !.route = IF "route" \in keys THEN "told" ELSE @]
Merge ==
  \E keys \in SUBSET SharedKeys, n \in Indices :
    record' = Merged(record, keys, n)

Archive == record' = [record EXCEPT !.status = "archived"]

Append == messages' = messages + 1 /\ UNCHANGED record

Next ==
  \/ /\ \/ Create
        \/ /\ record # Absent
           /\ \/ AddTokens \/ CountMessages \/ Clear \/ Route \/ Assign \/ Merge
              \/ Archive
     /\ UNCHANGED messages
  \/ Append

Spec == Init /\ [][Next]_<<record, messages>>
=============================================================================
