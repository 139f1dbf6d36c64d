--------------------------- MODULE ConversationStore ---------------------------
(***************************************************************************)
(* The files of one conversation in FileConversationStore and the tasks    *)
(* that rewrite its record, meta.json: the cost tracker, the agent loop at *)
(* the end of a turn, the handlers of connector messages and of            *)
(* conversation.clear, the tools that set fields of the conversation, and  *)
(* archive requests.  Each reads the record, changes some fields and       *)
(* writes the whole record back; nothing excludes the others meanwhile.    *)
(* One tool, update_session, may change the metadata of any of the others. *)
(*                                                                         *)
(* update() writes meta.json.tmp and renames it.  The name is the same for *)
(* all writers.  A writer keeps the open file it writes through, so its    *)
(* text may land in a file that another writer has renamed by then.        *)
(***************************************************************************)
EXTENDS Naturals

CONSTANTS
  Writers,      \* the tasks that write the record
  Kind,         \* what each of them is
  Absent,       \* no such file
  Empty,        \* a file that was truncated and not written yet: it does not
                \* parse
  Torn,         \* a file in which the end of a longer record follows a shorter
                \* one: it does not parse either
  Indices,      \* numbers a model may choose as history_start_index
  MaxOperations, \* bound: operations on the record
  MaxCrashes    \* bound: restarts of the gateway

Kinds == {"tracker", "runner", "connector", "clear", "tool", "archive"}

\* The cost tracker is one task; one agent loop at a time runs a conversation.
ASSUME WritersAssumption ==
  /\ Kind \in [Writers -> Kinds]
  /\ \A v, w \in Writers :
       Kind[v] = Kind[w] /\ Kind[v] \in {"tracker", "runner"} => v = w

ASSUME IndicesAssumption == Indices \subseteq Nat /\ Indices # {}

ASSUME BoundsAssumption == MaxOperations \in Nat /\ MaxCrashes \in Nat

Record == [status : {"active", "archived"},
           tokens : Nat,
           count  : Nat,
           start  : Nat,  \* metadata history_start_index
           route  : {"none", "connector", "told"},  \* metadata connector and
                          \* reply_channel_id: whose words they are
           project : BOOLEAN] \* project_id and the other plain fields

ASSUME FileAssumption ==
  /\ Record \cap {Absent, Empty, Torn} = {}
  /\ Absent # Empty /\ Absent # Torn

Contents == Record \cup {Absent, Empty, Torn}

VARIABLES
  meta,      \* meta.json
  tmp,       \* meta.json.tmp
  messages,  \* lines of messages.jsonl
  creation,  \* create(): not called, file open, returned, killed half way
  writer,    \* each writer's step, its record and the file it has open
  reported,  \* ghost: model calls the tracker took into a record
  told,      \* ghost: the numbers update_session put in a record
  raced,     \* ghost: a record was replaced between another writer's read
             \* and its write
  operations,  \* operations begun so far
  crashes    \* restarts so far

vars == <<meta, tmp, messages, creation, writer, reported, told, raced,
          operations, crashes>>

\* idle; a turn runs; the clear knows the number of messages; the archive
\* request may go on; the answer is stored; the record was read; its fields
\* are changed; the file is open; the file is written.
Steps == {"idle", "turn", "measured", "allowed", "answered", "read", "drafted",
          "opened", "written"}

TypeOK ==
  /\ meta \in Contents
  /\ tmp \in Contents
  /\ messages \in Nat
  /\ creation \in {"none", "opened", "done", "cut"}
  /\ writer \in [Writers -> [step  : Steps,
                             draft : Record \cup {Absent},
                             upTo  : Nat,
                             file  : {"none", "tmp", "meta", "gone"}]]
  /\ \A w \in Writers :
       writer[w].step \in {"read", "drafted", "opened", "written"} =>
         writer[w].draft \in Record
  /\ reported \in Nat
  /\ told \subseteq Indices
  /\ raced \in BOOLEAN
  /\ operations \in 0 .. MaxOperations
  /\ crashes \in 0 .. MaxCrashes

\* The record as get() shows it.
Shown == IF meta \in Record THEN meta ELSE Absent

Abstract == INSTANCE ConversationRecord WITH record <- Shown

NoWrite == [step |-> "idle", draft |-> Absent, upTo |-> 0, file |-> "none"]

At(w, s) == writer[w].step = s
Goto(w, s) == writer' = [writer EXCEPT ![w].step = s]

\* A task of this kind begins an operation on the conversation.
Begins(w, kind) ==
  /\ Kind[w] = kind
  /\ At(w, "idle")
  /\ creation = "done"
  /\ operations < MaxOperations
  /\ operations' = operations + 1

\* w read the record and has not replaced it yet.
InWindow(w) == writer[w].step \in {"read", "drafted", "opened", "written"}

Init ==
  /\ meta = Absent
  /\ tmp = Absent
  /\ messages = 0
  /\ creation = "none"
  /\ writer = [w \in Writers |-> NoWrite]
  /\ reported = 0
  /\ told = {}
  /\ raced = FALSE
  /\ operations = 0
  /\ crashes = 0

-----------------------------------------------------------------------------
\* create(): std::fs::write truncates meta.json in place ...
CreateOpens ==
  /\ creation = "none"
  /\ creation' = "opened"
  /\ meta' = Empty
  /\ UNCHANGED <<tmp, messages, writer, reported, told, raced,
                 operations, crashes>>

\* ... and writes the record; the identifier is known when it returns.
CreateWrites ==
  /\ creation = "opened"
  /\ creation' = "done"
  /\ meta' = Abstract!NewRecord
  /\ UNCHANGED <<tmp, messages, writer, reported, told, raced,
                 operations, crashes>>

\* handle_user_message appends the user's message and the turn begins.
BeginTurn(w) ==
  /\ Begins(w, "runner")
  /\ messages' = messages + 1
  /\ Goto(w, "turn")
  /\ UNCHANGED <<meta, tmp, creation, reported, told, raced, crashes>>

\* finalize_response appends the answer; an empty one is not stored.
StoreAnswer(w) ==
  /\ At(w, "turn")
  /\ messages' \in {messages, messages + 1}
  /\ Goto(w, "answered")
  /\ UNCHANGED <<meta, tmp, creation, reported, told, raced,
                 operations, crashes>>

\* handle_conversation_clear loads the messages before the record; when they
\* cannot be loaded it takes their number for 0.
Measure(w) ==
  /\ Begins(w, "clear")
  /\ \E n \in {messages, 0} :
       writer' = [writer EXCEPT ![w].step = "measured", ![w].upTo = n]
  /\ UNCHANGED <<meta, tmp, messages, creation, reported, told, raced, crashes>>

\* ConversationRegistry::archive refuses while a loop runs, and then awaits.
CheckIdle(w) ==
  /\ Begins(w, "archive")
  /\ \A r \in Writers : Kind[r] = "runner" => At(r, "idle")
  /\ Goto(w, "allowed")
  /\ UNCHANGED <<meta, tmp, messages, creation, reported, told, raced, crashes>>

\* get(): the record, or an error when it does not parse; the latter ends the
\* operation.  The record's fields are changed at once, except by the runner.
Read(w, next, draft) ==
  /\ writer' = IF meta \in Record
                 THEN [writer EXCEPT ![w].step = next, ![w].draft = draft]
                 ELSE [writer EXCEPT ![w] = NoWrite]
  /\ UNCHANGED <<meta, tmp, messages, creation, raced, crashes>>

\* Mutant: the tracker takes the usage of a call into account twice.
AddTokensTwice(w) ==
  /\ Begins(w, "tracker")
  /\ Read(w, "drafted", [meta EXCEPT !.tokens = @ + 2])
  /\ reported' = IF meta \in Record THEN reported + 1 ELSE reported
  /\ UNCHANGED told

\* CostTracker::handle_event.
AddTokens(w) ==
  /\ Begins(w, "tracker")
  /\ Read(w, "drafted", [meta EXCEPT !.tokens = @ + 1])
  /\ reported' = IF meta \in Record THEN reported + 1 ELSE reported
  /\ UNCHANGED told

\* handle_connector_message keeps the routing in the record, unless the keys
\* are there.
Route(w) ==
  /\ Begins(w, "connector")
  /\ Read(w, "drafted", Abstract!Routed(meta))
  /\ UNCHANGED <<reported, told>>

\* open_project and close_project, which a loop or a scheduled task calls.
Assign(w) ==
  /\ Begins(w, "tool")
  /\ \E v \in BOOLEAN : Read(w, "drafted", [meta EXCEPT !.project = v])
  /\ UNCHANGED <<reported, told>>

\* update_session merges the metadata that the model chose: any keys, those of
\* the clear and of the connectors included.
UpdateSession(w) ==
  /\ Begins(w, "tool")
  /\ \E keys \in SUBSET Abstract!SharedKeys, n \in Indices :
       /\ Read(w, "drafted", Abstract!Merged(meta, keys, n))
       /\ told' = IF meta \in Record /\ "start" \in keys THEN told \cup {n}
                                                        ELSE told
  /\ UNCHANGED reported

\* handle_conversation_clear advances history_start_index.
AdvanceStart(w) ==
  /\ At(w, "measured")
  /\ Read(w, "drafted", [meta EXCEPT !.start = writer[w].upTo])
  /\ UNCHANGED <<reported, told, operations>>

\* ConversationStore::archive.
MarkArchived(w) ==
  /\ At(w, "allowed")
  /\ Read(w, "drafted", [meta EXCEPT !.status = "archived"])
  /\ UNCHANGED <<reported, told, operations>>

\* Mutant: the result of the read is not looked at.
ReadBlindly(w) ==
  /\ At(w, "answered")
  /\ writer' = [writer EXCEPT ![w].step = "read", ![w].draft = meta]
  /\ UNCHANGED <<meta, tmp, messages, creation, reported, told, raced,
                 operations, crashes>>

\* finalize_response reads the record, then the messages.
ReadForCount(w) ==
  /\ At(w, "answered")
  /\ Read(w, "read", meta)
  /\ UNCHANGED <<reported, told, operations>>

\* Mutant: the count starts from a fresh record.
CountFromScratch(w) ==
  /\ At(w, "read")
  /\ writer' = [writer EXCEPT ![w].step = "drafted",
                  ![w].draft = [Abstract!NewRecord EXCEPT !.count = messages]]
  /\ UNCHANGED <<meta, tmp, messages, creation, reported, told, raced,
                 operations, crashes>>

\* A history that cannot be loaded ends the operation.
CountMessages(w) ==
  /\ At(w, "read")
  /\ \/ writer' = [writer EXCEPT ![w].step = "drafted",
                                 ![w].draft.count = messages]
     \/ writer' = [writer EXCEPT ![w] = NoWrite]
  /\ UNCHANGED <<meta, tmp, messages, creation, reported, told, raced,
                 operations, crashes>>

-----------------------------------------------------------------------------
\* update(): meta.json exists, and meta.json.tmp is created or truncated ...
OpenTmp(w) ==
  /\ At(w, "drafted")
  /\ tmp' = Empty
  /\ writer' = [writer EXCEPT ![w].step = "opened", ![w].file = "tmp"]
  /\ UNCHANGED <<meta, messages, creation, reported, told, raced,
                 operations, crashes>>

\* The text of d over what the file held: a longer text keeps its end.
Over(old, d) == IF old \in {Empty, d} THEN {d} ELSE {d, Torn}

\* ... then written, wherever the open file is by now ...
WriteTmp(w) ==
  /\ At(w, "opened")
  /\ \/ writer[w].file = "tmp"
        /\ tmp' \in Over(tmp, writer[w].draft) /\ UNCHANGED meta
     \/ writer[w].file = "meta"
        /\ meta' \in Over(meta, writer[w].draft) /\ UNCHANGED tmp
     \/ writer[w].file = "gone"
        /\ UNCHANGED <<meta, tmp>>
  /\ Goto(w, "written")
  /\ UNCHANGED <<messages, creation, reported, told, raced,
                 operations, crashes>>

\* What a rename does to the files that the others have open.
Moved(file) == CASE file = "tmp" -> "meta" [] file = "meta" -> "gone"
                 [] OTHER -> file

\* Mutant: the record is copied back in place instead of renamed; the copy has
\* truncated meta.json when it is cut short.
CopyBack(w) ==
  /\ At(w, "written")
  /\ tmp # Absent
  /\ \/ meta' = tmp
     \/ meta' = Empty
  /\ tmp' = Absent
  /\ writer' = [u \in Writers |->
                  IF u = w THEN NoWrite
                  ELSE [writer[u] EXCEPT !.file = Moved(@)]]
  /\ raced' = (raced \/ \E u \in Writers \ {w} : InWindow(u))
  /\ UNCHANGED <<messages, creation, reported, told, operations, crashes>>

\* ... and renamed.  It fails when another writer renamed the file before.
Rename(w) ==
  /\ At(w, "written")
  /\ \/ /\ tmp # Absent
        /\ meta' = tmp
        /\ tmp' = Absent
        /\ writer' = [u \in Writers |->
                        IF u = w THEN NoWrite
                        ELSE [writer[u] EXCEPT !.file = Moved(@)]]
        /\ raced' = (raced \/ \E u \in Writers \ {w} : InWindow(u))
     \/ /\ tmp = Absent
        /\ writer' = [writer EXCEPT ![w] = NoWrite]
        /\ UNCHANGED <<meta, tmp, raced>>
  /\ UNCHANGED <<messages, creation, reported, told, operations, crashes>>

\* The gateway stops at any point and starts again: the files stay.
Restart ==
  /\ crashes < MaxCrashes
  /\ crashes' = crashes + 1
  /\ writer' = [w \in Writers |-> NoWrite]
  /\ creation' = IF creation = "opened" THEN "cut" ELSE creation
  /\ UNCHANGED <<meta, tmp, messages, reported, told, raced, operations>>

Write(w) ==
  \/ BeginTurn(w) \/ StoreAnswer(w) \/ Measure(w) \/ CheckIdle(w)
  \/ AddTokens(w) \/ Route(w) \/ Assign(w) \/ UpdateSession(w)
  \/ AdvanceStart(w) \/ MarkArchived(w)
  \/ ReadForCount(w) \/ CountMessages(w)
  \/ OpenTmp(w) \/ WriteTmp(w) \/ Rename(w)

Next ==
  \/ CreateOpens \/ CreateWrites \/ Restart
  \/ \E w \in Writers : Write(w)

Spec == Init /\ [][Next]_vars

-----------------------------------------------------------------------------
\* The record parses whenever it exists, also after a crash in the middle of an
\* update, unless create() was cut short or two updates crossed.
RecordIsReadable ==
  meta \in {Empty, Torn} => raced \/ creation \in {"opened", "cut"}

\* However the writers cross, the record never holds more usage than was
\* reported or more messages than were stored, and hides messages to come only
\* by a number that update_session was told: a race loses updates and doubles
\* none.
NothingIsInvented ==
  meta \in Record =>
    /\ meta.tokens <= reported
    /\ meta.count <= messages
    /\ meta.start <= messages \/ meta.start \in told

\* As long as no record is replaced between another writer's read and its
\* write, the files behave like one record with atomic operations: none undoes
\* what another did.
AtomicUnlessRaced ==
  [][raced' \/ Abstract!Next]_<<Shown, messages>>
=============================================================================
