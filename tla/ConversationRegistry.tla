-------------------------- MODULE ConversationRegistry --------------------------
(***************************************************************************)
(* Which conversation a connector's coordinate talks to.  Handlers of      *)
(* connector messages are tasks of their own, so two of them may resolve   *)
(* the same coordinate at once; archive requests and the ends of turns     *)
(* rewrite records in between, and so does the tool update_session; a      *)
(* restart rebuilds the bindings from the records, if it can read them     *)
(* all.  Reading and replacing a record are one step each here: their      *)
(* files are the subject of ConversationStore, which shows how one that    *)
(* does not parse comes about.                                             *)
(***************************************************************************)
EXTENDS Naturals, FiniteSets, FiniteSetsExt

CONSTANTS
  Ids,          \* names of conversations, ordered as list_ids() sorts them
  Coords,       \* connector coordinates (platform, server, channel, user)
  Handlers,     \* tasks that handle connector messages
  Requests,     \* tasks that handle close requests
  None,
  Torn,         \* a record whose meta.json does not parse
  MaxArrivals,  \* bound: connector messages and requests to open or close
  MaxRestarts   \* bound: restarts of the gateway

\* In any set of names, one is the last.
ASSUME RegistryAssumption ==
  /\ Ids \subseteq Nat
  /\ \A S \in SUBSET Ids : S # {} => Max(S) \in S
  /\ None \notin Ids \cup Coords
  /\ MaxArrivals \in Nat /\ MaxRestarts \in Nat

VARIABLES
  record,     \* the store: status and connector_coord of each conversation,
              \* None without a meta.json
  bindings,   \* ConversationRegistry::bindings
  active,     \* ConversationRegistry::active_id
  runtimes,   \* ConversationRegistry::runtimes
  turn,       \* the loop of each conversation and the record it read at its end
  handler,    \* each handler's step, coordinate, conversation and record
  request,    \* each close request's step, conversation and record
  arrivals,   \* messages and requests so far
  restarts,   \* restarts so far
  reused,     \* ghost: a new conversation took the name of an existing one
  crowded,    \* ghost: two handlers resolved one coordinate at the same time
  overlapped, \* ghost: a close request and another writer of the record crossed
  misled,     \* ghost: a restart bound a coordinate to an archived conversation
              \* although it had an open one
  unlisted,   \* ghost: a restart found a record it could not read
  retagged    \* ghost: update_session gave a conversation another coordinate

vars == <<record, bindings, active, runtimes, turn, handler, request, arrivals,
          restarts, reused, crowded, overlapped, misled, unlisted, retagged>>

store == <<record, bindings, active, runtimes>>
ghosts == <<reused, crowded, overlapped, misled, unlisted, retagged>>

Record == [status : {"active", "archived"}, coord : Coords \cup {None}]

ASSUME RecordAssumption == None \notin Record /\ Torn \notin Record \cup {None}

HandlerSteps == {"idle", "bound", "stale", "unbound", "created", "resolved",
                 "read", "kept"}

TypeOK ==
  /\ record \in [Ids -> Record \cup {None, Torn}]
  /\ bindings \in [Coords -> Ids \cup {None}]
  /\ active \in Ids \cup {None}
  /\ runtimes \subseteq Ids
  /\ turn \in [Ids -> [step : {"none", "running", "updating", "read"},
                       copy : Record \cup {None}]]
  /\ handler \in [Handlers -> [step  : HandlerSteps,
                               coord : Coords \cup {None},
                               id    : Ids \cup {None},
                               copy  : Record \cup {None}]]
  /\ \A h \in Handlers :
       /\ handler[h].step # "idle" => handler[h].coord # None
       /\ handler[h].step \in {"bound", "created", "resolved", "read", "kept"} =>
            handler[h].id # None /\ record[handler[h].id] # None
  /\ request \in [Requests -> [step : {"idle", "allowed", "read", "archived"},
                               id   : Ids \cup {None},
                               copy : Record \cup {None}]]
  /\ arrivals \in 0 .. MaxArrivals
  /\ restarts \in 0 .. MaxRestarts
  /\ {reused, crowded, overlapped, misled, unlisted, retagged} \subseteq BOOLEAN

NoMessage == [step |-> "idle", coord |-> None, id |-> None, copy |-> None]
NoRequest == [step |-> "idle", id |-> None, copy |-> None]
NoTurn    == [step |-> "none", copy |-> None]

At(h, s) == handler[h].step = s
Goto(h, s) == handler' = [handler EXCEPT ![h].step = s]

IsActive(c) == record[c] \in Record /\ record[c].status = "active"

\* The conversations of a coordinate, archived ones included.
Threads(k) == {c \in Ids : record[c] \in Record /\ record[c].coord = k}

\* h is between looking the binding up and having a conversation.
Resolving(h) == handler[h].step \in {"bound", "stale", "unbound", "created"}

Arrives == arrivals < MaxArrivals /\ arrivals' = arrivals + 1

Init ==
  /\ record = [c \in Ids |-> None]
  /\ bindings = [k \in Coords |-> None]
  /\ active = None
  /\ runtimes = {}
  /\ turn = [c \in Ids |-> NoTurn]
  /\ handler = [h \in Handlers |-> NoMessage]
  /\ request = [r \in Requests |-> NoRequest]
  /\ arrivals = 0
  /\ restarts = 0
  /\ reused = FALSE
  /\ crowded = FALSE
  /\ overlapped = FALSE
  /\ misled = FALSE
  /\ unlisted = FALSE
  /\ retagged = FALSE

-----------------------------------------------------------------------------
(* handle_connector_message                                                *)

\* Mutant: a coordinate is taken for bound.
LookUpBlindly(h, k) ==
  /\ At(h, "idle")
  /\ Arrives
  /\ handler' = [handler EXCEPT ![h] = [NoMessage EXCEPT !.step = "bound",
                                                        !.coord = k,
                                                        !.id = bindings[k]]]
  /\ UNCHANGED <<store, turn, request, restarts, ghosts>>

\* resolve_or_create_for_coord looks the binding up.
LookUp(h, k) ==
  /\ At(h, "idle")
  /\ Arrives
  /\ crowded' = (crowded \/ \E g \in Handlers :
                               handler[g].coord = k /\ Resolving(g))
  /\ handler' = [handler EXCEPT ![h] =
                   [NoMessage EXCEPT
                      !.step = IF bindings[k] = None THEN "unbound" ELSE "bound",
                      !.coord = k,
                      !.id = bindings[k]]]
  /\ UNCHANGED <<store, turn, request, restarts, reused, overlapped, misled,
                 unlisted, retagged>>

\* The bound conversation is taken when it is active; a record that cannot be
\* read ends the handler, and the message is dropped.
Verify(h) ==
  /\ At(h, "bound")
  /\ \/ /\ record[handler[h].id] # Torn
        /\ Goto(h, IF IsActive(handler[h].id) THEN "resolved" ELSE "stale")
     \/ /\ record[handler[h].id] = Torn
        /\ handler' = [handler EXCEPT ![h] = NoMessage]
  /\ UNCHANGED <<store, turn, request, arrivals, restarts, ghosts>>

\* Otherwise the binding, whatever it is by now, is removed.
Unbind(h) ==
  /\ At(h, "stale")
  /\ bindings' = [bindings EXCEPT ![handler[h].coord] = None]
  /\ Goto(h, "unbound")
  /\ UNCHANGED <<record, active, runtimes, turn, request, arrivals, restarts,
                 ghosts>>

\* A new conversation is stored under c.
Put(c, k) ==
  /\ record' = [record EXCEPT ![c] = [status |-> "active", coord |-> k]]
  /\ reused' = (reused \/ record[c] # None)

\* Mutant: the coordinate is not stored with the conversation.
CreateAnonymous(h) ==
  /\ At(h, "unbound")
  /\ \E c \in Ids \ runtimes :
       /\ Put(c, None)
       /\ handler' = [handler EXCEPT ![h].step = "created", ![h].id = c]
  /\ UNCHANGED <<bindings, active, runtimes, turn, request, arrivals, restarts,
                 crowded, overlapped, misled, unlisted, retagged>>

\* A conversation is created; its name is one that no runtime has.
Create(h) ==
  /\ At(h, "unbound")
  /\ \E c \in Ids \ runtimes :
       /\ Put(c, handler[h].coord)
       /\ handler' = [handler EXCEPT ![h].step = "created", ![h].id = c]
  /\ UNCHANGED <<bindings, active, runtimes, turn, request, arrivals, restarts,
                 crowded, overlapped, misled, unlisted, retagged>>

\* Mutant: the binding is left to the next restart.
BindLater(h) ==
  /\ At(h, "created")
  /\ Goto(h, "resolved")
  /\ UNCHANGED <<store, turn, request, arrivals, restarts, ghosts>>

Bind(h) ==
  /\ At(h, "created")
  /\ bindings' = [bindings EXCEPT ![handler[h].coord] = handler[h].id]
  /\ Goto(h, "resolved")
  /\ UNCHANGED <<record, active, runtimes, turn, request, arrivals, restarts,
                 ghosts>>

\* The conversation is touched and its record read; policy and routing are not
\* kept in one that cannot be read.
Touch(h) ==
  /\ At(h, "resolved")
  /\ active' = handler[h].id
  /\ \/ /\ record[handler[h].id] # Torn
        /\ handler' = [handler EXCEPT ![h].step = "read",
                                      ![h].copy = record[handler[h].id]]
     \/ /\ record[handler[h].id] = Torn
        /\ Goto(h, "kept")
  /\ UNCHANGED <<record, bindings, runtimes, turn, request, arrivals, restarts,
                 ghosts>>

\* A loop or a handler is about to replace the record of c by what it read.
TurnHasCopy(c) == turn[c].step \in {"updating", "read"}

HandlersWithCopy(c) == {h \in Handlers : At(h, "read") /\ handler[h].id = c}

HasCopy(c) == TurnHasCopy(c) \/ HandlersWithCopy(c) # {}

\* Two tasks are about to replace the record of c, through one temporary file.
Crossing(c) ==
  LET Asked == {r \in Requests : request[r].step = "read" /\ request[r].id = c}
  IN  Cardinality(HandlersWithCopy(c)) + Cardinality(Asked)
        + (IF TurnHasCopy(c) THEN 1 ELSE 0) > 1

\* One of the tasks that hold a copy of c's record replaces it by x.  If they
\* cross, its text may be lost, or mixed with another's.
Replace(c, x) ==
  \E y \in {x} \cup (IF Crossing(c) THEN {record[c], Torn} ELSE {}) :
    record' = [record EXCEPT ![c] = y]

\* Policy and routing are kept in the record: it is written back, and a failure
\* is only logged.
Keep(h) ==
  /\ At(h, "read")
  /\ Replace(handler[h].id, handler[h].copy)
  /\ Goto(h, "kept")
  /\ UNCHANGED <<bindings, active, runtimes, turn, request, arrivals, restarts,
                 ghosts>>

\* A user message is published: a loop runs the conversation, or goes on, unless
\* the message has no text.
RunTurn(c) ==
  \/ UNCHANGED <<runtimes, turn>>
  \/ /\ runtimes' = runtimes \cup {c}
     /\ turn' = [turn EXCEPT ![c] = IF @ = NoTurn
                                    THEN [@ EXCEPT !.step = "running"] ELSE @]

Publish(h) ==
  /\ At(h, "kept")
  /\ RunTurn(handler[h].id)
  /\ handler' = [handler EXCEPT ![h] = NoMessage]
  /\ UNCHANGED <<record, bindings, active, request, arrivals, restarts, ghosts>>

-----------------------------------------------------------------------------
\* The loop calls update_session: it reads the record, and the metadata it
\* merges may hold another coordinate ...
ReadToUpdate(c) ==
  /\ turn[c].step = "running"
  /\ record[c] \in Record
  /\ \E k \in Coords \cup {record[c].coord} :
       /\ turn' = [turn EXCEPT ![c] = [step |-> "updating",
                                       copy |-> [record[c] EXCEPT !.coord = k]]]
       /\ retagged' = (retagged \/ k # record[c].coord)
  /\ UNCHANGED <<store, handler, request, arrivals, restarts, reused, crowded,
                 overlapped, misled, unlisted>>

\* ... and writes it back.
Update(c) ==
  /\ turn[c].step = "updating"
  /\ Replace(c, turn[c].copy)
  /\ turn' = [turn EXCEPT ![c] = [NoTurn EXCEPT !.step = "running"]]
  /\ UNCHANGED <<bindings, active, runtimes, handler, request, arrivals,
                 restarts, ghosts>>

\* finalize_response reads the record, and leaves one it cannot read alone ...
EndTurn(c) ==
  /\ turn[c].step = "running"
  /\ turn' = [turn EXCEPT ![c] =
                IF record[c] = Torn THEN NoTurn
                ELSE [step |-> "read", copy |-> record[c]]]
  /\ UNCHANGED <<store, handler, request, arrivals, restarts, ghosts>>

\* ... and writes it back; the conversation is idle again.
FinishTurn(c) ==
  /\ turn[c].step = "read"
  /\ Replace(c, turn[c].copy)
  /\ turn' = [turn EXCEPT ![c] = NoTurn]
  /\ UNCHANGED <<bindings, active, runtimes, handler, request, arrivals,
                 restarts, ghosts>>

\* send_message: a client talks to a conversation, archived or not.
Send(c) ==
  /\ Arrives
  /\ record[c] # None
  /\ RunTurn(c)
  /\ UNCHANGED <<record, bindings, active, handler, request, restarts, ghosts>>

\* open_session or create_conversation: a conversation without a coordinate.
\* open_session creates one when none has the focus, and compares its name with
\* no other.
Open ==
  /\ Arrives
  /\ \E c \in Ids :
       /\ active = None \/ c \notin runtimes
       /\ Put(c, None)
       /\ active' = c
  /\ UNCHANGED <<bindings, runtimes, turn, handler, request, restarts, crowded,
                 overlapped, misled, unlisted, retagged>>

\* switch_conversation gives the focus to any name it is told.
SwitchTo(c) ==
  /\ Arrives
  /\ active' = c
  /\ UNCHANGED <<record, bindings, runtimes, turn, handler, request, restarts,
                 ghosts>>

\* archive: refused while a loop runs the conversation.
Close(r, c) ==
  /\ Arrives
  /\ request[r].step = "idle"
  /\ record[c] # None
  /\ turn[c].step = "none"
  /\ request' = [request EXCEPT ![r].step = "allowed", ![r].id = c]
  /\ UNCHANGED <<store, turn, handler, restarts, ghosts>>

\* store.archive reads the record, and fails if it cannot ...
ReadToArchive(r) ==
  LET c == request[r].id IN
  /\ request[r].step = "allowed"
  /\ request' = [request EXCEPT ![r] =
                   IF record[c] = Torn THEN NoRequest
                   ELSE [@ EXCEPT !.step = "read", !.copy = record[c]]]
  /\ UNCHANGED <<store, turn, handler, arrivals, restarts, ghosts>>

\* ... and writes it back as archived; the rename fails if another writer has
\* taken the temporary file ...
Archive(r) ==
  LET c == request[r].id IN
  /\ request[r].step = "read"
  /\ Replace(c, [request[r].copy EXCEPT !.status = "archived"])
  /\ overlapped' = (overlapped \/ HasCopy(c))
  /\ \/ request' = [request EXCEPT ![r].step = "archived"]
     \/ Crossing(c) /\ request' = [request EXCEPT ![r] = NoRequest]
  /\ UNCHANGED <<bindings, active, runtimes, turn, handler, arrivals, restarts,
                 reused, crowded, misled, unlisted, retagged>>

\* ... and the registry clears the focus.
ClearFocus(r) ==
  /\ request[r].step = "archived"
  /\ active' = IF active = request[r].id THEN None ELSE active
  /\ request' = [request EXCEPT ![r] = NoRequest]
  /\ UNCHANGED <<record, bindings, runtimes, turn, handler, arrivals, restarts,
                 ghosts>>

\* Mutant: archived conversations are skipped.
RebuiltFromActive ==
  [k \in Coords |-> IF {c \in Threads(k) : IsActive(c)} = {} THEN None
                    ELSE Max({c \in Threads(k) : IsActive(c)})]

\* The last conversation of each coordinate in the order of list(), archived or
\* not.
Rebuilt == [k \in Coords |-> IF Threads(k) = {} THEN None ELSE Max(Threads(k))]

\* Names under which a conversation may be in the making.
Begun ==
  {c \in Ids : \/ c \notin runtimes /\ \E h \in Handlers : At(h, "unbound")
               \/ arrivals < MaxArrivals /\ (active = None \/ c \notin runtimes)}

\* The gateway stops, maybe in the middle of writing a new meta.json.
Stop(cut) ==
  /\ restarts < MaxRestarts
  /\ restarts' = restarts + 1
  /\ record' = [c \in Ids |-> IF c \in cut THEN Torn ELSE record[c]]
  /\ reused' = (reused \/ \E c \in cut : record[c] # None)
  /\ runtimes' = {}
  /\ turn' = [c \in Ids |-> NoTurn]
  /\ handler' = [h \in Handlers |-> NoMessage]
  /\ request' = [r \in Requests |-> NoRequest]
  /\ UNCHANGED <<arrivals, crowded, overlapped, retagged>>

\* It starts again: bootstrap_active_from_store rebuilds the bindings and gives
\* the focus to the active conversation updated last ...
Restart ==
  /\ Stop({})
  /\ \A c \in Ids : record[c] # Torn
  /\ bindings' = Rebuilt
  /\ LET open == {c \in Ids : IsActive(c)} IN
       active' \in IF open = {} THEN {None} ELSE open
  /\ misled' = (misled \/ \E k \in Coords :
                            /\ bindings'[k] # None /\ ~IsActive(bindings'[k])
                            /\ \E c \in Threads(k) : IsActive(c))
  /\ UNCHANGED unlisted

\* ... unless one record cannot be read: then list() fails and nothing is
\* rebuilt.
RestartBlind ==
  /\ \E cut \in {{}} \cup {{c} : c \in Begun} : Stop(cut)
  /\ \E c \in Ids : record'[c] = Torn
  /\ bindings' = [k \in Coords |-> None]
  /\ active' = None
  /\ unlisted' = TRUE
  /\ UNCHANGED misled

Next ==
  \/ \E h \in Handlers :
       \/ \E k \in Coords : LookUp(h, k)
       \/ Verify(h) \/ Unbind(h) \/ Create(h) \/ Bind(h) \/ Touch(h)
       \/ Keep(h) \/ Publish(h)
  \/ \E c \in Ids :
       \/ ReadToUpdate(c) \/ Update(c) \/ EndTurn(c) \/ FinishTurn(c)
       \/ Send(c) \/ SwitchTo(c)
  \/ Open
  \/ \E r \in Requests :
       \/ \E c \in Ids : Close(r, c)
       \/ ReadToArchive(r) \/ Archive(r) \/ ClearFocus(r)
  \/ Restart \/ RestartBlind

Spec == Init /\ [][Next]_vars

-----------------------------------------------------------------------------
\* c was created for k, as far as its record can be read.
IsThreadOf(c, k) == record[c] = Torn \/ c \in Threads(k)

\* As long as no new conversation takes the name of an existing one and none is
\* given another coordinate, a coordinate never talks to another one's
\* conversation: what it is bound to, and what a handler resolved for it, was
\* created for it.
ThreadsAreNotShared ==
  ~(reused \/ retagged) =>
    /\ \A k \in Coords : bindings[k] # None => IsThreadOf(bindings[k], k)
    /\ \A h \in Handlers :
         handler[h].id # None => IsThreadOf(handler[h].id, handler[h].coord)

\* A coordinate has at most one open conversation, and it is the one it is
\* bound to (or the one just created for it), unless one of six things
\* happened: a name was used twice, two first messages were resolved at once, a
\* writer undid a close, a restart chose an archived conversation, a restart
\* could not read a record, or update_session changed a coordinate.
OneOpenThread ==
  reused \/ crowded \/ overlapped \/ misled \/ unlisted \/ retagged \/
    \A k \in Coords : \A c \in Threads(k) :
      IsActive(c) =>
        \/ bindings[k] = c
        \/ \E h \in Handlers : At(h, "created") /\ handler[h].id = c

\* A restart keeps every route or loses every one.  It loses them if a record
\* cannot be read.  Otherwise, as long as names and coordinates stay, each
\* coordinate that was bound is bound again to a conversation of its own, to
\* the same one if it has no other.
RestartKeepsRoutes ==
  [][restarts' # restarts =>
       IF \E c \in Ids : record'[c] = Torn
       THEN \A k \in Coords : bindings'[k] = None
       ELSE ~(reused \/ retagged) =>
              \A k \in Coords : bindings[k] # None =>
                /\ bindings'[k] \in Threads(k)
                /\ Threads(k) = {bindings[k]} => bindings'[k] = bindings[k]]_vars
=============================================================================
