------------------------ MODULE ConversationRegistryProofs ------------------------
(***************************************************************************)
(* For any names, coordinates, handlers and requests: the types, that no   *)
(* coordinate gets another one's conversation or, unless excused, a second *)
(* open one, and that a restart keeps the routes if it can read the store. *)
(***************************************************************************)
EXTENDS ConversationRegistry, TLAPS

-----------------------------------------------------------------------------
(* The invariant, one conjunct for each thing that refers to a record *)

HandlerState == [step  : HandlerSteps,
                 coord : Coords \cup {None},
                 id    : Ids \cup {None},
                 copy  : Record \cup {None}]

TurnState == [step : {"none", "running", "updating", "read"},
              copy : Record \cup {None}]

RequestState == [step : {"idle", "allowed", "read", "archived"},
                 id   : Ids \cup {None},
                 copy : Record \cup {None}]

Typed ==
  /\ record \in [Ids -> Record \cup {None, Torn}]
  /\ bindings \in [Coords -> Ids \cup {None}]
  /\ active \in Ids \cup {None}
  /\ runtimes \subseteq Ids
  /\ turn \in [Ids -> TurnState]
  /\ handler \in [Handlers -> HandlerState]
  /\ request \in [Requests -> RequestState]
  /\ arrivals \in 0 .. MaxArrivals
  /\ restarts \in 0 .. MaxRestarts
  /\ {reused, crowded, overlapped, misled, unlisted, retagged} \subseteq BOOLEAN

\* What the record of c is, or will be if a loop or a handler writes back the
\* copy it holds; a record that does not parse counts for nothing.
Versions(c) ==
  {x \in Record : \/ record[c] = x
                  \/ TurnHasCopy(c) /\ turn[c].copy = x
                  \/ \E h \in HandlersWithCopy(c) : handler[h].copy = x}

\* What a close request read.
Asked(c) ==
  {x \in Record : \E r \in Requests :
                   /\ request[r].step = "read" /\ request[r].id = c
                   /\ request[r].copy = x}

\* Names are used once, and conversations keep their coordinates.
Steady == ~(reused \/ retagged)

\* c exists, and whoever replaces its record keeps it with k.
Belongs(c, k) ==
  /\ c \in Ids /\ record[c] # None
  /\ Steady => \A x \in Versions(c) \cup Asked(c) : x.coord = k

\* A binding leads to a conversation of its coordinate.
BindingOK(k) == bindings[k] # None => Belongs(bindings[k], k)

\* A loop runs a conversation that exists.
TurnOK(c) ==
  /\ turn[c].step # "none" => record[c] # None
  /\ TurnHasCopy(c) => turn[c].copy \in Record

\* A handler's conversation is its coordinate's.
HandlerOK(h) ==
  /\ handler[h].step # "idle" => handler[h].coord \in Coords
  /\ handler[h].step \in {"bound", "created", "resolved", "read", "kept"} =>
       handler[h].id # None
  /\ handler[h].id # None => Belongs(handler[h].id, handler[h].coord)
  /\ handler[h].step = "read" => handler[h].copy \in Record

\* A close request's conversation exists.
RequestOK(r) ==
  /\ request[r].step # "idle" => request[r].id \in Ids /\ record[request[r].id] # None
  /\ request[r].step = "read" => request[r].copy \in Record

RefInv ==
  /\ Typed
  /\ \A k \in Coords : BindingOK(k)
  /\ \A c \in Ids : TurnOK(c)
  /\ \A h \in Handlers : HandlerOK(h)
  /\ \A r \in Requests : RequestOK(r)

LEMMA TypesFollow == RefInv => TypeOK
BY RegistryAssumption, RecordAssumption
   DEF RefInv, Typed, HandlerOK, Belongs, TypeOK, HandlerState, TurnState, RequestState

\* A record that can be read is the conversation's first version.
LEMMA ReadableBelongs ==
  ASSUME Typed, Steady, NEW k, NEW c, Belongs(c, k)
  PROVE  record[c] = Torn \/ c \in Threads(k)
<1>1. record[c] \in Record => record[c] \in Versions(c)
  BY DEF Versions
<1> QED
  BY <1>1 DEF Typed, Belongs, Threads

LEMMA ThreadsFollow == RefInv => ThreadsAreNotShared
BY ReadableBelongs
   DEF RefInv, BindingOK, HandlerOK, ThreadsAreNotShared, IsThreadOf, Steady

-----------------------------------------------------------------------------
(* What a step that keeps the records does not change *)

\* No version of a record appears that was not there.
NothingNew == \A c \in Ids : Versions(c)' \subseteq Versions(c)

\* No record goes away, nor to another coordinate.
RecordsStay ==
  /\ Steady' => Steady
  /\ \A c \in Ids : record[c] # None =>
       /\ record'[c] # None
       /\ Steady' => \A x \in Versions(c)' \cup Asked(c)' :
                       \E y \in Versions(c) \cup Asked(c) : x.coord = y.coord

LEMMA BelongsKept ==
  ASSUME RecordsStay, NEW c, NEW k, Belongs(c, k)
  PROVE  Belongs(c, k)'
BY DEF RecordsStay, Belongs

LEMMA BindingKept ==
  ASSUME RecordsStay, NEW k \in Coords, BindingOK(k), bindings'[k] = bindings[k]
  PROVE  BindingOK(k)'
BY BelongsKept DEF BindingOK

LEMMA TurnKept ==
  ASSUME RecordsStay, NEW c \in Ids, TurnOK(c), turn'[c] = turn[c]
  PROVE  TurnOK(c)'
BY DEF RecordsStay, TurnOK, TurnHasCopy

LEMMA HandlerKept ==
  ASSUME RecordsStay, NEW h \in Handlers, HandlerOK(h), handler'[h] = handler[h]
  PROVE  HandlerOK(h)'
BY BelongsKept DEF HandlerOK

LEMMA RequestKept ==
  ASSUME RecordsStay, NEW r \in Requests, RequestOK(r), request'[r] = request[r]
  PROVE  RequestOK(r)'
BY DEF RecordsStay, RequestOK

\* A step of one handler that leaves bindings, turns and requests alone.
LEMMA HandlerStep ==
  ASSUME RefInv, Typed', RecordsStay, NEW h \in Handlers,
         \A g \in Handlers \ {h} : handler'[g] = handler[g], HandlerOK(h)',
         UNCHANGED <<turn, request>>,
         \A k \in Coords : bindings'[k] = bindings[k] \/ BindingOK(k)'
  PROVE  RefInv'
BY BindingKept, TurnKept, HandlerKept, RequestKept DEF RefInv

\* What is written or read is a version already.
LEMMA Sources ==
  ASSUME \A c \in Ids : record'[c] \in Record => record'[c] \in Versions(c),
         \A h \in Handlers : handler'[h] = handler[h] \/
           (handler'[h].step = "read" =>
              handler'[h].copy \in Versions(handler'[h].id)),
         \A c \in Ids : turn'[c] = turn[c] \/
           (turn'[c].step \in {"updating", "read"} => turn'[c].copy \in Versions(c))
  PROVE  NothingNew
<1> SUFFICES ASSUME NEW c \in Ids, NEW x \in Versions(c)' PROVE x \in Versions(c)
  BY DEF NothingNew
<1>1. CASE record'[c] = x
  BY <1>1 DEF Versions
<1>2. CASE TurnHasCopy(c)' /\ turn'[c].copy = x
  BY <1>2 DEF Versions, TurnHasCopy
<1>3. ASSUME NEW h \in Handlers, handler'[h].step = "read", handler'[h].id = c,
             handler'[h].copy = x
      PROVE  x \in Versions(c)
  BY <1>3 DEF Versions, HandlersWithCopy, At
<1> QED
  BY <1>1, <1>2, <1>3 DEF Versions, HandlersWithCopy, At

\* Then no record goes to another coordinate.
LEMMA Stay ==
  ASSUME NothingNew, UNCHANGED <<reused, retagged>>,
         \A c \in Ids : record[c] # None => record'[c] # None,
         \A r \in Requests : request'[r] = request[r] \/
           (request'[r].step = "read" =>
              request'[r].copy \in Versions(request'[r].id))
  PROVE  RecordsStay
<1>1. ASSUME NEW c \in Ids, NEW x \in Asked(c)' PROVE x \in Versions(c) \cup Asked(c)
  <2>1. PICK r \in Requests : /\ request'[r].step = "read" /\ request'[r].id = c
                              /\ request'[r].copy = x
    BY <1>1 DEF Asked
  <2>2. CASE request'[r] = request[r]
    BY <1>1, <2>1, <2>2 DEF Asked
  <2>3. CASE request'[r].copy \in Versions(c)
    BY <2>1, <2>3
  <2> QED
    BY <2>1, <2>2, <2>3
<1> QED
  BY <1>1 DEF RecordsStay, NothingNew, Steady

\* A step that writes no record, and after which whoever moved holds none.
LEMMA Unmoved ==
  ASSUME Typed, UNCHANGED <<record, reused, retagged>>,
         \A h \in Handlers : handler'[h] = handler[h] \/ handler'[h].step # "read",
         \A c \in Ids : turn'[c] = turn[c] \/ turn'[c].step \notin {"updating", "read"},
         \A r \in Requests : request'[r] = request[r] \/ request'[r].step # "read"
  PROVE  NothingNew /\ RecordsStay
<1>1. \A c \in Ids : record'[c] \in Record => record'[c] \in Versions(c)
  BY DEF Versions
<1>2. NothingNew
  BY <1>1, Sources
<1> QED
  BY <1>2, Stay

\* A conversation that does not exist has no version.
LEMMA NoVersions ==
  ASSUME RefInv, NEW c \in Ids, record[c] = None
  PROVE  Versions(c) = {} /\ Asked(c) = {}
<1>1. \A h \in Handlers : handler[h].step = "read" => handler[h].id # c
  BY RegistryAssumption DEF RefInv, HandlerOK, Belongs
<1>2. ~TurnHasCopy(c)
  BY DEF RefInv, TurnOK, TurnHasCopy
<1>3. \A r \in Requests : request[r].step = "read" => request[r].id # c
  BY DEF RefInv, RequestOK
<1> QED
  BY <1>1, <1>2, <1>3, RecordAssumption DEF Versions, Asked, HandlersWithCopy, At

\* A name that is used for the first time moves no record.
LEMMA PutFacts ==
  ASSUME RefInv, NEW c \in Ids, NEW k \in Coords \cup {None}, Put(c, k),
         UNCHANGED <<turn, request, retagged>>,
         \A h \in Handlers : handler'[h] = handler[h] \/ handler'[h].step # "read"
  PROVE  /\ RecordsStay
         /\ record' \in [Ids -> Record \cup {None, Torn}]
         /\ Belongs(c, k)'
         /\ reused' \in BOOLEAN
         /\ ~reused' => /\ \A d \in Ids \ {c} : Versions(d)' \subseteq Versions(d)
                        /\ \A x \in Versions(c)' :
                             x.coord = k /\ x.status = "active"
<1> DEFINE v == [status |-> "active", coord |-> k]
<1>1. v \in Record /\ v.coord = k /\ v.status = "active"
  BY DEF Record
<1>2. record' = [record EXCEPT ![c] = v] /\ reused' = (reused \/ record[c] # None)
  BY DEF Put
<1> HIDE DEF v
<1>3. record \in [Ids -> Record \cup {None, Torn}] /\ reused \in BOOLEAN
  BY DEF RefInv, Typed
<1>4. /\ record' \in [Ids -> Record \cup {None, Torn}] /\ record'[c] = v /\ v # None
      /\ \A d \in Ids \ {c} : record'[d] = record[d]
  BY <1>1, <1>2, <1>3, RecordAssumption
<1>5. ASSUME NEW d \in Ids, NEW x \in Versions(d)'
      PROVE  x \in Versions(d) \/ (d = c /\ x = v)
  BY <1>4, <1>5 DEF Versions, TurnHasCopy, HandlersWithCopy, At
<1>6. \A d \in Ids : Asked(d)' = Asked(d)
  BY DEF Asked
<1>7. ~reused' => record[c] = None /\ Versions(c) = {} /\ Asked(c) = {}
  BY <1>2, NoVersions
<1>8. Belongs(c, k)'
  BY <1>1, <1>4, <1>5, <1>6, <1>7 DEF Belongs, Steady
<1>9. RecordsStay
  BY <1>2, <1>3, <1>4, <1>5, <1>6, <1>7 DEF RecordsStay, Steady
<1> QED
  BY <1>1, <1>2, <1>3, <1>4, <1>5, <1>7, <1>8, <1>9

\* Nor does a version of the record that replaces it.
LEMMA ReplaceFacts ==
  ASSUME Typed, NEW c \in Ids, NEW x \in Versions(c), record[c] # None, Replace(c, x)
  PROVE  /\ record' \in [Ids -> Record \cup {None, Torn}]
         /\ \A d \in Ids : record[d] # None => record'[d] # None
         /\ \A d \in Ids : record'[d] \in Record => record'[d] \in Versions(d)
<1>1. PICK y \in {x, record[c], Torn} : record' = [record EXCEPT ![c] = y]
  BY DEF Replace
<1>2. x \in Record /\ \A d \in Ids : record[d] \in Record => record[d] \in Versions(d)
  BY DEF Versions
<1>3. record \in [Ids -> Record \cup {None, Torn}]
  BY DEF Typed
<1> QED
  BY <1>1, <1>2, <1>3, RecordAssumption

LEMMA HandlerTypes ==
  /\ NoMessage \in HandlerState /\ NoMessage.step = "idle" /\ NoMessage.id = None
  /\ NoRequest \in RequestState /\ NoRequest.step = "idle"
  /\ NoTurn \in TurnState /\ NoTurn.step = "none"
  /\ \A x \in HandlerState : \A s \in HandlerSteps :
       LET y == [x EXCEPT !.step = s]
       IN  /\ y \in HandlerState /\ y.step = s
           /\ y.coord = x.coord /\ y.id = x.id /\ y.copy = x.copy
BY DEF NoMessage, NoRequest, NoTurn, HandlerState, RequestState, TurnState,
       HandlerSteps

LEMMA GotoFacts ==
  ASSUME Typed, NEW h \in Handlers, NEW s \in HandlerSteps, Goto(h, s)
  PROVE  /\ handler' \in [Handlers -> HandlerState]
         /\ handler'[h].step = s /\ handler'[h].coord = handler[h].coord
         /\ handler'[h].id = handler[h].id /\ handler'[h].copy = handler[h].copy
         /\ \A g \in Handlers \ {h} : handler'[g] = handler[g]
<1>1. /\ handler \in [Handlers -> HandlerState]
      /\ handler' = [handler EXCEPT ![h] = [handler[h] EXCEPT !.step = s]]
  BY DEF Goto, Typed
<1> QED
  BY <1>1, HandlerTypes

-----------------------------------------------------------------------------
(* The handlers *)

LEMMA RefInit == Init => RefInv
<1> SUFFICES ASSUME Init PROVE RefInv
  OBVIOUS
<1>1. Typed
  <2>1. /\ turn \in [Ids -> TurnState] /\ handler \in [Handlers -> HandlerState]
        /\ request \in [Requests -> RequestState]
    BY HandlerTypes DEF Init
  <2>2. arrivals \in 0 .. MaxArrivals /\ restarts \in 0 .. MaxRestarts
    BY RegistryAssumption DEF Init
  <2> QED
    BY <2>1, <2>2 DEF Init, Typed
<1>2. /\ \A k \in Coords : bindings[k] = None
      /\ \A c \in Ids : turn[c].step = "none"
      /\ \A h \in Handlers : handler[h].step = "idle" /\ handler[h].id = None
      /\ \A r \in Requests : request[r].step = "idle"
  BY HandlerTypes DEF Init
<1> QED
  BY <1>1, <1>2 DEF RefInv, BindingOK, TurnOK, TurnHasCopy, HandlerOK, RequestOK

LEMMA LookUpKeeps ==
  ASSUME RefInv, NEW h \in Handlers, NEW k \in Coords, LookUp(h, k)
  PROVE  RefInv'
<1> DEFINE s == IF bindings[k] = None THEN "unbound" ELSE "bound"
           x == [NoMessage EXCEPT !.step = s, !.coord = k, !.id = bindings[k]]
<1>1. /\ handler \in [Handlers -> HandlerState] /\ bindings[k] \in Ids \cup {None}
      /\ handler' = [handler EXCEPT ![h] = x]
      /\ UNCHANGED <<store, turn, request, restarts, reused, overlapped, misled,
                     unlisted, retagged>>
      /\ arrivals' \in 0 .. MaxArrivals
      /\ crowded' \in BOOLEAN
  <2>1. handler \in [Handlers -> HandlerState] /\ bindings[k] \in Ids \cup {None}
    BY DEF RefInv, Typed
  <2>2. handler' = [handler EXCEPT ![h] = x]
    BY DEF LookUp
  <2>4. arrivals' \in 0 .. MaxArrivals
    BY RegistryAssumption DEF LookUp, Arrives, RefInv, Typed
  <2>5. UNCHANGED <<store, turn, request, restarts, reused, overlapped, misled,
                     unlisted, retagged>>
    BY DEF LookUp
  <2>6. crowded' \in BOOLEAN
    BY Zenon DEF LookUp
  <2> QED
    BY <2>1, <2>2, <2>4, <2>5, <2>6
<1>2. x \in HandlerState
  <2>1. s \in HandlerSteps
    BY DEF HandlerSteps
  <2>2. NoMessage \in HandlerState /\ bindings[k] \in Ids \cup {None}
    BY <1>1, HandlerTypes
  <2> HIDE DEF s
  <2> QED
    BY <2>1, <2>2 DEF HandlerState
<1>3. /\ handler' \in [Handlers -> HandlerState] /\ handler'[h] = x
      /\ \A g \in Handlers \ {h} : handler'[g] = handler[g]
  BY <1>1, <1>2
<1>4. /\ x.step \in {"unbound", "bound"} /\ x.coord = k /\ x.id = bindings[k]
      /\ x.step = "bound" => bindings[k] # None
  BY DEF NoMessage
<1> HIDE DEF s, x
<1>5. Typed'
  BY <1>1, <1>3 DEF RefInv, Typed, store
<1>6. UNCHANGED <<record, bindings, turn, request, reused, retagged>>
  BY <1>1 DEF store
<1>7. RecordsStay
  BY <1>3, <1>4, <1>6, Unmoved DEF RefInv
<1>8. HandlerOK(h)'
  <2>1. BindingOK(k)
    BY DEF RefInv
  <2> QED
    BY <1>3, <1>4, <1>6, <1>7, <2>1, BelongsKept DEF HandlerOK, BindingOK
<1> QED
  BY <1>3, <1>5, <1>6, <1>7, <1>8, HandlerStep

LEMMA CreateKeeps ==
  ASSUME RefInv, NEW h \in Handlers, Create(h)
  PROVE  RefInv'
<1>1. PICK c \in Ids \ runtimes :
        /\ Put(c, handler[h].coord)
        /\ handler' = [handler EXCEPT ![h].step = "created", ![h].id = c]
  BY DEF Create
<1>2. /\ Typed /\ At(h, "unbound") /\ handler[h].coord \in Coords
      /\ UNCHANGED <<bindings, active, runtimes, turn, request, arrivals, restarts,
                     crowded, overlapped, misled, unlisted, retagged>>
  BY DEF RefInv, HandlerOK, Create, At
<1> DEFINE x == [handler[h] EXCEPT !.step = "created", !.id = c]
<1>3. x \in HandlerState /\ x.step = "created" /\ x.id = c /\ x.coord = handler[h].coord
  BY <1>1, <1>2 DEF Typed, HandlerState, HandlerSteps
<1>4. handler' = [handler EXCEPT ![h] = x]
  BY <1>1
<1> HIDE DEF x
<1>5. /\ handler' \in [Handlers -> HandlerState] /\ handler'[h] = x
      /\ \A g \in Handlers \ {h} : handler'[g] = handler[g]
  BY <1>2, <1>3, <1>4 DEF Typed
<1>6. /\ RecordsStay /\ record' \in [Ids -> Record \cup {None, Torn}]
      /\ Belongs(c, handler[h].coord)' /\ reused' \in BOOLEAN
  BY <1>1, <1>2, <1>3, <1>5, PutFacts
<1>7. Typed'
  BY <1>2, <1>5, <1>6 DEF Typed
<1>8. handler'[h].id # None
  BY <1>1, <1>3, <1>5, RegistryAssumption
<1>9. HandlerOK(h)'
  BY <1>2, <1>3, <1>5, <1>6, <1>8 DEF HandlerOK, Belongs
<1> QED
  BY <1>2, <1>5, <1>6, <1>7, <1>9, HandlerStep

\* A record that is read is a version of itself.
LEMMA ReadFacts ==
  ASSUME Typed, NEW c \in Ids, record[c] # None, record[c] # Torn
  PROVE  record[c] \in Record /\ record[c] \in Versions(c)
BY DEF Typed, Versions

LEMMA TouchFacts ==
  ASSUME RefInv, NEW h \in Handlers, Touch(h)
  PROVE  /\ handler' \in [Handlers -> HandlerState]
         /\ \A g \in Handlers \ {h} : handler'[g] = handler[g]
         /\ handler'[h].step \in {"read", "kept"}
         /\ handler'[h].id = handler[h].id /\ handler'[h].coord = handler[h].coord
         /\ handler'[h].step = "read" =>
              /\ handler'[h].copy \in Record
              /\ handler'[h].copy \in Versions(handler[h].id)
         /\ NothingNew /\ RecordsStay
<1> DEFINE c == handler[h].id
           x == [handler[h] EXCEPT !.step = "read", !.copy = record[c]]
<1>1. /\ Typed /\ HandlerOK(h) /\ handler[h].step = "resolved"
      /\ UNCHANGED <<record, turn, request, reused, retagged>>
  BY DEF RefInv, Touch, At, ghosts
<1>2. c \in Ids /\ record[c] # None
  BY <1>1 DEF HandlerOK, Belongs
<1>3. \/ record[c] # Torn /\ handler' = [handler EXCEPT ![h] = x]
      \/ Goto(h, "kept")
  BY DEF Touch
<1>4. CASE record[c] # Torn /\ handler' = [handler EXCEPT ![h] = x]
  <2>1. record[c] \in Record /\ record[c] \in Versions(c)
    BY <1>1, <1>2, <1>4, ReadFacts
  <2>2. /\ x \in HandlerState /\ x.step = "read" /\ x.id = c
        /\ x.coord = handler[h].coord /\ x.copy = record[c]
    BY <1>1, <1>2, <2>1 DEF Typed, HandlerState, HandlerSteps
  <2> HIDE DEF x
  <2>3. /\ handler' \in [Handlers -> HandlerState] /\ handler'[h] = x
        /\ \A g \in Handlers \ {h} : handler'[g] = handler[g]
    BY <1>1, <1>4, <2>2 DEF Typed
  <2>4. \A d \in Ids : record'[d] \in Record => record'[d] \in Versions(d)
    BY <1>1 DEF Versions
  <2>5. NothingNew
    BY <1>1, <2>1, <2>2, <2>3, <2>4, Sources
  <2> QED
    BY <1>1, <2>1, <2>2, <2>3, <2>5, Stay
<1>5. CASE Goto(h, "kept")
  <2>1. "kept" \in HandlerSteps
    BY DEF HandlerSteps
  <2> QED
    BY <1>1, <1>5, <2>1, GotoFacts, Unmoved
<1> QED
  BY <1>3, <1>4, <1>5

LEMMA TouchKeeps ==
  ASSUME RefInv, NEW h \in Handlers, Touch(h)
  PROVE  RefInv'
<1>1. /\ Typed /\ HandlerOK(h) /\ handler[h].step = "resolved"
      /\ active' = handler[h].id
      /\ UNCHANGED <<record, bindings, runtimes, turn, request, arrivals, restarts,
                     reused, crowded, overlapped, misled, unlisted, retagged>>
  BY DEF RefInv, Touch, At, ghosts
<1>2. handler[h].id \in Ids /\ handler[h].id # None /\ handler[h].coord \in Coords
      /\ Belongs(handler[h].id, handler[h].coord)
  BY <1>1 DEF HandlerOK, Belongs
<1>3. Typed'
  BY <1>1, <1>2, TouchFacts DEF Typed
<1>4. HandlerOK(h)'
  BY <1>2, TouchFacts, BelongsKept DEF HandlerOK
<1> QED
  BY <1>1, <1>3, <1>4, TouchFacts, HandlerStep

LEMMA VerifyFacts ==
  ASSUME Typed, NEW h \in Handlers, Verify(h)
  PROVE  /\ handler' \in [Handlers -> HandlerState]
         /\ \A g \in Handlers \ {h} : handler'[g] = handler[g]
         /\ \/ handler'[h] = NoMessage
            \/ /\ handler'[h].step \in {"resolved", "stale"}
               /\ handler'[h].id = handler[h].id
               /\ handler'[h].coord = handler[h].coord
               /\ handler'[h].step = "stale" =>
                    record[handler[h].id] # Torn /\ ~IsActive(handler[h].id)
         /\ NothingNew /\ RecordsStay
<1> SUFFICES ASSUME NEW c, c = handler[h].id
             PROVE  /\ handler' \in [Handlers -> HandlerState]
                    /\ \A g \in Handlers \ {h} : handler'[g] = handler[g]
                    /\ \/ handler'[h] = NoMessage
                       \/ /\ handler'[h].step \in {"resolved", "stale"}
                          /\ handler'[h].id = c
                          /\ handler'[h].coord = handler[h].coord
                          /\ handler'[h].step = "stale" =>
                               record[c] # Torn /\ ~IsActive(c)
                    /\ NothingNew /\ RecordsStay
  OBVIOUS
<1>1. UNCHANGED <<record, turn, request, reused, retagged>>
  BY DEF Verify, store, ghosts
<1>2. CASE handler' = [handler EXCEPT ![h] = NoMessage]
  <2>1. /\ handler' \in [Handlers -> HandlerState] /\ handler'[h] = NoMessage
        /\ \A g \in Handlers \ {h} : handler'[g] = handler[g]
    BY <1>2, HandlerTypes DEF Typed
  <2> QED
    BY <1>1, <2>1, HandlerTypes, Unmoved
<1>3. CASE record[c] # Torn /\ Goto(h, IF IsActive(c) THEN "resolved" ELSE "stale")
  <2>1. PICK t \in {"resolved", "stale"} :
          Goto(h, t) /\ (t = "stale" => ~IsActive(c))
    BY <1>3
  <2>2. t \in HandlerSteps /\ t # "read"
    BY DEF HandlerSteps
  <2>3. /\ handler' \in [Handlers -> HandlerState]
        /\ handler'[h].step = t /\ handler'[h].coord = handler[h].coord
        /\ handler'[h].id = c
        /\ \A g \in Handlers \ {h} : handler'[g] = handler[g]
    BY <2>1, <2>2, GotoFacts
  <2> QED
    BY <1>1, <1>3, <2>1, <2>2, <2>3, Unmoved
<1> QED
  BY <1>2, <1>3 DEF Verify

\* Steps that only move the handler on, and change its binding at most.
LEMMA MoveKeeps ==
  ASSUME RefInv, NEW h \in Handlers, Verify(h) \/ Unbind(h) \/ Bind(h)
  PROVE  RefInv'
<1>1. Typed /\ HandlerOK(h)
  BY DEF RefInv
<1>2. CASE Verify(h)
  <2>1. /\ handler[h].step = "bound"
        /\ UNCHANGED <<record, bindings, active, runtimes, turn, request, arrivals,
                       restarts, reused, crowded, overlapped, misled, unlisted,
                       retagged>>
    BY <1>2 DEF Verify, store, ghosts, At
  <2>2. Typed'
    BY <1>1, <1>2, <2>1, VerifyFacts DEF Typed
  <2>3. HandlerOK(h)'
    BY <1>1, <1>2, <2>1, VerifyFacts, HandlerTypes, BelongsKept DEF HandlerOK
  <2> QED
    BY <1>1, <1>2, <2>1, <2>2, <2>3, VerifyFacts, HandlerStep
<1>3. CASE Unbind(h)
  <2>1. /\ Goto(h, "unbound") /\ "unbound" \in HandlerSteps /\ handler[h].step = "stale"
        /\ bindings' = [bindings EXCEPT ![handler[h].coord] = None]
        /\ UNCHANGED <<record, active, runtimes, turn, request, arrivals, restarts,
                       reused, crowded, overlapped, misled, unlisted, retagged>>
    BY <1>3 DEF Unbind, ghosts, At, HandlerSteps
  <2>2. /\ bindings' \in [Coords -> Ids \cup {None}]
        /\ \A k \in Coords : bindings'[k] \in {bindings[k], None}
    BY <1>1, <2>1 DEF Typed
  <2>3. RecordsStay
    BY <1>1, <2>1, GotoFacts, Unmoved
  <2>4. Typed' /\ HandlerOK(h)'
    BY <1>1, <2>1, <2>2, <2>3, GotoFacts, BelongsKept DEF Typed, HandlerOK
  <2>5. \A k \in Coords : bindings'[k] = bindings[k] \/ BindingOK(k)'
    BY <2>2 DEF BindingOK
  <2> QED
    BY <1>1, <2>1, <2>3, <2>4, <2>5, GotoFacts, HandlerStep
<1>4. CASE Bind(h)
  <2>1. /\ Goto(h, "resolved") /\ "resolved" \in HandlerSteps
        /\ handler[h].step = "created"
        /\ bindings' = [bindings EXCEPT ![handler[h].coord] = handler[h].id]
        /\ UNCHANGED <<record, active, runtimes, turn, request, arrivals, restarts,
                       reused, crowded, overlapped, misled, unlisted, retagged>>
    BY <1>4 DEF Bind, ghosts, At, HandlerSteps
  <2>2. /\ bindings' \in [Coords -> Ids \cup {None}]
        /\ \A k \in Coords :
             bindings'[k] = IF k = handler[h].coord THEN handler[h].id ELSE bindings[k]
    BY <1>1, <2>1 DEF Typed, HandlerOK, Belongs
  <2>3. RecordsStay
    BY <1>1, <2>1, GotoFacts, Unmoved
  <2>4. Typed' /\ HandlerOK(h)'
    BY <1>1, <2>1, <2>2, <2>3, GotoFacts, BelongsKept DEF Typed, HandlerOK
  <2>5. \A k \in Coords : bindings'[k] = bindings[k] \/ BindingOK(k)'
    BY <1>1, <2>1, <2>2, <2>3, BelongsKept DEF BindingOK, HandlerOK
  <2> QED
    BY <1>1, <2>1, <2>3, <2>4, <2>5, GotoFacts, HandlerStep
<1> QED
  BY <1>2, <1>3, <1>4

LEMMA KeepFacts ==
  ASSUME RefInv, NEW h \in Handlers, Keep(h)
  PROVE  /\ handler' \in [Handlers -> HandlerState] /\ handler'[h].step = "kept"
         /\ handler'[h].coord = handler[h].coord /\ handler'[h].id = handler[h].id
         /\ \A g \in Handlers \ {h} : handler'[g] = handler[g]
         /\ record' \in [Ids -> Record \cup {None, Torn}]
         /\ NothingNew /\ RecordsStay
<1>1. /\ Typed /\ HandlerOK(h) /\ handler[h].step = "read"
      /\ Goto(h, "kept") /\ "kept" \in HandlerSteps
      /\ Replace(handler[h].id, handler[h].copy)
      /\ UNCHANGED <<turn, request, reused, retagged>>
  BY DEF RefInv, Keep, At, ghosts, HandlerSteps
<1>2. /\ handler[h].id \in Ids /\ record[handler[h].id] # None
      /\ handler[h].copy \in Versions(handler[h].id)
  BY <1>1 DEF HandlerOK, Belongs, Versions, HandlersWithCopy, At
<1>3. /\ record' \in [Ids -> Record \cup {None, Torn}]
      /\ \A d \in Ids : record[d] # None => record'[d] # None
      /\ \A d \in Ids : record'[d] \in Record => record'[d] \in Versions(d)
  BY <1>1, <1>2, ReplaceFacts
<1>4. NothingNew
  BY <1>1, <1>3, GotoFacts, Sources
<1>5. RecordsStay
  BY <1>1, <1>3, <1>4, Stay
<1> QED
  BY <1>1, <1>3, <1>4, <1>5, GotoFacts

LEMMA KeepKeeps ==
  ASSUME RefInv, NEW h \in Handlers, Keep(h)
  PROVE  RefInv'
<1>1. /\ Typed /\ HandlerOK(h) /\ handler[h].step = "read"
      /\ UNCHANGED <<bindings, active, runtimes, turn, request, arrivals, restarts,
                     reused, crowded, overlapped, misled, unlisted, retagged>>
  BY DEF RefInv, Keep, At, ghosts
<1>2. Typed'
  BY <1>1, KeepFacts DEF Typed
<1>3. HandlerOK(h)'
  BY <1>1, KeepFacts, BelongsKept DEF HandlerOK
<1> QED
  BY <1>1, <1>2, <1>3, KeepFacts, HandlerStep

\* A published message starts the loop of an existing conversation or leaves it
\* as it is.
LEMMA RunTurnFacts ==
  ASSUME Typed, NEW c \in Ids, record[c] # None, RunTurn(c)
  PROVE  /\ turn' \in [Ids -> TurnState] /\ runtimes' \in SUBSET Ids
         /\ \A d \in Ids : turn'[d] = turn[d] \/ (record[d] # None /\ turn'[d].step = "running")
<1> DEFINE x == [turn[c] EXCEPT !.step = "running"]
<1>1. \/ UNCHANGED <<runtimes, turn>>
      \/ /\ runtimes' = runtimes \cup {c}
         /\ turn' = [turn EXCEPT ![c] = IF turn[c] = NoTurn THEN x ELSE turn[c]]
  BY DEF RunTurn
<1>2. x \in TurnState /\ x.step = "running"
  BY DEF Typed, TurnState
<1> HIDE DEF x
<1> QED
  BY <1>1, <1>2 DEF Typed

\* A step that publishes a message: all else it does is end a handler.
LEMMA PublishStep ==
  ASSUME RefInv, Typed', NEW c \in Ids, record[c] # None, RunTurn(c),
         UNCHANGED <<record, bindings, request, reused, retagged>>,
         \A h \in Handlers : handler'[h] = handler[h] \/ handler'[h] = NoMessage
  PROVE  RefInv' /\ NothingNew
<1>1. \A d \in Ids : turn'[d] = turn[d] \/ (record[d] # None /\ turn'[d].step = "running")
  BY RunTurnFacts DEF RefInv
<1>2. NothingNew /\ RecordsStay
  BY <1>1, HandlerTypes, Unmoved DEF RefInv
<1>3. \A h \in Handlers : HandlerOK(h)'
  <2>1. ASSUME NEW h \in Handlers, handler'[h] = NoMessage PROVE HandlerOK(h)'
    BY <2>1, HandlerTypes DEF HandlerOK
  <2> QED
    BY <1>2, <2>1, HandlerKept DEF RefInv
<1>4. \A d \in Ids : TurnOK(d)'
  <2>1. ASSUME NEW d \in Ids, record[d] # None, turn'[d].step = "running"
        PROVE  TurnOK(d)'
    BY <2>1 DEF TurnOK, TurnHasCopy
  <2> QED
    BY <1>1, <1>2, <2>1, TurnKept DEF RefInv
<1> QED
  BY <1>2, <1>3, <1>4, BindingKept, RequestKept DEF RefInv

LEMMA PublishKeeps ==
  ASSUME RefInv, NEW h \in Handlers, Publish(h)
  PROVE  RefInv' /\ NothingNew
<1>1. /\ Typed /\ HandlerOK(h) /\ handler[h].step = "kept"
      /\ RunTurn(handler[h].id)
      /\ handler' = [handler EXCEPT ![h] = NoMessage]
      /\ UNCHANGED <<record, bindings, active, request, arrivals, restarts,
                     reused, crowded, overlapped, misled, unlisted, retagged>>
  BY DEF RefInv, Publish, At, ghosts
<1>2. handler[h].id \in Ids /\ record[handler[h].id] # None
  BY <1>1 DEF HandlerOK, Belongs
<1>3. /\ handler' \in [Handlers -> HandlerState] /\ handler'[h] = NoMessage
      /\ \A g \in Handlers \ {h} : handler'[g] = handler[g]
  BY <1>1, HandlerTypes DEF Typed
<1>4. turn' \in [Ids -> TurnState] /\ runtimes' \in SUBSET Ids
  BY <1>1, <1>2, RunTurnFacts
<1>5. Typed'
  BY <1>1, <1>3, <1>4 DEF Typed
<1> QED
  BY <1>1, <1>2, <1>3, <1>5, PublishStep

-----------------------------------------------------------------------------
(* Turns, requests and restarts *)

\* A step of the loop of c.
LEMMA TurnStep ==
  ASSUME RefInv, Typed', RecordsStay, NEW c \in Ids,
         \A d \in Ids \ {c} : turn'[d] = turn[d], TurnOK(c)',
         UNCHANGED <<bindings, handler, request>>
  PROVE  RefInv'
<1>1. \A d \in Ids : TurnOK(d)'
  BY TurnKept DEF RefInv
<1> QED
  BY <1>1, BindingKept, HandlerKept, RequestKept DEF RefInv

\* finalize_response and update_session replace a record by a version of it.
LEMMA TurnFacts ==
  ASSUME RefInv, NEW c \in Ids, Update(c) \/ EndTurn(c) \/ FinishTurn(c)
  PROVE  /\ turn' \in [Ids -> TurnState]
         /\ \A d \in Ids \ {c} : turn'[d] = turn[d]
         /\ TurnHasCopy(c)' => turn'[c].copy \in Record
         /\ record[c] # None
         /\ record' \in [Ids -> Record \cup {None, Torn}]
         /\ NothingNew /\ RecordsStay
<1>1. Typed /\ TurnOK(c)
  BY DEF RefInv
<1>2. CASE EndTurn(c)
  <2> DEFINE x == IF record[c] = Torn THEN NoTurn
                  ELSE [step |-> "read", copy |-> record[c]]
  <2>1. /\ turn[c].step = "running" /\ turn' = [turn EXCEPT ![c] = x]
        /\ UNCHANGED <<record, handler, request, reused, retagged>>
    BY <1>2 DEF EndTurn, store, ghosts
  <2>2. record[c] # None
    BY <1>1, <2>1 DEF TurnOK
  <2>3. record[c] # Torn => record[c] \in Record /\ record[c] \in Versions(c)
    BY <1>1, <2>2, ReadFacts
  <2>4. /\ x \in TurnState
        /\ x.step \in {"updating", "read"} => x.copy \in Versions(c) /\ x.copy \in Record
    BY <2>3, HandlerTypes DEF TurnState
  <2> HIDE DEF x
  <2>5. /\ turn' \in [Ids -> TurnState] /\ turn'[c] = x
        /\ \A d \in Ids \ {c} : turn'[d] = turn[d]
    BY <1>1, <2>1, <2>4 DEF Typed
  <2>6. \A d \in Ids : record'[d] \in Record => record'[d] \in Versions(d)
    BY <2>1 DEF Versions
  <2>7. NothingNew
    BY <2>1, <2>4, <2>5, <2>6, Sources
  <2>8. RecordsStay
    BY <2>1, <2>7, Stay
  <2> QED
    BY <1>1, <2>1, <2>2, <2>4, <2>5, <2>7, <2>8 DEF Typed, TurnHasCopy
<1>3. CASE Update(c) \/ FinishTurn(c)
  <2>1. PICK x \in {NoTurn, [NoTurn EXCEPT !.step = "running"]} :
          /\ TurnHasCopy(c) /\ turn' = [turn EXCEPT ![c] = x]
          /\ Replace(c, turn[c].copy)
          /\ UNCHANGED <<handler, request, reused, retagged>>
    BY <1>3 DEF Update, FinishTurn, ghosts, TurnHasCopy
  <2>2. x \in TurnState /\ x.step \notin {"updating", "read"}
    BY DEF NoTurn, TurnState
  <2>3. /\ turn' \in [Ids -> TurnState] /\ turn'[c] = x
        /\ \A d \in Ids \ {c} : turn'[d] = turn[d]
    BY <1>1, <2>1, <2>2 DEF Typed
  <2>4. record[c] # None /\ turn[c].copy \in Versions(c)
    BY <1>1, <2>1 DEF TurnOK, TurnHasCopy, Versions
  <2>5. /\ record' \in [Ids -> Record \cup {None, Torn}]
        /\ \A d \in Ids : record[d] # None => record'[d] # None
        /\ \A d \in Ids : record'[d] \in Record => record'[d] \in Versions(d)
    BY <1>1, <2>1, <2>4, ReplaceFacts
  <2>6. NothingNew
    BY <2>1, <2>2, <2>3, <2>5, Sources
  <2>7. RecordsStay
    BY <2>1, <2>5, <2>6, Stay
  <2> QED
    BY <2>2, <2>3, <2>4, <2>5, <2>6, <2>7 DEF TurnHasCopy
<1> QED
  BY <1>2, <1>3

LEMMA TurnKeeps ==
  ASSUME RefInv, NEW c \in Ids, Update(c) \/ EndTurn(c) \/ FinishTurn(c)
  PROVE  RefInv'
<1>1. Typed /\ UNCHANGED <<bindings, active, runtimes, handler, request, arrivals,
                          restarts, reused, crowded, overlapped, misled, unlisted,
                          retagged>>
  BY DEF RefInv, Update, EndTurn, FinishTurn, store, ghosts
<1>2. Typed'
  BY <1>1, TurnFacts DEF Typed
<1>3. TurnOK(c)'
  BY TurnFacts DEF TurnOK, RecordsStay
<1> QED
  BY <1>1, <1>2, <1>3, TurnFacts, TurnStep

\* update_session reads the record, and may give it another coordinate.
LEMMA ReadToUpdateFacts ==
  ASSUME RefInv, NEW c \in Ids, ReadToUpdate(c)
  PROVE  RefInv' /\ (~retagged' => NothingNew)
<1>1. PICK k \in Coords \cup {record[c].coord} :
        /\ turn' = [turn EXCEPT ![c] = [step |-> "updating",
                                        copy |-> [record[c] EXCEPT !.coord = k]]]
        /\ retagged' = (retagged \/ k # record[c].coord)
  BY DEF ReadToUpdate
<1> DEFINE y == [record[c] EXCEPT !.coord = k]
           x == [step |-> "updating", copy |-> y]
<1>2. /\ Typed /\ TurnOK(c) /\ record[c] \in Record
      /\ UNCHANGED <<record, bindings, active, runtimes, handler, request, arrivals,
                     restarts, reused, crowded, overlapped, misled, unlisted>>
  BY DEF RefInv, ReadToUpdate, store
<1>3. y \in Record /\ (k = record[c].coord => y = record[c])
  <2>1. record[c].coord \in Coords \cup {None}
    BY <1>2 DEF Record
  <2> QED
    BY <1>2, <2>1 DEF Record
<1> HIDE DEF y
<1>4. x \in TurnState /\ x.step = "updating" /\ x.copy = y
  BY <1>3 DEF TurnState
<1>5. turn' = [turn EXCEPT ![c] = x]
  BY <1>1 DEF y
<1> HIDE DEF x
<1>6. /\ turn' \in [Ids -> TurnState] /\ turn'[c] = x
      /\ \A d \in Ids \ {c} : turn'[d] = turn[d]
  BY <1>2, <1>4, <1>5 DEF Typed
<1>7. retagged \in BOOLEAN /\ retagged' \in BOOLEAN
  BY <1>1, <1>2, Zenon DEF Typed
<1>8. Typed'
  BY <1>2, <1>6, <1>7 DEF Typed
<1>9. \A d \in Ids : record'[d] \in Record => record'[d] \in Versions(d)
  BY <1>2 DEF Versions
<1>10. ~retagged' => NothingNew /\ UNCHANGED retagged
  <2>1. ASSUME ~retagged' PROVE NothingNew /\ UNCHANGED retagged
    <3>1. k = record[c].coord /\ ~retagged
      BY <1>1, <2>1
    <3>2. x.copy = record[c] /\ record[c] \in Versions(c)
      BY <1>2, <1>3, <1>4, <3>1 DEF Versions
    <3>3. NothingNew
      BY <1>2, <1>6, <1>9, <3>2, Sources
    <3> QED
      BY <1>7, <2>1, <3>1, <3>3
  <2> QED
    BY <2>1
<1>11. RecordsStay
  <2>1. CASE ~retagged'
    BY <1>2, <1>10, <2>1, Stay
  <2>2. CASE retagged'
    BY <1>2, <2>2 DEF RecordsStay, Steady
  <2> QED
    BY <2>1, <2>2
<1>12. TurnOK(c)'
  BY <1>2, <1>3, <1>4, <1>6, RecordAssumption DEF TurnOK
<1> QED
  BY <1>2, <1>6, <1>8, <1>10, <1>11, <1>12, TurnStep

\* A step of one close request.
LEMMA RequestStep ==
  ASSUME RefInv, Typed', RecordsStay, NEW r \in Requests,
         \A q \in Requests \ {r} : request'[q] = request[q], RequestOK(r)',
         UNCHANGED <<bindings, turn, handler>>
  PROVE  RefInv'
<1>1. \A q \in Requests : RequestOK(q)'
  BY RequestKept DEF RefInv
<1> QED
  BY <1>1, BindingKept, HandlerKept, TurnKept DEF RefInv

LEMMA CloseKeeps ==
  ASSUME RefInv, NEW r \in Requests, NEW c \in Ids, Close(r, c)
  PROVE  RefInv' /\ NothingNew
<1> DEFINE x == [request[r] EXCEPT !.step = "allowed", !.id = c]
<1>1. /\ Typed /\ request' = [request EXCEPT ![r] = x] /\ record[c] # None
      /\ UNCHANGED <<record, bindings, active, runtimes, turn, handler, restarts,
                     reused, crowded, overlapped, misled, unlisted, retagged>>
  BY DEF RefInv, Close, store, ghosts
<1>2. arrivals' \in 0 .. MaxArrivals
  <2>1. arrivals < MaxArrivals /\ arrivals' = arrivals + 1
    BY DEF Close, Arrives
  <2>2. arrivals \in 0 .. MaxArrivals /\ MaxArrivals \in Nat
    BY <1>1, RegistryAssumption DEF Typed
  <2> QED
    BY <2>1, <2>2
<1>3. x \in RequestState /\ x.step = "allowed" /\ x.id = c
  BY <1>1 DEF Typed, RequestState
<1> HIDE DEF x
<1>4. /\ request' \in [Requests -> RequestState] /\ request'[r] = x
      /\ \A q \in Requests \ {r} : request'[q] = request[q]
  BY <1>1, <1>3 DEF Typed
<1>5. Typed' /\ RequestOK(r)'
  BY <1>1, <1>2, <1>3, <1>4 DEF Typed, RequestOK
<1>6. NothingNew /\ RecordsStay
  BY <1>1, <1>3, <1>4, Unmoved
<1> QED
  BY <1>1, <1>4, <1>5, <1>6, RequestStep

LEMMA ReadToArchiveKeeps ==
  ASSUME RefInv, NEW r \in Requests, ReadToArchive(r)
  PROVE  RefInv' /\ NothingNew
<1> SUFFICES ASSUME NEW c, c = request[r].id PROVE RefInv' /\ NothingNew
  OBVIOUS
<1> DEFINE y == [request[r] EXCEPT !.step = "read", !.copy = record[c]]
           x == IF record[c] = Torn THEN NoRequest ELSE y
<1>1. /\ Typed /\ RequestOK(r) /\ request[r].step = "allowed"
      /\ request' = [request EXCEPT ![r] = x]
      /\ UNCHANGED <<record, bindings, active, runtimes, turn, handler, arrivals,
                     restarts, reused, crowded, overlapped, misled, unlisted,
                     retagged>>
  BY DEF RefInv, ReadToArchive, store, ghosts
<1>2. c \in Ids /\ record[c] # None
  BY <1>1 DEF RequestOK
<1>3. record[c] # Torn => record[c] \in Record /\ record[c] \in Versions(c)
  BY <1>1, <1>2, ReadFacts
<1>4. record[c] # Torn =>
        y \in RequestState /\ y.step = "read" /\ y.id = c /\ y.copy = record[c]
  BY <1>1, <1>3 DEF Typed, RequestState
<1>5. /\ x \in RequestState
      /\ x = NoRequest \/ (x.id = c /\ x.copy \in Record /\ x.copy \in Versions(c))
  BY <1>3, <1>4, HandlerTypes
<1> HIDE DEF x
<1>6. /\ request' \in [Requests -> RequestState] /\ request'[r] = x
      /\ \A q \in Requests \ {r} : request'[q] = request[q]
  BY <1>1, <1>5 DEF Typed
<1>7. Typed' /\ RequestOK(r)'
  BY <1>1, <1>2, <1>5, <1>6, HandlerTypes DEF Typed, RequestOK
<1>8. \A d \in Ids : record'[d] \in Record => record'[d] \in Versions(d)
  BY <1>1 DEF Versions
<1>9. NothingNew
  BY <1>1, <1>8, Sources
<1>10. RecordsStay
  BY <1>1, <1>5, <1>6, <1>9, HandlerTypes, Stay
<1> QED
  BY <1>1, <1>6, <1>7, <1>9, <1>10, RequestStep

\* What archiving leaves has the coordinate of what was read.
LEMMA ArchiveFacts ==
  ASSUME RefInv, NEW r \in Requests, Archive(r),
         NEW c, c = request[r].id
  PROVE  /\ c \in Ids
         /\ record' \in [Ids -> Record \cup {None, Torn}]
         /\ \A d \in Ids \ {c} : record'[d] = record[d]
         /\ \/ record'[c] \in {record[c], Torn}
            \/ record'[c] \in Record /\ record'[c].status = "archived"
         /\ request' \in [Requests -> RequestState]
         /\ \A q \in Requests \ {r} : request'[q] = request[q]
         /\ request'[r] = NoRequest \/ (request'[r].step = "archived" /\ request'[r].id = c)
         /\ RecordsStay
<1> DEFINE a == [request[r].copy EXCEPT !.status = "archived"]
           x == [request[r] EXCEPT !.step = "archived"]
<1>1. /\ Typed /\ RequestOK(r) /\ request[r].step = "read" /\ Replace(c, a)
      /\ request' = [request EXCEPT ![r] = x]
         \/ request' = [request EXCEPT ![r] = NoRequest]
      /\ UNCHANGED <<turn, handler, reused, retagged>>
  BY DEF RefInv, Archive
<1>2. /\ c \in Ids /\ record[c] # None /\ request[r].copy \in Record
      /\ request[r].copy \in Asked(c)
  BY <1>1 DEF RequestOK, Asked
<1>3. a \in Record /\ a.coord = request[r].copy.coord /\ a.status = "archived"
  BY <1>2 DEF Record
<1>4. x \in RequestState /\ x.step = "archived" /\ x.id = c
  BY <1>1 DEF Typed, RequestState
<1>5. PICK y \in {a, record[c], Torn} : record' = [record EXCEPT ![c] = y]
  BY <1>1 DEF Replace
<1> HIDE DEF a, x
<1>6. /\ record \in [Ids -> Record \cup {None, Torn}]
      /\ record' \in [Ids -> Record \cup {None, Torn}] /\ record'[c] = y /\ y # None
      /\ \A d \in Ids \ {c} : record'[d] = record[d]
  BY <1>1, <1>2, <1>3, <1>5, RecordAssumption DEF Typed
<1>7. /\ request' \in [Requests -> RequestState]
      /\ \A q \in Requests \ {r} : request'[q] = request[q]
      /\ request'[r] = NoRequest \/ (request'[r].step = "archived" /\ request'[r].id = c)
  BY <1>1, <1>4, HandlerTypes DEF Typed
<1>8. ASSUME NEW d \in Ids, NEW v \in Versions(d)' PROVE v \in Versions(d) \/ (d = c /\ v = a)
  BY <1>1, <1>6, <1>8, RecordAssumption DEF Versions, TurnHasCopy, HandlersWithCopy, At
<1>9. \A d \in Ids : Asked(d)' \subseteq Asked(d)
  <2> SUFFICES ASSUME NEW d \in Ids, NEW v \in Asked(d)' PROVE v \in Asked(d)
    OBVIOUS
  <2>1. PICK q \in Requests : /\ request'[q].step = "read" /\ request'[q].id = d
                              /\ request'[q].copy = v
    BY DEF Asked
  <2>2. q # r
    BY <1>7, <2>1, HandlerTypes
  <2> QED
    BY <1>7, <2>1, <2>2 DEF Asked
<1>10. RecordsStay
  BY <1>1, <1>2, <1>3, <1>6, <1>8, <1>9 DEF RecordsStay, Steady
<1> QED
  BY <1>2, <1>3, <1>6, <1>7, <1>10

LEMMA ArchiveKeeps ==
  ASSUME RefInv, NEW r \in Requests, Archive(r)
  PROVE  RefInv'
<1> SUFFICES ASSUME NEW c, c = request[r].id PROVE RefInv'
  OBVIOUS
<1>1. /\ Typed /\ RequestOK(r) /\ request[r].step = "read"
      /\ UNCHANGED <<bindings, active, runtimes, turn, handler, arrivals, restarts,
                     reused, crowded, misled, unlisted, retagged>>
  BY DEF RefInv, Archive
<1>2. overlapped' \in BOOLEAN
  BY Zenon DEF Archive
<1>3. Typed'
  BY <1>1, <1>2, ArchiveFacts DEF Typed
<1>4. RequestOK(r)'
  <2>1. c \in Ids /\ record'[c] # None
    BY <1>1, ArchiveFacts DEF RequestOK, RecordsStay
  <2> QED
    BY <2>1, ArchiveFacts, HandlerTypes DEF RequestOK
<1> QED
  BY <1>1, <1>3, <1>4, ArchiveFacts, RequestStep

LEMMA ClearFocusKeeps ==
  ASSUME RefInv, NEW r \in Requests, ClearFocus(r)
  PROVE  RefInv' /\ NothingNew
<1>1. /\ Typed /\ request' = [request EXCEPT ![r] = NoRequest]
      /\ active' \in {None, active}
      /\ UNCHANGED <<record, bindings, runtimes, turn, handler, arrivals, restarts,
                     reused, crowded, overlapped, misled, unlisted, retagged>>
  BY DEF RefInv, ClearFocus, ghosts
<1>2. /\ request' \in [Requests -> RequestState] /\ request'[r] = NoRequest
      /\ \A q \in Requests \ {r} : request'[q] = request[q]
  BY <1>1, HandlerTypes DEF Typed
<1>3. Typed' /\ RequestOK(r)'
  BY <1>1, <1>2, HandlerTypes DEF Typed, RequestOK
<1>4. NothingNew /\ RecordsStay
  BY <1>1, <1>2, HandlerTypes, Unmoved
<1> QED
  BY <1>1, <1>2, <1>3, <1>4, RequestStep

LEMMA OpenKeeps == RefInv /\ Open => RefInv'
<1> SUFFICES ASSUME RefInv, Open PROVE RefInv'
  OBVIOUS
<1>1. PICK c \in Ids : Put(c, None) /\ active' = c
  BY DEF Open
<1>2. /\ Typed
      /\ UNCHANGED <<bindings, runtimes, turn, handler, request, restarts, crowded,
                     overlapped, misled, unlisted, retagged>>
  BY DEF RefInv, Open
<1>3. arrivals' \in 0 .. MaxArrivals
  BY <1>2, RegistryAssumption DEF Open, Arrives, Typed
<1>4. /\ RecordsStay /\ record' \in [Ids -> Record \cup {None, Torn}]
      /\ reused' \in BOOLEAN
  BY <1>1, <1>2, PutFacts
<1>5. Typed'
  BY <1>1, <1>2, <1>3, <1>4 DEF Typed
<1> QED
  BY <1>2, <1>4, <1>5, BindingKept, TurnKept, HandlerKept, RequestKept DEF RefInv

LEMMA SendKeeps ==
  ASSUME RefInv, NEW c \in Ids, Send(c)
  PROVE  RefInv' /\ NothingNew
<1>1. /\ Typed /\ RunTurn(c) /\ record[c] # None
      /\ UNCHANGED <<record, bindings, active, handler, request, restarts,
                     reused, crowded, overlapped, misled, unlisted, retagged>>
  BY DEF RefInv, Send, ghosts
<1>2. arrivals' \in 0 .. MaxArrivals
  BY <1>1, RegistryAssumption DEF Send, Arrives, Typed
<1>3. turn' \in [Ids -> TurnState] /\ runtimes' \in SUBSET Ids
  BY <1>1, RunTurnFacts
<1>4. Typed'
  BY <1>1, <1>2, <1>3 DEF Typed
<1> QED
  BY <1>1, <1>4, PublishStep

LEMMA SwitchKeeps ==
  ASSUME RefInv, NEW c \in Ids, SwitchTo(c)
  PROVE  RefInv' /\ NothingNew
<1>1. /\ Typed /\ active' = c
      /\ UNCHANGED <<record, bindings, runtimes, turn, handler, request, restarts,
                     reused, crowded, overlapped, misled, unlisted, retagged>>
  BY DEF RefInv, SwitchTo, ghosts
<1>2. arrivals' \in 0 .. MaxArrivals
  BY <1>1, RegistryAssumption DEF SwitchTo, Arrives, Typed
<1>3. Typed'
  BY <1>1, <1>2 DEF Typed
<1>4. NothingNew /\ RecordsStay
  BY <1>1, Unmoved
<1> QED
  BY <1>1, <1>3, <1>4, BindingKept, TurnKept, HandlerKept, RequestKept DEF RefInv

\* Bindings rebuilt from the records lead to conversations of the coordinate.
LEMMA RebuiltFacts ==
  ASSUME NEW k \in Coords
  PROVE  /\ Threads(k) = {} => Rebuilt[k] = None
         /\ Threads(k) # {} => Rebuilt[k] \in Threads(k)
         /\ Threads(k) \in SUBSET Ids
<1>1. Rebuilt[k] = IF Threads(k) = {} THEN None ELSE Max(Threads(k))
  BY DEF Rebuilt
<1>2. Threads(k) \in SUBSET Ids
  BY DEF Threads
<1> QED
  BY <1>1, <1>2, RegistryAssumption

\* A stop ends every task; what is left are the records, some cut short.
LEMMA StopFacts ==
  ASSUME RefInv, NEW cut \in SUBSET Ids, Stop(cut)
  PROVE  /\ restarts' \in 0 .. MaxRestarts /\ reused' \in BOOLEAN
         /\ runtimes' = {} /\ UNCHANGED <<arrivals, crowded, overlapped, retagged>>
         /\ record' \in [Ids -> Record \cup {None, Torn}]
         /\ \A c \in Ids : record'[c] = IF c \in cut THEN Torn ELSE record[c]
         /\ turn' \in [Ids -> TurnState] /\ \A c \in Ids : turn'[c].step = "none"
         /\ handler' \in [Handlers -> HandlerState]
         /\ \A h \in Handlers : handler'[h].step = "idle" /\ handler'[h].id = None
         /\ request' \in [Requests -> RequestState]
         /\ \A r \in Requests : request'[r].step = "idle"
         /\ \A c \in Ids : TurnOK(c)'
         /\ \A h \in Handlers : HandlerOK(h)'
         /\ \A r \in Requests : RequestOK(r)'
         /\ \A c \in Ids : Asked(c)' = {} /\ Versions(c)' = {record'[c]} \cap Record
<1>1. /\ Typed /\ restarts < MaxRestarts /\ restarts' = restarts + 1
      /\ record' = [c \in Ids |-> IF c \in cut THEN Torn ELSE record[c]]
      /\ runtimes' = {} /\ UNCHANGED <<arrivals, crowded, overlapped, retagged>>
      /\ turn' = [c \in Ids |-> NoTurn]
      /\ handler' = [h \in Handlers |-> NoMessage]
      /\ request' = [r \in Requests |-> NoRequest]
  BY DEF RefInv, Stop
<1>2. reused' \in BOOLEAN
  BY Zenon DEF Stop
<1>3. restarts' \in 0 .. MaxRestarts
  BY <1>1, RegistryAssumption DEF Typed
<1>4. /\ turn' \in [Ids -> TurnState] /\ \A c \in Ids : turn'[c].step = "none"
      /\ handler' \in [Handlers -> HandlerState]
      /\ \A h \in Handlers : handler'[h].step = "idle" /\ handler'[h].id = None
      /\ request' \in [Requests -> RequestState]
      /\ \A r \in Requests : request'[r].step = "idle"
  BY <1>1, HandlerTypes
<1>5. /\ record' \in [Ids -> Record \cup {None, Torn}]
      /\ \A c \in Ids : record'[c] = IF c \in cut THEN Torn ELSE record[c]
  BY <1>1 DEF Typed
<1>6. /\ \A c \in Ids : TurnOK(c)'
      /\ \A h \in Handlers : HandlerOK(h)'
      /\ \A r \in Requests : RequestOK(r)'
  BY <1>4 DEF TurnOK, TurnHasCopy, HandlerOK, RequestOK
<1>7. \A c \in Ids : Asked(c)' = {} /\ Versions(c)' = {record'[c]} \cap Record
  BY <1>4 DEF Asked, Versions, TurnHasCopy, HandlersWithCopy, At
<1> QED
  BY <1>1, <1>2, <1>3, <1>4, <1>5, <1>6, <1>7

LEMMA RestartKeeps == RefInv /\ Restart => RefInv'
<1> SUFFICES ASSUME RefInv, Restart PROVE RefInv'
  OBVIOUS
<1>1. /\ Typed /\ Stop({}) /\ bindings' = Rebuilt /\ UNCHANGED unlisted
      /\ active' \in Ids \cup {None}
  BY DEF RefInv, Restart
<1>2. misled' \in BOOLEAN
  BY Zenon DEF Restart
<1>3. /\ \A c \in Ids : /\ record'[c] = record[c] /\ TurnOK(c)'
                        /\ Asked(c)' = {} /\ Versions(c)' = {record'[c]} \cap Record
      /\ \A h \in Handlers : HandlerOK(h)'
      /\ \A r \in Requests : RequestOK(r)'
  <2>1. {} \in SUBSET Ids
    OBVIOUS
  <2> QED
    BY <1>1, <2>1, StopFacts
<1>4. \A k \in Coords : bindings'[k] \in Ids \cup {None}
  BY <1>1, RebuiltFacts
<1>5. bindings' = [k \in Coords |-> bindings'[k]]
  BY <1>1 DEF Rebuilt
<1>6. Typed'
  BY <1>1, <1>2, <1>4, <1>5, StopFacts DEF Typed
<1>7. ASSUME NEW k \in Coords PROVE BindingOK(k)'
  <2>1. ASSUME NEW c \in Threads(k) PROVE Belongs(c, k)'
    BY <1>3, RecordAssumption DEF Belongs, Threads
  <2> QED
    BY <1>1, <2>1, RebuiltFacts DEF BindingOK
<1> QED
  BY <1>3, <1>6, <1>7 DEF RefInv

LEMMA RestartBlindKeeps == RefInv /\ RestartBlind => RefInv'
<1> SUFFICES ASSUME RefInv, RestartBlind PROVE RefInv'
  OBVIOUS
<1>1. PICK cut \in SUBSET Ids : Stop(cut)
  BY DEF RestartBlind, Begun
<1>2. /\ Typed /\ bindings' = [k \in Coords |-> None]
      /\ active' = None /\ unlisted' = TRUE /\ UNCHANGED misled
  BY DEF RefInv, RestartBlind
<1>3. Typed'
  BY <1>1, <1>2, StopFacts DEF Typed
<1> QED
  BY <1>1, <1>2, <1>3, StopFacts DEF RefInv, BindingOK

LEMMA RefNext == RefInv /\ [Next]_vars => RefInv'
<1> SUFFICES ASSUME RefInv, [Next]_vars PROVE RefInv'
  OBVIOUS
<1>1. CASE UNCHANGED vars
  <2>1. NothingNew /\ RecordsStay
    BY <1>1, Unmoved DEF vars, RefInv
  <2>2. Typed'
    BY <1>1 DEF vars, RefInv, Typed
  <2> QED
    BY <1>1, <2>1, <2>2, BindingKept, TurnKept, HandlerKept, RequestKept
       DEF vars, RefInv
<1> QED
  BY <1>1, LookUpKeeps, MoveKeeps, CreateKeeps, TouchKeeps, KeepKeeps, PublishKeeps,
     ReadToUpdateFacts, TurnKeeps, SendKeeps, SwitchKeeps, OpenKeeps, CloseKeeps,
     ReadToArchiveKeeps, ArchiveKeeps, ClearFocusKeeps, RestartKeeps,
     RestartBlindKeeps DEF Next

\* Every handler, loop and request refers to a record that exists.
THEOREM TypesCorrect == Spec => []TypeOK
BY RefInit, RefNext, TypesFollow, PTL DEF Spec

\* As long as no name is used twice and no conversation is given another
\* coordinate, a message of one coordinate never ends up in a conversation that
\* was created for another, nor after a restart.
THEOREM ThreadsApart == Spec => []ThreadsAreNotShared
BY RefInit, RefNext, ThreadsFollow, PTL DEF Spec

-----------------------------------------------------------------------------
(* One open thread for each coordinate.  The invariant says where a handler *)
(* stands with the open threads of its coordinate at each of its steps.     *)

\* c is an open conversation of k, or will be one when a copy is written back.
OpenOf(c, k) == \E x \in Versions(c) : x.coord = k /\ x.status = "active"

\* What excuses a second open thread.
Excused == reused \/ crowded \/ overlapped \/ misled \/ unlisted \/ retagged

\* No coordinate is resolved by two handlers at once.
Alone ==
  \A g, h \in Handlers :
    Resolving(g) /\ Resolving(h) /\ handler[g].coord = handler[h].coord => g = h

\* What h knows: the binding it looked up still stands; once it gave that up,
\* no thread is open; and once it created one, no other is.
ResolveOK(h) ==
  LET k == handler[h].coord
  IN  /\ handler[h].step \in {"bound", "stale"} => handler[h].id = bindings[k]
      /\ handler[h].step \in {"stale", "unbound"} => \A c \in Ids : ~OpenOf(c, k)
      /\ handler[h].step = "created" =>
           \A c \in Ids : OpenOf(c, k) => c = handler[h].id

\* An open thread is bound, or about to be.
RouteOK(k) ==
  \A c \in Ids : OpenOf(c, k) =>
    bindings[k] = c \/ \E h \in Handlers : At(h, "created") /\ handler[h].id = c

\* The versions of a record are all open or all closed.
AgreeOK(c) == \A x, y \in Versions(c) : x.status = y.status

RoutingOK ==
  /\ Alone
  /\ \A h \in Handlers : ResolveOK(h)
  /\ \A k \in Coords : RouteOK(k)
  /\ \A c \in Ids : AgreeOK(c)

OpenInv == RefInv /\ (~Excused => RoutingOK)

LEMMA OpenFollows == OpenInv => OneOpenThread
<1> SUFFICES ASSUME RefInv, ~Excused, RoutingOK, NEW k \in Coords, NEW c \in Threads(k),
                    IsActive(c)
             PROVE  bindings[k] = c
                    \/ \E h \in Handlers : At(h, "created") /\ handler[h].id = c
  BY DEF OpenInv, OneOpenThread, Excused
<1>1. c \in Ids /\ OpenOf(c, k)
  BY DEF OpenOf, Versions, Threads, IsActive
<1> QED
  BY <1>1 DEF RoutingOK, RouteOK

\* No conversation is opened.
NoneOpens == \A c \in Ids : \A k \in Coords : OpenOf(c, k)' => OpenOf(c, k)

\* A step in which no handler starts, finishes or goes on with resolving.
LEMMA RoutesKept ==
  ASSUME RefInv, RoutingOK, NoneOpens, bindings' = bindings,
         \A g \in Handlers : Resolving(g) \/ Resolving(g)' => handler'[g] = handler[g]
  PROVE  Alone' /\ (\A h \in Handlers : ResolveOK(h)') /\ (\A k \in Coords : RouteOK(k)')
<1>1. Alone'
  BY DEF RoutingOK, Alone, Resolving
<1>2. ASSUME NEW h \in Handlers PROVE ResolveOK(h)'
  <2>1. CASE Resolving(h)'
    <3>1. handler'[h] = handler[h] /\ ResolveOK(h) /\ handler[h].coord \in Coords
      BY <2>1 DEF RoutingOK, RefInv, HandlerOK, Resolving
    <3> QED
      BY <3>1 DEF ResolveOK, NoneOpens
  <2>2. CASE ~Resolving(h)'
    BY <2>2 DEF ResolveOK, Resolving
  <2> QED
    BY <2>1, <2>2
<1>3. ASSUME NEW k \in Coords PROVE RouteOK(k)'
  <2>1. RouteOK(k)
    BY DEF RoutingOK
  <2> QED
    BY <2>1 DEF RouteOK, NoneOpens, At, Resolving
<1> QED
  BY <1>1, <1>2, <1>3

\* Without a new version nothing is opened, and what is left agrees.
LEMMA NothingOpens ==
  ASSUME RoutingOK, NothingNew
  PROVE  NoneOpens /\ \A c \in Ids : AgreeOK(c)'
BY DEF RoutingOK, NothingNew, NoneOpens, OpenOf, AgreeOK

\* A name used for the first time is open, no other one is.
LEMMA PutOpens ==
  ASSUME RefInv, RoutingOK, NEW c \in Ids, NEW k \in Coords \cup {None}, Put(c, k),
         UNCHANGED <<turn, request, retagged>>, ~reused',
         \A h \in Handlers : handler'[h] = handler[h] \/ handler'[h].step # "read"
  PROVE  /\ \A d \in Ids : AgreeOK(d)'
         /\ \A d \in Ids : \A j \in Coords :
              OpenOf(d, j)' => OpenOf(d, j) \/ (d = c /\ j = k)
<1>1. /\ \A d \in Ids \ {c} : Versions(d)' \subseteq Versions(d)
      /\ \A x \in Versions(c)' : x.coord = k /\ x.status = "active"
  BY PutFacts
<1> QED
  BY <1>1 DEF RoutingOK, AgreeOK, OpenOf

-----------------------------------------------------------------------------
(* The handlers resolve their coordinates *)

\* A handler that created an open conversation has its coordinate.
LEMMA CreatorOf ==
  ASSUME RefInv, Steady, NEW k \in Coords, NEW c \in Ids, OpenOf(c, k),
         NEW g \in Handlers, At(g, "created"), handler[g].id = c
  PROVE  handler[g].coord = k /\ Resolving(g)
BY RegistryAssumption DEF RefInv, HandlerOK, Belongs, OpenOf, At, Resolving

\* h goes from one step of resolving to the next, or leaves: what the others
\* are at concerns other coordinates.
LEMMA OthersElsewhere ==
  ASSUME RefInv, Steady, RoutingOK, NEW h \in Handlers, Resolving(h),
         \A g \in Handlers \ {h} : handler'[g] = handler[g],
         Resolving(h)' => handler'[h].coord = handler[h].coord,
         \A j \in Coords \ {handler[h].coord} :
           /\ bindings'[j] = bindings[j]
           /\ \A c \in Ids : OpenOf(c, j)' => OpenOf(c, j)
  PROVE  /\ Alone'
         /\ \A g \in Handlers \ {h} : ResolveOK(g)'
         /\ \A j \in Coords \ {handler[h].coord} : RouteOK(j)'
<1> DEFINE k == handler[h].coord
<1>1. Alone'
  BY DEF RoutingOK, Alone, Resolving
<1>2. ASSUME NEW g \in Handlers \ {h} PROVE ResolveOK(g)'
  <2>1. CASE Resolving(g)
    <3>1. handler[g].coord \in Coords \ {k} /\ ResolveOK(g) /\ handler'[g] = handler[g]
      BY <2>1 DEF RoutingOK, Alone, RefInv, HandlerOK, Resolving
    <3> QED
      BY <3>1 DEF ResolveOK
  <2>2. CASE ~Resolving(g)
    BY <2>2 DEF ResolveOK, Resolving
  <2> QED
    BY <2>1, <2>2
<1>3. ASSUME NEW j \in Coords \ {k} PROVE RouteOK(j)'
  <2>1. ASSUME NEW c \in Ids, OpenOf(c, j)'
        PROVE  bindings'[j] = c
               \/ \E g \in Handlers : At(g, "created")' /\ handler'[g].id = c
    <3>1. OpenOf(c, j)
      BY <2>1
    <3>2. CASE bindings[j] = c
      BY <3>2
    <3>3. ASSUME NEW g \in Handlers, At(g, "created"), handler[g].id = c
          PROVE  At(g, "created")' /\ handler'[g].id = c
      <4>1. g # h
        BY <3>1, <3>3, CreatorOf
      <4> QED
        BY <3>3, <4>1 DEF At
    <3> QED
      BY <3>1, <3>2, <3>3 DEF RoutingOK, RouteOK
  <2> QED
    BY <2>1 DEF RouteOK
<1> QED
  BY <1>1, <1>2, <1>3

\* While h resolves, no other handler has an open conversation to bind.
LEMMA BoundWhileResolving ==
  ASSUME RefInv, Steady, RoutingOK, NEW h \in Handlers, Resolving(h),
         ~At(h, "created"), NEW c \in Ids, OpenOf(c, handler[h].coord)
  PROVE  bindings[handler[h].coord] = c
<1>1. handler[h].coord \in Coords
  BY DEF RefInv, HandlerOK, Resolving
<1>2. ASSUME NEW g \in Handlers, At(g, "created"), handler[g].id = c PROVE FALSE
  <2>1. Resolving(g) /\ handler[g].coord = handler[h].coord
    BY <1>1, <1>2, CreatorOf
  <2> QED
    BY <1>2, <2>1 DEF RoutingOK, Alone
<1> QED
  BY <1>1, <1>2 DEF RoutingOK, RouteOK

LEMMA LookUpRoutes ==
  ASSUME RefInv, RoutingOK, NEW h \in Handlers, NEW k \in Coords, LookUp(h, k), ~Excused'
  PROVE  RoutingOK'
<1> DEFINE s == IF bindings[k] = None THEN "unbound" ELSE "bound"
           x == [NoMessage EXCEPT !.step = s, !.coord = k, !.id = bindings[k]]
<1>1. /\ Steady /\ At(h, "idle") /\ handler' = [handler EXCEPT ![h] = x]
      /\ \A g \in Handlers : ~(handler[g].coord = k /\ Resolving(g))
      /\ UNCHANGED <<record, bindings, turn, request, reused, retagged>>
  BY DEF LookUp, Excused, Steady, store
<1>2. /\ x.step \in {"unbound", "bound"} /\ x.coord = k /\ x.id = bindings[k]
      /\ x.step = "unbound" => bindings[k] = None
  BY DEF NoMessage
<1> HIDE DEF s, x
<1>3. handler'[h] = x /\ \A g \in Handlers \ {h} : handler'[g] = handler[g]
  BY <1>1 DEF RefInv, Typed
<1>4. NoneOpens /\ \A c \in Ids : AgreeOK(c)'
  <2>1. NothingNew
    BY <1>1, <1>2, <1>3, Unmoved DEF RefInv
  <2> QED
    BY <2>1, NothingOpens
<1>5. Alone'
  BY <1>1, <1>2, <1>3 DEF RoutingOK, Alone, Resolving
<1>6. ASSUME NEW j \in Coords PROVE RouteOK(j)'
  <2>1. \A g \in Handlers : At(g, "created") => g # h
    BY <1>1 DEF At
  <2> QED
    BY <1>1, <1>3, <1>4, <2>1 DEF RoutingOK, RouteOK, NoneOpens, At
<1>7. ResolveOK(h)'
  <2>1. ASSUME x.step = "unbound", NEW c \in Ids, OpenOf(c, k) PROVE FALSE
    <3>1. bindings[k] # c
      BY <1>2, <2>1, RegistryAssumption
    <3>2. PICK g \in Handlers : At(g, "created") /\ handler[g].id = c
      BY <2>1, <3>1 DEF RoutingOK, RouteOK
    <3> QED
      BY <1>1, <2>1, <3>2, CreatorOf
  <2> QED
    BY <1>1, <1>2, <1>3, <1>4, <2>1 DEF ResolveOK, NoneOpens
<1>8. ASSUME NEW g \in Handlers \ {h} PROVE ResolveOK(g)'
  <2>1. handler'[g] = handler[g] /\ ResolveOK(g)
    BY <1>3 DEF RoutingOK
  <2>2. handler[g].step # "idle" => handler[g].coord \in Coords
    BY DEF RefInv, HandlerOK
  <2> QED
    BY <1>1, <1>4, <2>1, <2>2 DEF ResolveOK, NoneOpens
<1> QED
  BY <1>4, <1>5, <1>6, <1>7, <1>8 DEF RoutingOK

LEMMA VerifyRoutes ==
  ASSUME RefInv, RoutingOK, NEW h \in Handlers, Verify(h), Steady
  PROVE  RoutingOK'
<1> SUFFICES ASSUME NEW k, k = handler[h].coord PROVE RoutingOK'
  OBVIOUS
<1>1. /\ Typed /\ At(h, "bound") /\ Resolving(h) /\ k \in Coords /\ ResolveOK(h)
      /\ handler[h].id = bindings[k]
      /\ handler[h].id \in Ids /\ record[handler[h].id] # None
      /\ UNCHANGED <<record, bindings, turn>>
  BY DEF RefInv, HandlerOK, Belongs, RoutingOK, ResolveOK, Verify, store, At, Resolving
<1>2. /\ \A g \in Handlers \ {h} : handler'[g] = handler[g]
      /\ \/ handler'[h].step = "idle"
         \/ /\ handler'[h].step \in {"resolved", "stale"}
            /\ handler'[h].id = handler[h].id /\ handler'[h].coord = k
            /\ handler'[h].step = "stale" =>
                 record[handler[h].id] # Torn /\ ~IsActive(handler[h].id)
      /\ NothingNew
  BY <1>1, VerifyFacts, HandlerTypes
<1>3. NoneOpens /\ \A c \in Ids : AgreeOK(c)'
  BY <1>2, NothingOpens
<1>4. /\ Alone'
      /\ \A g \in Handlers \ {h} : ResolveOK(g)'
      /\ \A j \in Coords \ {k} : RouteOK(j)'
  BY <1>1, <1>2, <1>3, OthersElsewhere DEF NoneOpens, Resolving
<1>5. \A c \in Ids : OpenOf(c, k) => bindings[k] = c
  BY <1>1, BoundWhileResolving DEF At
<1>6. ResolveOK(h)'
  <2>1. ASSUME handler'[h].step = "stale", NEW c \in Ids, OpenOf(c, k) PROVE FALSE
    <3>1. c = handler[h].id /\ record[c] # Torn /\ ~IsActive(c)
      BY <1>1, <1>2, <1>5, <2>1
    <3>2. record[c] \in Record /\ record[c] \in Versions(c)
      BY <1>1, <3>1, ReadFacts
    <3> QED
      BY <2>1, <3>1, <3>2 DEF RoutingOK, AgreeOK, OpenOf, IsActive
  <2> QED
    BY <1>1, <1>2, <1>3, <2>1 DEF ResolveOK, NoneOpens
<1>7. RouteOK(k)'
  BY <1>1, <1>3, <1>5 DEF RouteOK, NoneOpens
<1> QED
  BY <1>3, <1>4, <1>6, <1>7 DEF RoutingOK

LEMMA UnbindRoutes ==
  ASSUME RefInv, RoutingOK, NEW h \in Handlers, Unbind(h), Steady
  PROVE  RoutingOK'
<1> SUFFICES ASSUME NEW k, k = handler[h].coord PROVE RoutingOK'
  OBVIOUS
<1>1. /\ Typed /\ At(h, "stale") /\ Resolving(h) /\ k \in Coords
      /\ \A c \in Ids : ~OpenOf(c, k)
      /\ bindings' = [bindings EXCEPT ![k] = None]
      /\ Goto(h, "unbound")
      /\ UNCHANGED <<record, turn, request, reused, retagged>>
  BY DEF ghosts, RefInv, HandlerOK, RoutingOK, ResolveOK, Unbind, At, Resolving
<1>2. /\ handler'[h].step = "unbound" /\ handler'[h].coord = k
      /\ \A g \in Handlers \ {h} : handler'[g] = handler[g]
  BY <1>1, GotoFacts DEF HandlerSteps
<1>3. \A j \in Coords \ {k} : bindings'[j] = bindings[j]
  BY <1>1 DEF Typed
<1>4. NoneOpens /\ \A c \in Ids : AgreeOK(c)'
  BY <1>1, <1>2, Unmoved, NothingOpens
<1>5. /\ Alone'
      /\ \A g \in Handlers \ {h} : ResolveOK(g)'
      /\ \A j \in Coords \ {k} : RouteOK(j)'
  BY <1>1, <1>2, <1>3, <1>4, OthersElsewhere DEF NoneOpens
<1>6. ResolveOK(h)' /\ RouteOK(k)'
  BY <1>1, <1>2, <1>4 DEF ResolveOK, RouteOK, NoneOpens
<1> QED
  BY <1>4, <1>5, <1>6 DEF RoutingOK

LEMMA CreateRoutes ==
  ASSUME RefInv, RoutingOK, NEW h \in Handlers, Create(h), Steady, ~reused'
  PROVE  RoutingOK'
<1> SUFFICES ASSUME NEW k, k = handler[h].coord PROVE RoutingOK'
  OBVIOUS
<1>1. /\ Typed /\ At(h, "unbound") /\ Resolving(h) /\ k \in Coords
      /\ \A c \in Ids : ~OpenOf(c, k)
      /\ UNCHANGED <<bindings, turn, request, retagged>>
  BY DEF RefInv, HandlerOK, RoutingOK, ResolveOK, Create, At, Resolving
<1>2. PICK c \in Ids :
        /\ Put(c, k)
        /\ handler' = [handler EXCEPT ![h].step = "created", ![h].id = c]
  BY DEF Create
<1>3. /\ handler'[h].step = "created" /\ handler'[h].coord = k /\ handler'[h].id = c
      /\ \A g \in Handlers \ {h} : handler'[g] = handler[g]
  BY <1>1, <1>2 DEF Typed, HandlerState
<1>4. /\ \A d \in Ids : AgreeOK(d)'
      /\ \A d \in Ids : \A j \in Coords : OpenOf(d, j)' => OpenOf(d, j) \/ (d = c /\ j = k)
  BY <1>1, <1>2, <1>3, PutOpens
<1>5. /\ Alone'
      /\ \A g \in Handlers \ {h} : ResolveOK(g)'
      /\ \A j \in Coords \ {k} : RouteOK(j)'
  BY <1>1, <1>3, <1>4, OthersElsewhere
<1>6. ResolveOK(h)' /\ RouteOK(k)'
  BY <1>1, <1>3, <1>4 DEF ResolveOK, RouteOK, At
<1> QED
  BY <1>4, <1>5, <1>6 DEF RoutingOK

LEMMA BindRoutes ==
  ASSUME RefInv, RoutingOK, NEW h \in Handlers, Bind(h), Steady
  PROVE  RoutingOK'
<1> SUFFICES ASSUME NEW k, k = handler[h].coord PROVE RoutingOK'
  OBVIOUS
<1>1. /\ Typed /\ At(h, "created") /\ Resolving(h) /\ k \in Coords
      /\ \A c \in Ids : OpenOf(c, k) => c = handler[h].id
      /\ bindings' = [bindings EXCEPT ![k] = handler[h].id]
      /\ Goto(h, "resolved")
      /\ UNCHANGED <<record, turn, request, reused, retagged>>
  BY DEF ghosts, RefInv, HandlerOK, RoutingOK, ResolveOK, Bind, At, Resolving
<1>2. /\ handler'[h].step = "resolved" /\ handler'[h].coord = k
      /\ \A g \in Handlers \ {h} : handler'[g] = handler[g]
  BY <1>1, GotoFacts DEF HandlerSteps
<1>3. /\ \A j \in Coords \ {k} : bindings'[j] = bindings[j]
      /\ bindings'[k] = handler[h].id
  BY <1>1 DEF Typed
<1>4. NoneOpens /\ \A c \in Ids : AgreeOK(c)'
  BY <1>1, <1>2, Unmoved, NothingOpens
<1>5. /\ Alone'
      /\ \A g \in Handlers \ {h} : ResolveOK(g)'
      /\ \A j \in Coords \ {k} : RouteOK(j)'
  BY <1>1, <1>2, <1>3, <1>4, OthersElsewhere DEF NoneOpens
<1>6. ResolveOK(h)' /\ RouteOK(k)'
  BY <1>1, <1>2, <1>3, <1>4 DEF ResolveOK, RouteOK, NoneOpens
<1> QED
  BY <1>4, <1>5, <1>6 DEF RoutingOK

-----------------------------------------------------------------------------
(* Those who replace records *)

\* A step of a handler that resolves nothing, before or after.
LEMMA HandlerRoutes ==
  ASSUME RefInv, RoutingOK, NothingNew, bindings' = bindings, NEW h \in Handlers,
         ~Resolving(h), ~Resolving(h)',
         \A g \in Handlers \ {h} : handler'[g] = handler[g]
  PROVE  RoutingOK'
<1>1. NoneOpens /\ \A c \in Ids : AgreeOK(c)'
  BY NothingOpens
<1>2. Alone' /\ (\A g \in Handlers : ResolveOK(g)') /\ (\A k \in Coords : RouteOK(k)')
  BY <1>1, RoutesKept
<1> QED
  BY <1>1, <1>2 DEF RoutingOK

LEMMA TouchRoutes ==
  ASSUME RefInv, RoutingOK, NEW h \in Handlers, Touch(h)
  PROVE  RoutingOK'
BY TouchFacts, HandlerRoutes DEF Touch, At, Resolving

LEMMA KeepRoutes ==
  ASSUME RefInv, RoutingOK, NEW h \in Handlers, Keep(h)
  PROVE  RoutingOK'
BY KeepFacts, HandlerRoutes DEF Keep, At, Resolving

LEMMA PublishRoutes ==
  ASSUME RefInv, RoutingOK, NEW h \in Handlers, Publish(h)
  PROVE  RoutingOK'
<1>1. /\ handler[h].step = "kept" /\ handler'[h].step = "idle" /\ bindings' = bindings
      /\ \A g \in Handlers \ {h} : handler'[g] = handler[g]
  BY HandlerTypes DEF Publish, At, RefInv, Typed
<1> QED
  BY <1>1, PublishKeeps, HandlerRoutes DEF Resolving

\* A step of another task that opens nothing.
LEMMA IdleRoutes ==
  ASSUME RefInv, RoutingOK, NothingNew, UNCHANGED <<bindings, handler>>
  PROVE  RoutingOK'
<1>1. NoneOpens /\ \A c \in Ids : AgreeOK(c)'
  BY NothingOpens
<1>2. Alone' /\ (\A h \in Handlers : ResolveOK(h)') /\ (\A k \in Coords : RouteOK(k)')
  BY <1>1, RoutesKept
<1> QED
  BY <1>1, <1>2 DEF RoutingOK

\* Archiving closes a conversation nobody has a copy of.
LEMMA ArchiveRoutes ==
  ASSUME RefInv, RoutingOK, NEW r \in Requests, Archive(r), ~overlapped'
  PROVE  RoutingOK'
<1> SUFFICES ASSUME NEW c, c = request[r].id PROVE RoutingOK'
  OBVIOUS
<1>1. ~HasCopy(c) /\ UNCHANGED <<bindings, turn, handler>>
  BY DEF Archive
<1>2. /\ c \in Ids /\ \A d \in Ids \ {c} : record'[d] = record[d]
      /\ \/ record'[c] \in {record[c], Torn}
         \/ record'[c] \in Record /\ record'[c].status = "archived"
  BY ArchiveFacts
<1>3. \A d \in Ids \ {c} : Versions(d)' = Versions(d)
  BY <1>1, <1>2 DEF Versions, TurnHasCopy, HandlersWithCopy, At
<1>4. \A x \in Versions(c)' : x = record'[c] /\ (x \in Versions(c) \/ x.status = "archived")
  BY <1>1, <1>2, RecordAssumption DEF HasCopy, Versions, TurnHasCopy, HandlersWithCopy, At
<1>5. NoneOpens /\ \A d \in Ids : AgreeOK(d)'
  BY <1>3, <1>4 DEF RoutingOK, AgreeOK, NoneOpens, OpenOf
<1>6. Alone' /\ (\A g \in Handlers : ResolveOK(g)') /\ (\A k \in Coords : RouteOK(k)')
  BY <1>1, <1>5, RoutesKept
<1> QED
  BY <1>5, <1>6 DEF RoutingOK

LEMMA OpenRoutes ==
  ASSUME RefInv, RoutingOK, Open, ~reused'
  PROVE  RoutingOK'
<1>1. PICK c \in Ids : Put(c, None)
  BY DEF Open
<1>2. UNCHANGED <<bindings, turn, handler, request, retagged>>
  BY DEF Open
<1>3. NoneOpens /\ \A d \in Ids : AgreeOK(d)'
  BY <1>1, <1>2, PutOpens, RegistryAssumption DEF NoneOpens
<1>4. Alone' /\ (\A g \in Handlers : ResolveOK(g)') /\ (\A k \in Coords : RouteOK(k)')
  BY <1>2, <1>3, RoutesKept
<1> QED
  BY <1>3, <1>4 DEF RoutingOK

-----------------------------------------------------------------------------
(* The restart *)

\* Two open conversations of a coordinate would have to be its binding and one
\* just created, or both just created.
LEMMA OneOpen ==
  ASSUME RefInv, Steady, RoutingOK, NEW k \in Coords, NEW c \in Ids, NEW d \in Ids,
         OpenOf(c, k), OpenOf(d, k)
  PROVE  c = d
<1>1. ASSUME NEW x \in Ids, NEW y \in Ids, OpenOf(x, k), OpenOf(y, k), bindings[k] # x
      PROVE  x = y
  <2>1. PICK h \in Handlers : At(h, "created") /\ handler[h].id = x
    BY <1>1 DEF RoutingOK, RouteOK
  <2>2. handler[h].coord = k
    BY <1>1, <2>1, CreatorOf
  <2> QED
    BY <1>1, <2>1, <2>2 DEF RoutingOK, ResolveOK, At
<1> QED
  BY <1>1

\* A restart that reads every record and does not prefer an archived
\* conversation binds the open one.
LEMMA RestartRoutes ==
  ASSUME RefInv, RoutingOK, Restart, Steady, ~misled'
  PROVE  RoutingOK'
<1>1. /\ Stop({}) /\ bindings' = Rebuilt
      /\ ~\E k \in Coords : /\ bindings'[k] # None /\ ~IsActive(bindings'[k])
                            /\ \E c \in Threads(k) : IsActive(c)
  BY DEF Restart
<1>2. /\ \A h \in Handlers : handler'[h].step = "idle"
      /\ \A c \in Ids : record'[c] = record[c] /\ Versions(c)' = {record'[c]} \cap Record
  <2>1. {} \in SUBSET Ids
    OBVIOUS
  <2> QED
    BY <1>1, <2>1, StopFacts
<1>3. ASSUME NEW k \in Coords, NEW c \in Ids, OpenOf(c, k)' PROVE bindings'[k] = c
  <2>1. OpenOf(c, k) /\ c \in Threads(k) /\ IsActive(c)
    BY <1>2, <1>3 DEF OpenOf, Versions, Threads, IsActive
  <2>2. bindings'[k] \in Threads(k) /\ bindings'[k] \in Ids
    BY <1>1, <2>1, RebuiltFacts
  <2>3. bindings'[k] # None
    BY <2>2, RegistryAssumption
  <2>4. IsActive(bindings'[k])
    BY <1>1, <2>1, <2>3
  <2>5. OpenOf(bindings'[k], k)
    BY <2>2, <2>4 DEF OpenOf, Versions, Threads, IsActive
  <2> QED
    BY <2>1, <2>2, <2>5, OneOpen
<1>4. \A k \in Coords : RouteOK(k)'
  BY <1>3 DEF RouteOK
<1>5. Alone' /\ (\A h \in Handlers : ResolveOK(h)') /\ (\A c \in Ids : AgreeOK(c)')
  BY <1>2 DEF Alone, Resolving, ResolveOK, AgreeOK
<1> QED
  BY <1>4, <1>5 DEF RoutingOK

LEMMA OpenInit == Init => OpenInv
<1> SUFFICES ASSUME Init PROVE OpenInv
  OBVIOUS
<1>1. /\ \A c \in Ids : record[c] = None
      /\ \A h \in Handlers : handler[h].step = "idle"
  BY HandlerTypes DEF Init
<1>2. RefInv /\ \A c \in Ids : Versions(c) = {}
  BY <1>1, RefInit, NoVersions
<1> QED
  BY <1>1, <1>2
     DEF OpenInv, RoutingOK, Alone, Resolving, ResolveOK, RouteOK, AgreeOK, OpenOf

\* What excuses a second thread once excuses it for good.
LEMMA GhostsStay == [Next]_vars /\ Excused => Excused'
<1> SUFFICES ASSUME [Next]_vars, Excused PROVE Excused'
  OBVIOUS
<1>1. ASSUME NEW h \in Handlers, NEW k \in Coords, LookUp(h, k) PROVE Excused'
  BY <1>1, Zenon DEF LookUp, Excused
<1>2. ASSUME NEW h \in Handlers, Create(h) PROVE Excused'
  BY <1>2 DEF Create, Put, Excused
<1>3. CASE Open
  BY <1>3 DEF Open, Put, Excused
<1>4. ASSUME NEW r \in Requests, Archive(r) PROVE Excused'
  BY <1>4, Zenon DEF Archive, Excused
<1>5. CASE Restart
  BY <1>5, Zenon DEF Restart, Stop, Excused
<1>6. CASE RestartBlind
  BY <1>6, Zenon DEF RestartBlind, Excused
<1>7. ASSUME NEW c \in Ids, ReadToUpdate(c) PROVE Excused'
  BY <1>7, Zenon DEF ReadToUpdate, Excused
<1>8. ASSUME UNCHANGED ghosts PROVE Excused'
  BY <1>8 DEF ghosts, Excused
<1> QED
  BY <1>1, <1>2, <1>3, <1>4, <1>5, <1>6, <1>7, <1>8
     DEF Next, vars, ghosts, Verify, Unbind, Bind, Touch, Keep, Publish, Update, EndTurn,
         FinishTurn, Send, SwitchTo, Close, ReadToArchive, ClearFocus

LEMMA OpenNext == OpenInv /\ [Next]_vars => OpenInv'
<1> SUFFICES ASSUME RefInv, ~Excused => RoutingOK, [Next]_vars, ~Excused'
             PROVE  RoutingOK'
  BY RefNext DEF OpenInv
<1>1. /\ RoutingOK /\ Steady
      /\ ~reused' /\ ~overlapped' /\ ~misled' /\ ~unlisted' /\ ~retagged'
  BY GhostsStay DEF Excused, Steady
<1>2. CASE UNCHANGED vars
  <2>1. NothingNew
    BY <1>2, Unmoved DEF vars, RefInv
  <2> QED
    BY <1>1, <1>2, <2>1, IdleRoutes DEF vars
<1>3. ASSUME NEW h \in Handlers,
             \/ \E k \in Coords : LookUp(h, k)
             \/ Verify(h) \/ Unbind(h) \/ Create(h) \/ Bind(h) \/ Touch(h)
             \/ Keep(h) \/ Publish(h)
      PROVE  RoutingOK'
  BY <1>1, <1>3, LookUpRoutes, VerifyRoutes, UnbindRoutes, CreateRoutes, BindRoutes,
     TouchRoutes, KeepRoutes, PublishRoutes
<1>4. ASSUME NEW c \in Ids,
             ReadToUpdate(c) \/ Update(c) \/ EndTurn(c) \/ FinishTurn(c)
      PROVE  RoutingOK'
  <2>1. NothingNew
    BY <1>1, <1>4, ReadToUpdateFacts, TurnFacts
  <2>2. UNCHANGED <<bindings, handler>>
    BY <1>4 DEF ReadToUpdate, Update, EndTurn, FinishTurn, store
  <2> QED
    BY <1>1, <2>1, <2>2, IdleRoutes
<1>5. ASSUME NEW c \in Ids, Send(c) \/ SwitchTo(c) PROVE RoutingOK'
  <2>1. NothingNew
    BY <1>5, SendKeeps, SwitchKeeps
  <2>2. UNCHANGED <<bindings, handler>>
    BY <1>5 DEF Send, SwitchTo
  <2> QED
    BY <1>1, <2>1, <2>2, IdleRoutes
<1>6. CASE Open
  BY <1>1, <1>6, OpenRoutes
<1>7. ASSUME NEW r \in Requests,
             (\E c \in Ids : Close(r, c)) \/ ReadToArchive(r) \/ ClearFocus(r)
      PROVE  RoutingOK'
  <2>1. NothingNew
    BY <1>7, CloseKeeps, ReadToArchiveKeeps, ClearFocusKeeps
  <2>2. UNCHANGED <<bindings, handler>>
    BY <1>7 DEF Close, ReadToArchive, ClearFocus, store
  <2> QED
    BY <1>1, <2>1, <2>2, IdleRoutes
<1>8. ASSUME NEW r \in Requests, Archive(r) PROVE RoutingOK'
  BY <1>1, <1>8, ArchiveRoutes
<1>9. CASE Restart
  BY <1>1, <1>9, RestartRoutes
<1>10. CASE RestartBlind
  BY <1>1, <1>10 DEF RestartBlind
<1> QED
  BY <1>2, <1>3, <1>4, <1>5, <1>6, <1>7, <1>8, <1>9, <1>10 DEF Next

\* A coordinate has one open conversation, which its messages find, unless a
\* name was used twice, two first messages crossed, a close crossed another
\* writer, a restart preferred an archived conversation or could not read a
\* record, or update_session changed a coordinate.
THEOREM OneThreadEach == Spec => []OneOpenThread
BY OpenInit, OpenNext, OpenFollows, PTL DEF Spec

-----------------------------------------------------------------------------
\* Only a restart changes restarts.
LEMMA OnlyRestart ==
  ASSUME [Next]_vars, restarts' # restarts
  PROVE  Restart \/ RestartBlind
BY DEF Next, vars, ghosts, LookUp, Verify, Unbind, Create, Bind, Touch, Keep, Publish,
       ReadToUpdate, Update, EndTurn, FinishTurn, Send, Open, SwitchTo, Close,
       ReadToArchive, Archive, ClearFocus

\* bootstrap_active_from_store binds every coordinate that was bound before, and
\* one with a single conversation to that one, if it can read all records;
\* otherwise it binds none.
THEOREM RoutesSurvive == Spec => RestartKeepsRoutes
<1> DEFINE Torn2 == \E c \in Ids : record'[c] = Torn
           Kept == \A k \in Coords : bindings[k] # None =>
                     /\ bindings'[k] \in Threads(k)
                     /\ Threads(k) = {bindings[k]} => bindings'[k] = bindings[k]
           Lost == \A k \in Coords : bindings'[k] = None
<1>1. ASSUME RefInv, [Next]_vars, restarts' # restarts
      PROVE  IF Torn2 THEN Lost ELSE ~(reused \/ retagged) => Kept
  <2>1. CASE Restart
    <3>1. Stop({}) /\ bindings' = Rebuilt /\ \A c \in Ids : record[c] # Torn
      BY <2>1 DEF Restart
    <3>2. ~Torn2
      <4>1. {} \in SUBSET Ids
        OBVIOUS
      <4> QED
        BY <1>1, <3>1, <4>1, StopFacts
    <3>3. ASSUME Steady, NEW k \in Coords, bindings[k] # None
          PROVE  /\ bindings'[k] \in Threads(k)
                 /\ Threads(k) = {bindings[k]} => bindings'[k] = bindings[k]
      <4>1. Belongs(bindings[k], k)
        BY <1>1, <3>3 DEF RefInv, BindingOK
      <4>2. bindings[k] \in Threads(k)
        BY <1>1, <3>1, <3>3, <4>1, ReadableBelongs DEF RefInv, Belongs
      <4> QED
        BY <3>1, <4>2, RebuiltFacts
    <3> QED
      BY <3>2, <3>3 DEF Steady
  <2>2. CASE RestartBlind
    BY <2>2 DEF RestartBlind
  <2> QED
    BY <1>1, <2>1, <2>2, OnlyRestart
<1>2. RefInv /\ [Next]_vars =>
        [restarts' # restarts =>
           IF Torn2 THEN Lost ELSE ~(reused \/ retagged) => Kept]_vars
  BY <1>1
<1> QED
  BY <1>2, RefInit, RefNext, PTL DEF Spec, RestartKeepsRoutes

=============================================================================
