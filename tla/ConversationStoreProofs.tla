------------------------- MODULE ConversationStoreProofs -------------------------
(***************************************************************************)
(* For any tasks that write a conversation's record, however often: the    *)
(* types, that races lose updates but invent none, and that the record     *)
(* parses unless create() was cut short or two updates crossed.            *)
(***************************************************************************)
EXTENDS ConversationStore, TLAPS

-----------------------------------------------------------------------------
(* Types *)

WriterState == [step  : Steps,
                draft : Record \cup {Absent},
                upTo  : Nat,
                file  : {"none", "tmp", "meta", "gone"}]

\* The steps at which a writer has a record in hand, and those with a file open.
Holding == {"read", "drafted", "opened", "written"}
Opened == {"opened", "written"}

\* The actions of a writer before it opens a file.
Prepare(w) ==
  \/ BeginTurn(w) \/ StoreAnswer(w) \/ Measure(w) \/ CheckIdle(w)
  \/ AddTokens(w) \/ Route(w) \/ Assign(w) \/ UpdateSession(w)
  \/ AdvanceStart(w) \/ MarkArchived(w) \/ ReadForCount(w) \/ CountMessages(w)

LEMMA NewRecordType == Abstract!NewRecord \in Record
BY DEF Abstract!NewRecord, Record

\* A session keeps the numbers it was told.
ToldGrows == told \subseteq told' /\ told' \subseteq Indices

LEMMA ToldStays == TypeOK /\ UNCHANGED told => ToldGrows
BY DEF TypeOK, ToldGrows

LEMMA WriterFacts ==
  /\ NoWrite \in WriterState
  /\ NoWrite.step = "idle" /\ NoWrite.file = "none" /\ NoWrite.upTo = 0
  /\ NoWrite.draft = Absent
  /\ \A x \in WriterState : \A s \in Steps :
       /\ [x EXCEPT !.step = s] \in WriterState
       /\ [x EXCEPT !.step = s].step = s
       /\ [x EXCEPT !.step = s].draft = x.draft
       /\ [x EXCEPT !.step = s].upTo = x.upTo
       /\ [x EXCEPT !.step = s].file = x.file
BY DEF NoWrite, WriterState, Steps

LEMMA GotoFacts ==
  ASSUME TypeOK, NEW w \in Writers, NEW s \in Steps, Goto(w, s)
  PROVE  /\ writer' \in [Writers -> WriterState]
         /\ writer'[w].step = s /\ writer'[w].draft = writer[w].draft
         /\ writer'[w].upTo = writer[w].upTo /\ writer'[w].file = writer[w].file
         /\ \A u \in Writers \ {w} : writer'[u] = writer[u]
<1>1. /\ writer \in [Writers -> WriterState]
      /\ writer' = [writer EXCEPT ![w] = [writer[w] EXCEPT !.step = s]]
  BY DEF Goto, TypeOK, WriterState
<1> QED
  BY <1>1, WriterFacts

\* A read gives a record, or ends the operation.
LEMMA ReadFacts ==
  ASSUME TypeOK, NEW w \in Writers, NEW next \in {"read", "drafted"}, NEW draft,
         meta \in Record => draft \in Record, Read(w, next, draft)
  PROVE  /\ writer' \in [Writers -> WriterState]
         /\ \A u \in Writers \ {w} : writer'[u] = writer[u]
         /\ \/ /\ meta \in Record /\ writer'[w].step = next
               /\ writer'[w].draft = draft /\ writer'[w].upTo = writer[w].upTo
               /\ writer'[w].file = writer[w].file
            \/ meta \notin Record /\ writer'[w] = NoWrite
         /\ UNCHANGED <<meta, tmp, messages, creation, raced, crashes>>
<1>1. /\ writer \in [Writers -> WriterState]
      /\ UNCHANGED <<meta, tmp, messages, creation, raced, crashes>>
  BY DEF Read, TypeOK, WriterState
<1>2. CASE meta \in Record
  <2> DEFINE x == [writer[w] EXCEPT !.step = next, !.draft = draft]
  <2>1. writer' = [writer EXCEPT ![w] = x]
    BY <1>2 DEF Read
  <2>2. /\ x \in WriterState /\ x.step = next /\ x.draft = draft
        /\ x.upTo = writer[w].upTo /\ x.file = writer[w].file
    BY <1>1, <1>2 DEF WriterState, Steps
  <2> HIDE DEF x
  <2> QED
    BY <1>1, <1>2, <2>1, <2>2
<1>3. CASE meta \notin Record
  BY <1>1, <1>3, WriterFacts DEF Read
<1> QED
  BY <1>2, <1>3


\* What the operations make of a record.
LEMMA RecordTypes ==
  ASSUME NEW r \in Record
  PROVE  r.tokens \in Nat /\ r.count \in Nat /\ r.start \in Nat
BY DEF Record

LEMMA TokensAdded ==
  ASSUME NEW r \in Record, NEW x, x = [r EXCEPT !.tokens = @ + 1]
  PROVE  /\ x \in Record /\ x.tokens = r.tokens + 1
         /\ x.count = r.count /\ x.start = r.start
BY DEF Record

LEMMA CountSet ==
  ASSUME NEW r \in Record, NEW n \in Nat, NEW x, x = [r EXCEPT !.count = n]
  PROVE  /\ x \in Record /\ x.count = n
         /\ x.tokens = r.tokens /\ x.start = r.start
BY DEF Record

LEMMA StartSet ==
  ASSUME NEW r \in Record, NEW n \in Nat, NEW x, x = [r EXCEPT !.start = n]
  PROVE  /\ x \in Record /\ x.start = n
         /\ x.tokens = r.tokens /\ x.count = r.count
BY DEF Record

LEMMA OtherFieldSet ==
  ASSUME NEW r \in Record, NEW x,
         \/ x = Abstract!Routed(r)
         \/ x = [r EXCEPT !.status = "archived"]
         \/ \E v \in BOOLEAN : x = [r EXCEPT !.project = v]
  PROVE  /\ x \in Record /\ x.tokens = r.tokens
         /\ x.count = r.count /\ x.start = r.start
BY DEF Record, Abstract!Routed

LEMMA MetadataMerged ==
  ASSUME NEW r \in Record, NEW keys, NEW n \in Indices, NEW x,
         x = Abstract!Merged(r, keys, n)
  PROVE  /\ x \in Record /\ x.tokens = r.tokens /\ x.count = r.count
         /\ x.start = IF "start" \in keys THEN n ELSE r.start
<1>1. n \in Nat
  BY IndicesAssumption
<1>2. CASE "start" \in keys
  BY <1>1, <1>2 DEF Record, Abstract!Merged
<1>3. CASE "start" \notin keys
  BY <1>3 DEF Record, Abstract!Merged
<1> QED
  BY <1>2, <1>3

\* What w learns from the model when it updates the session.
LEMMA UpdateFacts ==
  ASSUME TypeOK, NEW w \in Writers, UpdateSession(w)
  PROVE  /\ Begins(w, "tool") /\ UNCHANGED reported /\ ToldGrows
         /\ \E keys \in SUBSET Abstract!SharedKeys, n \in Indices :
              /\ Read(w, "drafted", Abstract!Merged(meta, keys, n))
              /\ meta \in Record /\ "start" \in keys => n \in told'
BY DEF UpdateSession, ToldGrows, TypeOK

\* The types of what a writer changes before it opens a file, and what it
\* leaves alone.
LEMMA PrepareFacts ==
  ASSUME TypeOK, NEW w \in Writers, Prepare(w)
  PROVE  /\ writer' \in [Writers -> WriterState]
         /\ \A u \in Writers \ {w} : writer'[u] = writer[u]
         /\ writer'[w].step \notin Opened /\ writer[w].step \notin Opened
         /\ writer'[w].step \in Holding => writer'[w].draft \in Record
         /\ writer'[w].file \in {writer[w].file, "none"}
         /\ messages' \in Nat /\ messages <= messages'
         /\ reported' \in Nat /\ reported <= reported' /\ ToldGrows
         /\ operations' \in 0 .. MaxOperations
         /\ UNCHANGED <<meta, tmp, creation, raced, crashes>>
<1> USE DEF Holding, Opened
<1>0. /\ writer \in [Writers -> WriterState] /\ messages \in Nat /\ reported \in Nat
      /\ operations \in 0 .. MaxOperations /\ MaxOperations \in Nat
  BY BoundsAssumption DEF TypeOK, WriterState
<1>1. CASE BeginTurn(w)
  <2>1. Goto(w, "turn") /\ "turn" \in Steps /\ At(w, "idle")
    BY <1>1 DEF BeginTurn, Begins, Steps
  <2> QED
    BY <1>0, <1>1, <2>1, GotoFacts, ToldStays DEF BeginTurn, Begins, At
<1>2. CASE StoreAnswer(w)
  <2>1. Goto(w, "answered") /\ "answered" \in Steps /\ At(w, "turn")
    BY <1>2 DEF StoreAnswer, Steps
  <2> QED
    BY <1>0, <1>2, <2>1, GotoFacts, ToldStays DEF StoreAnswer, At
<1>3. CASE Measure(w)
  <2>5. PICK n \in {messages, 0} :
          writer' = [writer EXCEPT ![w].step = "measured", ![w].upTo = n]
    BY <1>3 DEF Measure
  <2> DEFINE x == [writer[w] EXCEPT !.step = "measured", !.upTo = n]
  <2>1. writer' = [writer EXCEPT ![w] = x]
    BY <2>5
  <2>7. n \in Nat
    BY <1>0
  <2>2. x \in WriterState /\ x.step = "measured" /\ x.file = writer[w].file
    BY <1>0, <2>7 DEF WriterState, Steps
  <2> HIDE DEF x
  <2>3. /\ writer' \in [Writers -> WriterState] /\ writer'[w] = x
        /\ \A u \in Writers \ {w} : writer'[u] = writer[u]
    BY <1>0, <2>1, <2>2
  <2>4. /\ writer[w].step = "idle" /\ operations' \in 0 .. MaxOperations
        /\ UNCHANGED <<meta, tmp, messages, creation, reported, raced, crashes>>
    BY <1>0, <1>3 DEF Measure, Begins, At
  <2>6. UNCHANGED told
    BY <1>3 DEF Measure
  <2> QED
    BY <1>0, <2>2, <2>3, <2>4, <2>6, ToldStays
<1>4. CASE CheckIdle(w)
  <2>1. Goto(w, "allowed") /\ "allowed" \in Steps /\ At(w, "idle")
    BY <1>4 DEF CheckIdle, Begins, Steps
  <2> QED
    BY <1>0, <1>4, <2>1, GotoFacts, ToldStays DEF CheckIdle, Begins, At
<1>5. ASSUME NEW next \in {"read", "drafted"}, NEW draft,
             meta \in Record => draft \in Record, Read(w, next, draft),
             writer[w].step \notin Opened,
             reported' \in {reported, reported + 1}, ToldGrows,
             operations' \in 0 .. MaxOperations
      PROVE  /\ writer' \in [Writers -> WriterState]
             /\ \A u \in Writers \ {w} : writer'[u] = writer[u]
             /\ writer'[w].step \notin Opened /\ writer[w].step \notin Opened
             /\ writer'[w].step \in Holding => writer'[w].draft \in Record
             /\ writer'[w].file \in {writer[w].file, "none"}
             /\ messages' \in Nat /\ messages <= messages'
             /\ reported' \in Nat /\ reported <= reported' /\ ToldGrows
             /\ operations' \in 0 .. MaxOperations
             /\ UNCHANGED <<meta, tmp, creation, raced, crashes>>
  BY <1>0, <1>5, ReadFacts, WriterFacts
<1>6. CASE AddTokens(w)
  <2>1. /\ Read(w, "drafted", [meta EXCEPT !.tokens = @ + 1]) /\ At(w, "idle")
        /\ reported' \in {reported, reported + 1} /\ operations' \in 0 .. MaxOperations
        /\ UNCHANGED told
    BY <1>0, <1>6 DEF AddTokens, Begins
  <2> QED
    BY <1>5, <2>1, TokensAdded, ToldStays DEF At
<1>7. CASE Route(w)
  <2>1. /\ Read(w, "drafted", Abstract!Routed(meta)) /\ At(w, "idle")
        /\ UNCHANGED <<reported, told>> /\ operations' \in 0 .. MaxOperations
    BY <1>0, <1>7 DEF Route, Begins
  <2> QED
    BY <1>5, <2>1, OtherFieldSet, ToldStays DEF At
<1>12. CASE Assign(w)
  <2>1. /\ At(w, "idle") /\ UNCHANGED <<reported, told>> /\ operations' \in 0 .. MaxOperations
        /\ \E v \in BOOLEAN : Read(w, "drafted", [meta EXCEPT !.project = v])
    BY <1>0, <1>12 DEF Assign, Begins
  <2>2. PICK v \in BOOLEAN : Read(w, "drafted", [meta EXCEPT !.project = v])
    BY <2>1
  <2> QED
    BY <1>5, <2>1, <2>2, OtherFieldSet, ToldStays DEF At
<1>13. CASE UpdateSession(w)
  <2>1. PICK keys \in SUBSET Abstract!SharedKeys, n \in Indices :
          Read(w, "drafted", Abstract!Merged(meta, keys, n))
    BY <1>13, UpdateFacts
  <2>2. /\ At(w, "idle") /\ UNCHANGED reported /\ ToldGrows
        /\ operations' \in 0 .. MaxOperations
    BY <1>0, <1>13, UpdateFacts DEF Begins
  <2> QED
    BY <1>5, <2>1, <2>2, MetadataMerged DEF At
<1>8. CASE AdvanceStart(w)
  <2>1. /\ Read(w, "drafted", [meta EXCEPT !.start = writer[w].upTo])
        /\ At(w, "measured") /\ UNCHANGED <<reported, told, operations>>
    BY <1>8 DEF AdvanceStart
  <2>2. writer[w].upTo \in Nat
    BY <1>0 DEF WriterState
  <2> QED
    BY <1>0, <1>5, <2>1, <2>2, StartSet, ToldStays DEF At
<1>9. CASE MarkArchived(w)
  <2>1. /\ Read(w, "drafted", [meta EXCEPT !.status = "archived"])
        /\ At(w, "allowed") /\ UNCHANGED <<reported, told, operations>>
    BY <1>9 DEF MarkArchived
  <2> QED
    BY <1>0, <1>5, <2>1, OtherFieldSet, ToldStays DEF At
<1>10. CASE ReadForCount(w)
  <2>1. /\ Read(w, "read", meta) /\ At(w, "answered")
        /\ UNCHANGED <<reported, told, operations>>
    BY <1>10 DEF ReadForCount
  <2> QED
    BY <1>0, <1>5, <2>1, ToldStays DEF At
<1>14. CASE CountMessages(w) /\ writer' = [writer EXCEPT ![w] = NoWrite]
  <2>1. /\ writer' \in [Writers -> WriterState] /\ writer'[w] = NoWrite
        /\ \A u \in Writers \ {w} : writer'[u] = writer[u]
    BY <1>0, <1>14, WriterFacts
  <2>2. /\ writer[w].step = "read"
        /\ UNCHANGED <<meta, tmp, messages, creation, reported, told, raced,
                       operations, crashes>>
    BY <1>14 DEF CountMessages, At
  <2> QED
    BY <1>0, <2>1, <2>2, WriterFacts, ToldStays
<1>11. CASE CountMessages(w) /\ writer' # [writer EXCEPT ![w] = NoWrite]
  <2> DEFINE d == [writer[w].draft EXCEPT !.count = messages]
             x == [writer[w] EXCEPT !.step = "drafted", !.draft = d]
  <2>7. writer' = [writer EXCEPT ![w].step = "drafted",
                                 ![w].draft.count = messages]
    BY <1>11 DEF CountMessages
  <2>8. At(w, "read")
    BY <1>11 DEF CountMessages
  <2>9. writer' = [writer EXCEPT ![w] = x]
    BY <1>0, <2>7
  <2>1. writer' = [writer EXCEPT ![w] = x] /\ At(w, "read")
    BY <2>8, <2>9
  <2>2. writer[w].draft \in Record
    BY <2>1 DEF TypeOK, At
  <2>3. d \in Record
    BY <1>0, <2>2, CountSet
  <2> HIDE DEF d
  <2>4. x \in WriterState /\ x.step = "drafted" /\ x.file = writer[w].file /\ x.draft = d
    BY <1>0, <2>3 DEF WriterState, Steps
  <2> HIDE DEF x
  <2>5. /\ writer' \in [Writers -> WriterState] /\ writer'[w] = x
        /\ \A u \in Writers \ {w} : writer'[u] = writer[u]
    BY <1>0, <2>1, <2>4
  <2>6. /\ writer[w].step = "read"
        /\ UNCHANGED <<meta, tmp, messages, creation, reported, told, raced,
                       operations, crashes>>
    BY <1>11 DEF CountMessages, At
  <2> QED
    BY <1>0, <2>3, <2>4, <2>5, <2>6, ToldStays
<1> QED
  BY <1>1, <1>2, <1>3, <1>4, <1>6, <1>7, <1>8, <1>9, <1>10, <1>11, <1>12, <1>13,
     <1>14 DEF Prepare

LEMMA OpenFacts ==
  ASSUME TypeOK, NEW w \in Writers, OpenTmp(w)
  PROVE  /\ writer' \in [Writers -> WriterState]
         /\ \A u \in Writers \ {w} : writer'[u] = writer[u]
         /\ At(w, "drafted") /\ writer'[w].step = "opened" /\ writer'[w].file = "tmp"
         /\ writer'[w].draft = writer[w].draft /\ writer'[w].upTo = writer[w].upTo
         /\ writer[w].draft \in Record
<1> DEFINE x == [writer[w] EXCEPT !.step = "opened", !.file = "tmp"]
<1>1. /\ writer \in [Writers -> WriterState] /\ At(w, "drafted")
      /\ writer' = [writer EXCEPT ![w] = x]
  BY DEF OpenTmp, TypeOK, WriterState
<1>2. /\ x \in WriterState /\ x.step = "opened" /\ x.file = "tmp"
      /\ x.draft = writer[w].draft /\ x.upTo = writer[w].upTo
  BY <1>1 DEF WriterState, Steps
<1>3. writer[w].draft \in Record
  BY <1>1 DEF TypeOK, At
<1> HIDE DEF x
<1> QED
  BY <1>1, <1>2, <1>3

LEMMA OverFacts ==
  ASSUME NEW old, NEW d \in Record, NEW new \in Over(old, d)
  PROVE  /\ new \in {d, Torn} /\ new # Absent
         /\ old \in {Empty, d} => new = d
BY FileAssumption DEF Over

LEMMA WriteFacts ==
  ASSUME TypeOK, NEW w \in Writers, WriteTmp(w)
  PROVE  /\ writer' \in [Writers -> WriterState]
         /\ \A u \in Writers \ {w} : writer'[u] = writer[u]
         /\ At(w, "opened") /\ writer'[w].step = "written"
         /\ writer'[w].file = writer[w].file
         /\ writer'[w].draft = writer[w].draft /\ writer'[w].upTo = writer[w].upTo
         /\ writer[w].draft \in Record
<1>1. At(w, "opened") /\ Goto(w, "written") /\ "written" \in Steps
  BY DEF WriteTmp, Steps
<1>2. writer[w].draft \in Record
  BY <1>1 DEF TypeOK, At
<1> QED
  BY <1>1, <1>2, GotoFacts

\* A rename that succeeds moves what the others have open.
LEMMA RenameFacts ==
  ASSUME TypeOK, NEW w \in Writers, Rename(w), tmp # Absent
  PROVE  /\ writer' \in [Writers -> WriterState]
         /\ writer'[w] = NoWrite
         /\ \A u \in Writers \ {w} :
              /\ writer'[u].step = writer[u].step
              /\ writer'[u].draft = writer[u].draft
              /\ writer'[u].upTo = writer[u].upTo
              /\ writer'[u].file = Moved(writer[u].file)
         /\ meta' = tmp /\ tmp' = Absent
         /\ raced' = (raced \/ \E u \in Writers \ {w} : InWindow(u))
<1>1. writer \in [Writers -> WriterState]
  BY DEF TypeOK, WriterState
<1>2. /\ writer' = [u \in Writers |->
                      IF u = w THEN NoWrite
                      ELSE [writer[u] EXCEPT !.file = Moved(writer[u].file)]]
      /\ meta' = tmp /\ tmp' = Absent
      /\ raced' = (raced \/ \E u \in Writers \ {w} : InWindow(u))
  BY DEF Rename
<1>3. ASSUME NEW u \in Writers \ {w}
      PROVE  /\ writer'[u] = [writer[u] EXCEPT !.file = Moved(writer[u].file)]
             /\ writer'[u] \in WriterState
             /\ writer'[u].step = writer[u].step
             /\ writer'[u].draft = writer[u].draft
             /\ writer'[u].upTo = writer[u].upTo
             /\ writer'[u].file = Moved(writer[u].file)
  <2>1. writer'[u] = [writer[u] EXCEPT !.file = Moved(writer[u].file)]
    BY <1>2
  <2>2. Moved(writer[u].file) \in {"none", "tmp", "meta", "gone"}
    BY <1>1 DEF WriterState, Moved
  <2> QED
    BY <1>1, <2>1, <2>2 DEF WriterState
<1>4. writer'[w] = NoWrite
  BY <1>2
<1> QED
  BY <1>2, <1>3, <1>4, WriterFacts

LEMMA TypeInit == Init => TypeOK
<1> SUFFICES ASSUME Init PROVE TypeOK
  OBVIOUS
<1>1. /\ writer \in [Writers -> WriterState]
      /\ \A w \in Writers : writer[w].step = "idle"
  BY WriterFacts DEF Init
<1>2. operations \in 0 .. MaxOperations /\ crashes \in 0 .. MaxCrashes
  BY BoundsAssumption DEF Init
<1> QED
  BY <1>1, <1>2 DEF Init, TypeOK, Contents, WriterState

LEMMA TypeNext == TypeOK /\ [Next]_vars => TypeOK'
<1> SUFFICES ASSUME TypeOK, [Next]_vars PROVE TypeOK'
  OBVIOUS
<1>0. /\ writer \in [Writers -> WriterState]
      /\ \A u \in Writers : writer[u].step \in Holding => writer[u].draft \in Record
  BY DEF TypeOK, WriterState, Holding
\* The types of the writers, and then those of the rest.
<1>1. ASSUME writer' \in [Writers -> WriterState],
             \A u \in Writers : writer'[u].step \in Holding => writer'[u].draft \in Record,
             meta' \in Contents, tmp' \in Contents, messages' \in Nat,
             creation' \in {"none", "opened", "done", "cut"},
             reported' \in Nat, told' \subseteq Indices, raced' \in BOOLEAN,
             operations' \in 0 .. MaxOperations, crashes' \in 0 .. MaxCrashes
      PROVE  TypeOK'
  BY <1>1 DEF TypeOK, WriterState, Holding
<1>2. ASSUME NEW w \in Writers, Prepare(w) PROVE TypeOK'
  <2>1. \A u \in Writers : writer'[u].step \in Holding => writer'[u].draft \in Record
    BY <1>0, <1>2, PrepareFacts
  <2> QED
    BY <1>1, <1>2, <2>1, PrepareFacts DEF TypeOK, ToldGrows
<1>3. ASSUME NEW w \in Writers, OpenTmp(w) PROVE TypeOK'
  <2>1. \A u \in Writers : writer'[u].step \in Holding => writer'[u].draft \in Record
    BY <1>0, <1>3, OpenFacts
  <2> QED
    BY <1>1, <1>3, <2>1, OpenFacts DEF OpenTmp, TypeOK, Contents
<1>4. ASSUME NEW w \in Writers, WriteTmp(w) PROVE TypeOK'
  <2>1. \A u \in Writers : writer'[u].step \in Holding => writer'[u].draft \in Record
    BY <1>0, <1>4, WriteFacts
  <2>2. meta' \in Contents /\ tmp' \in Contents
    BY <1>4, WriteFacts, OverFacts DEF WriteTmp, TypeOK, Contents
  <2> QED
    BY <1>1, <1>4, <2>1, <2>2, WriteFacts DEF WriteTmp, TypeOK
<1>5. ASSUME NEW w \in Writers, Rename(w) PROVE TypeOK'
  <2>1. CASE tmp # Absent
    <3>1. \A u \in Writers : writer'[u].step \in Holding => writer'[u].draft \in Record
      BY <1>0, <1>5, <2>1, RenameFacts, WriterFacts DEF Holding
    <3>2. meta' \in Contents /\ tmp' \in Contents /\ raced' \in BOOLEAN
      BY <1>5, <2>1, RenameFacts DEF TypeOK, Contents
    <3>3. UNCHANGED <<messages, creation, reported, told, operations, crashes>>
      BY <1>5 DEF Rename
    <3> QED
      BY <1>1, <1>5, <2>1, <3>1, <3>2, <3>3, RenameFacts DEF TypeOK
  <2>2. CASE tmp = Absent
    <3>1. /\ writer' = [writer EXCEPT ![w] = NoWrite]
          /\ UNCHANGED <<meta, tmp, raced, messages, creation, reported, told,
                         operations, crashes>>
      BY <1>5, <2>2 DEF Rename
    <3>2. /\ writer' \in [Writers -> WriterState]
          /\ \A u \in Writers : writer'[u].step \in Holding => writer'[u].draft \in Record
      BY <1>0, <3>1, WriterFacts DEF Holding
    <3> QED
      BY <1>1, <3>1, <3>2 DEF TypeOK
  <2> QED
    BY <2>1, <2>2
<1>6. CASE CreateOpens
  BY <1>0, <1>1, <1>6 DEF CreateOpens, TypeOK, Contents
<1>7. CASE CreateWrites
  BY <1>0, <1>1, <1>7, NewRecordType DEF CreateWrites, TypeOK, Contents
<1>8. CASE Restart
  <2>1. /\ writer' \in [Writers -> WriterState]
        /\ \A u \in Writers : writer'[u].step \in Holding => writer'[u].draft \in Record
    BY <1>8, WriterFacts DEF Restart, Holding
  <2> QED
    BY <1>1, <1>8, <2>1, BoundsAssumption DEF Restart, TypeOK
<1>9. CASE UNCHANGED vars
  BY <1>9 DEF vars, TypeOK
<1> QED
  BY <1>2, <1>3, <1>4, <1>5, <1>6, <1>7, <1>8, <1>9 DEF Next, Write, Prepare

LEMMA TypeHolds == Spec => []TypeOK
BY TypeInit, TypeNext, PTL DEF Spec

\* The two files hold a record, nothing or text that does not parse, and a
\* writer that has read the record always has one to write.
THEOREM TypesCorrect == Spec => []TypeOK
BY TypeHolds

-----------------------------------------------------------------------------
(* Nothing is invented *)

\* A record that says no more than what happened.
Bounded(r) ==
  r \in Record => /\ r.tokens <= reported /\ r.count <= messages
                  /\ r.start <= messages \/ r.start \in told

\* Every copy of the record is bounded, wherever it is.
BoundInv ==
  /\ TypeOK
  /\ Bounded(meta) /\ Bounded(tmp)
  /\ \A w \in Writers : Bounded(writer[w].draft) /\ writer[w].upTo <= messages

LEMMA BoundFollows == BoundInv => NothingIsInvented
BY DEF BoundInv, Bounded, NothingIsInvented

LEMMA BoundInit == Init => BoundInv
BY TypeInit, FileAssumption, WriterFacts DEF Init, BoundInv, Bounded

LEMMA NewRecordBounded == TypeOK => Bounded(Abstract!NewRecord)
BY DEF TypeOK, Bounded, Abstract!NewRecord

\* What happened only grows.
LEMMA BoundedKept ==
  ASSUME TypeOK, NEW r, Bounded(r), messages' \in Nat, messages <= messages',
         reported' \in Nat, reported <= reported', ToldGrows, NEW s, s = r
  PROVE  s \in Record => /\ s.tokens <= reported' /\ s.count <= messages'
                         /\ s.start <= messages' \/ s.start \in told'
BY RecordTypes DEF Bounded, TypeOK, ToldGrows

LEMMA BoundPrepare ==
  ASSUME BoundInv, NEW w \in Writers, Prepare(w)
  PROVE  Bounded(writer[w].draft)' /\ writer'[w].upTo <= messages'
<1>0. /\ TypeOK /\ writer \in [Writers -> WriterState]
      /\ messages \in Nat /\ reported \in Nat
      /\ writer[w].upTo \in Nat /\ writer[w].upTo <= messages
      /\ Bounded(meta) /\ Bounded(writer[w].draft)
      /\ messages' \in Nat /\ messages <= messages'
      /\ reported' \in Nat /\ reported <= reported' /\ ToldGrows
  BY PrepareFacts DEF BoundInv, TypeOK, WriterState
<1>1. ASSUME NEW s \in Steps, Goto(w, s)
      PROVE  Bounded(writer[w].draft)' /\ writer'[w].upTo <= messages'
  <2>1. writer'[w].draft = writer[w].draft /\ writer'[w].upTo = writer[w].upTo
    BY <1>0, <1>1, GotoFacts
  <2>2. Bounded(writer[w].draft)'
    BY <1>0, <2>1, BoundedKept DEF Bounded
  <2> QED
    BY <1>0, <2>1, <2>2
<1>2. ASSUME NEW next \in {"read", "drafted"}, NEW draft,
             meta \in Record =>
               /\ draft \in Record /\ draft.tokens <= reported'
               /\ draft.count <= messages'
               /\ draft.start <= messages' \/ draft.start \in told',
             Read(w, next, draft)
      PROVE  Bounded(writer[w].draft)' /\ writer'[w].upTo <= messages'
  <2>1. CASE meta \in Record
    <3>1. writer'[w].draft = draft /\ writer'[w].upTo = writer[w].upTo
      BY <1>0, <1>2, <2>1, ReadFacts
    <3> QED
      BY <1>0, <1>2, <2>1, <3>1 DEF Bounded
  <2>2. CASE meta \notin Record
    <3>1. writer'[w].draft = Absent /\ writer'[w].upTo = 0
      BY <1>0, <1>2, <2>2, ReadFacts, WriterFacts
    <3> QED
      BY <1>0, <3>1, FileAssumption DEF Bounded
  <2> QED
    BY <2>1, <2>2
<1>3. meta \in Record => /\ meta.tokens \in Nat /\ meta.tokens <= reported
                         /\ meta.count \in Nat /\ meta.count <= messages
                         /\ meta.start \in Nat
                         /\ meta.start <= messages \/ meta.start \in told
  BY <1>0, RecordTypes DEF Bounded
<1>13. meta \in Record => meta.start <= messages' \/ meta.start \in told'
  BY <1>0, <1>3 DEF ToldGrows
<1>4. CASE BeginTurn(w) \/ StoreAnswer(w) \/ CheckIdle(w)
  BY <1>1, <1>4 DEF BeginTurn, StoreAnswer, CheckIdle, Steps
<1>5. CASE Measure(w)
  <2>1. writer'[w].draft = writer[w].draft /\ writer'[w].upTo \in {messages, 0}
    BY <1>0, <1>5 DEF Measure, WriterState
  <2>2. Bounded(writer[w].draft)'
    BY <1>0, <2>1, BoundedKept DEF Bounded
  <2> QED
    BY <1>0, <2>1, <2>2
<1>6. CASE AddTokens(w)
  <2> DEFINE d == [meta EXCEPT !.tokens = @ + 1]
  <2>1. Read(w, "drafted", d) /\ (meta \in Record => reported' = reported + 1)
    BY <1>6 DEF AddTokens
  <2>2. meta \in Record => /\ d \in Record /\ d.tokens = meta.tokens + 1
                           /\ d.count = meta.count /\ d.start = meta.start
    BY TokensAdded
  <2> HIDE DEF d
  <2> QED
    BY <1>0, <1>2, <1>3, <1>13, <2>1, <2>2
<1>7. CASE Route(w)
  <2> DEFINE d == Abstract!Routed(meta)
  <2>1. Read(w, "drafted", d)
    BY <1>7 DEF Route
  <2>2. meta \in Record => /\ d \in Record /\ d.tokens = meta.tokens
                           /\ d.count = meta.count /\ d.start = meta.start
    BY OtherFieldSet
  <2> HIDE DEF d
  <2> QED
    BY <1>0, <1>2, <1>3, <1>13, <2>1, <2>2
<1>12. CASE Assign(w)
  <2>1. PICK v \in BOOLEAN : Read(w, "drafted", [meta EXCEPT !.project = v])
    BY <1>12 DEF Assign
  <2> DEFINE d == [meta EXCEPT !.project = v]
  <2>2. meta \in Record => /\ d \in Record /\ d.tokens = meta.tokens
                           /\ d.count = meta.count /\ d.start = meta.start
    BY OtherFieldSet
  <2>3. Read(w, "drafted", d)
    BY <2>1
  <2> HIDE DEF d
  <2> QED
    BY <1>0, <1>2, <1>3, <1>13, <2>2, <2>3
<1>14. CASE UpdateSession(w)
  <2>1. PICK keys \in SUBSET Abstract!SharedKeys, n \in Indices :
          /\ Read(w, "drafted", Abstract!Merged(meta, keys, n))
          /\ meta \in Record /\ "start" \in keys => n \in told'
    BY <1>0, <1>14, UpdateFacts
  <2> DEFINE d == Abstract!Merged(meta, keys, n)
  <2>2. meta \in Record =>
          /\ d \in Record /\ d.tokens = meta.tokens /\ d.count = meta.count
          /\ d.start = IF "start" \in keys THEN n ELSE meta.start
    BY MetadataMerged
  <2>3. Read(w, "drafted", d)
    BY <2>1
  <2> HIDE DEF d
  <2> QED
    BY <1>0, <1>2, <1>3, <1>13, <2>1, <2>2, <2>3
<1>8. CASE AdvanceStart(w)
  <2> DEFINE d == [meta EXCEPT !.start = writer[w].upTo]
  <2>1. Read(w, "drafted", d)
    BY <1>8 DEF AdvanceStart
  <2>2. meta \in Record => /\ d \in Record /\ d.start = writer[w].upTo
                           /\ d.tokens = meta.tokens /\ d.count = meta.count
    BY <1>0, StartSet
  <2> HIDE DEF d
  <2> QED
    BY <1>0, <1>2, <1>3, <1>13, <2>1, <2>2
<1>9. CASE MarkArchived(w)
  <2> DEFINE d == [meta EXCEPT !.status = "archived"]
  <2>1. Read(w, "drafted", d)
    BY <1>9 DEF MarkArchived
  <2>2. meta \in Record => /\ d \in Record /\ d.tokens = meta.tokens
                           /\ d.count = meta.count /\ d.start = meta.start
    BY OtherFieldSet
  <2> HIDE DEF d
  <2> QED
    BY <1>0, <1>2, <1>3, <1>13, <2>1, <2>2
<1>10. CASE ReadForCount(w)
  <2>1. Read(w, "read", meta)
    BY <1>10 DEF ReadForCount
  <2> QED
    BY <1>0, <1>2, <1>3, <1>13, <2>1
<1>15. CASE CountMessages(w) /\ writer' = [writer EXCEPT ![w] = NoWrite]
  BY <1>0, <1>15, WriterFacts, FileAssumption DEF Bounded
<1>11. CASE CountMessages(w) /\ writer' # [writer EXCEPT ![w] = NoWrite]
  <2> DEFINE d == [writer[w].draft EXCEPT !.count = messages]
  <2>1. writer'[w].draft = d /\ writer'[w].upTo = writer[w].upTo /\ At(w, "read")
    BY <1>0, <1>11 DEF CountMessages, WriterState
  <2>2. writer[w].draft \in Record
    BY <1>0, <2>1 DEF TypeOK, At
  <2>3. /\ d.count = messages
        /\ d.tokens = writer[w].draft.tokens /\ d.start = writer[w].draft.start
    BY <1>0, <2>2, CountSet
  <2> HIDE DEF d
  <2> QED
    BY <1>0, <2>1, <2>2, <2>3, RecordTypes DEF Bounded, ToldGrows
<1> QED
  BY <1>4, <1>5, <1>6, <1>7, <1>8, <1>9, <1>10, <1>11, <1>12, <1>14, <1>15 DEF Prepare

LEMMA BoundNext == BoundInv /\ TypeOK' /\ [Next]_vars => BoundInv'
<1> SUFFICES ASSUME BoundInv, TypeOK', [Next]_vars PROVE BoundInv'
  OBVIOUS
<1>0. /\ TypeOK /\ messages \in Nat /\ reported \in Nat
  BY DEF BoundInv, TypeOK
<1>1. ASSUME NEW w \in Writers, Prepare(w) PROVE BoundInv'
  <2>1. /\ \A u \in Writers \ {w} : writer'[u] = writer[u]
        /\ messages' \in Nat /\ messages <= messages'
        /\ reported' \in Nat /\ reported <= reported' /\ ToldGrows
        /\ UNCHANGED <<meta, tmp>>
    BY <1>0, <1>1, PrepareFacts
  <2>2. Bounded(meta)' /\ Bounded(tmp)'
    BY <1>0, <2>1, BoundedKept DEF BoundInv, Bounded
  <2>3. ASSUME NEW u \in Writers
        PROVE  Bounded(writer[u].draft)' /\ writer'[u].upTo <= messages'
    <3>1. CASE u = w
      BY <1>1, <3>1, BoundPrepare
    <3>2. CASE u # w
      <4>1. writer'[u] = writer[u] /\ writer[u].upTo \in Nat
            /\ writer[u].upTo <= messages /\ Bounded(writer[u].draft)
        BY <2>1, <3>2 DEF BoundInv, TypeOK
      <4>2. Bounded(writer[u].draft)'
        BY <1>0, <2>1, <4>1, BoundedKept DEF Bounded
      <4> QED
        BY <1>0, <2>1, <4>1, <4>2
    <3> QED
      BY <3>1, <3>2
  <2> QED
    BY <2>2, <2>3 DEF BoundInv
\* The steps on the files add no usage and no message, and move records about.
<1>2. ASSUME UNCHANGED <<messages, reported, told>>,
             Bounded(meta'), Bounded(tmp'),
             \A u \in Writers : Bounded(writer'[u].draft) /\ writer'[u].upTo <= messages
      PROVE  BoundInv'
  BY <1>2 DEF BoundInv, Bounded
<1>3. Bounded(Absent) /\ Bounded(Empty) /\ Bounded(Torn)
  BY FileAssumption DEF Bounded
<1>4. \A u \in Writers : Bounded(writer[u].draft) /\ writer[u].upTo <= messages
  BY DEF BoundInv
<1>5. ASSUME NEW w \in Writers, OpenTmp(w) PROVE BoundInv'
  <2>1. \A u \in Writers : Bounded(writer'[u].draft) /\ writer'[u].upTo <= messages
    BY <1>0, <1>4, <1>5, OpenFacts
  <2>2. tmp' = Empty /\ UNCHANGED <<meta, messages, reported, told>>
    BY <1>5 DEF OpenTmp
  <2> QED
    BY <1>2, <1>3, <2>1, <2>2 DEF BoundInv
<1>6. ASSUME NEW w \in Writers, WriteTmp(w) PROVE BoundInv'
  <2>1. \A u \in Writers : Bounded(writer'[u].draft) /\ writer'[u].upTo <= messages
    BY <1>0, <1>4, <1>6, WriteFacts
  <2>2. /\ meta' \in {meta, writer[w].draft, Torn}
        /\ tmp' \in {tmp, writer[w].draft, Torn}
        /\ UNCHANGED <<messages, reported, told>>
    BY <1>0, <1>6, WriteFacts, OverFacts DEF WriteTmp
  <2> QED
    BY <1>2, <1>3, <1>4, <2>1, <2>2 DEF BoundInv
<1>7. ASSUME NEW w \in Writers, Rename(w) PROVE BoundInv'
  <2>1. CASE tmp # Absent
    <3>1. \A u \in Writers : Bounded(writer'[u].draft) /\ writer'[u].upTo <= messages
      BY <1>0, <1>3, <1>4, <1>7, <2>1, RenameFacts, WriterFacts
    <3>2. meta' = tmp /\ tmp' = Absent /\ UNCHANGED <<messages, reported, told>>
      BY <1>7, <2>1 DEF Rename
    <3> QED
      BY <1>2, <1>3, <3>1, <3>2 DEF BoundInv
  <2>2. CASE tmp = Absent
    <3>1. /\ writer' = [writer EXCEPT ![w] = NoWrite]
          /\ UNCHANGED <<meta, tmp, messages, reported, told>>
      BY <1>7, <2>2 DEF Rename
    <3>2. \A u \in Writers : writer'[u] \in {writer[u], NoWrite}
      BY <1>0, <3>1 DEF TypeOK
    <3>3. \A u \in Writers : Bounded(writer'[u].draft) /\ writer'[u].upTo <= messages
      BY <1>0, <1>3, <1>4, <3>2, WriterFacts
    <3> QED
      BY <1>2, <3>1, <3>3 DEF BoundInv
  <2> QED
    BY <2>1, <2>2
<1>8. CASE CreateOpens
  BY <1>2, <1>3, <1>4, <1>8 DEF CreateOpens, BoundInv
<1>9. CASE CreateWrites
  BY <1>0, <1>2, <1>4, <1>9, NewRecordBounded DEF CreateWrites, BoundInv
<1>10. CASE Restart
  <2>1. /\ \A u \in Writers : writer'[u] = NoWrite
        /\ UNCHANGED <<meta, tmp, messages, reported, told>>
    BY <1>10 DEF Restart
  <2>2. \A u \in Writers : Bounded(writer'[u].draft) /\ writer'[u].upTo <= messages
    BY <1>0, <1>3, <2>1, WriterFacts
  <2> QED
    BY <1>2, <2>1, <2>2 DEF BoundInv
<1>11. CASE UNCHANGED vars
  BY <1>2, <1>4, <1>11 DEF vars, BoundInv
<1> QED
  BY <1>1, <1>5, <1>6, <1>7, <1>8, <1>9, <1>10, <1>11 DEF Next, Write, Prepare

\* However the writers of the record cross, with each other and with a crash,
\* updates are lost at worst: no usage or message is made up, and no history is
\* cleared ahead of its messages but by a number that update_session was told.
THEOREM NothingInvented == Spec => []NothingIsInvented
BY BoundFollows, BoundInit, BoundNext, TypeHolds, PTL DEF Spec

-----------------------------------------------------------------------------
(* The record parses *)

\* No other writer has meta.json.tmp open.
Alone(w) == \A u \in Writers \ {w} : writer[u].file # "tmp"

\* Who has meta.json.tmp open alone finds there what it wrote; who has another
\* file open was overtaken by a rename.
FilesInv ==
  /\ \A w \in Writers :
       /\ writer[w].file # "none" <=> writer[w].step \in Opened
       /\ writer[w].file = "tmp" => tmp # Absent
       /\ At(w, "opened") /\ writer[w].file = "tmp" /\ Alone(w) => tmp = Empty
       /\ At(w, "written") /\ writer[w].file = "tmp" /\ Alone(w) =>
            tmp = writer[w].draft
       /\ writer[w].file \in {"meta", "gone"} => raced
  /\ RecordIsReadable

ReadInv == TypeOK /\ FilesInv

LEMMA NewRecordParses == Abstract!NewRecord \notin {Empty, Torn}
BY NewRecordType, FileAssumption

LEMMA ReadInit == Init => ReadInv
BY TypeInit, FileAssumption, WriterFacts
   DEF Init, ReadInv, FilesInv, RecordIsReadable, Opened, At

\* A step by w on which no file and nothing the others have open depends.
LEMMA FilesKept ==
  ASSUME ReadInv, NEW w \in Writers,
         \A u \in Writers \ {w} : writer'[u] = writer[u],
         writer[w].step \notin Opened \/ tmp = Absent,
         writer'[w].file = "none", writer'[w].step \notin Opened,
         UNCHANGED <<meta, tmp, creation, raced>>
  PROVE  FilesInv'
<1>1. writer[w].file # "tmp"
  BY DEF ReadInv, FilesInv
<1>2. \A u \in Writers : Alone(u)' <=> Alone(u)
  BY <1>1 DEF Alone
<1>3. RecordIsReadable'
  BY DEF ReadInv, FilesInv, RecordIsReadable
<1>4. ASSUME NEW u \in Writers \ {w}
      PROVE  /\ writer'[u].file # "none" <=> writer'[u].step \in Opened
             /\ writer'[u].file = "tmp" => tmp' # Absent
             /\ At(u, "opened")' /\ writer'[u].file = "tmp" /\ Alone(u)' => tmp' = Empty
             /\ At(u, "written")' /\ writer'[u].file = "tmp" /\ Alone(u)' =>
                  tmp' = writer'[u].draft
             /\ writer'[u].file \in {"meta", "gone"} => raced'
  BY <1>2 DEF ReadInv, FilesInv, At
<1> QED
  BY <1>3, <1>4 DEF FilesInv

LEMMA ReadableOpen ==
  ASSUME ReadInv, NEW w \in Writers, OpenTmp(w)
  PROVE  FilesInv'
<1>1. /\ \A u \in Writers \ {w} : writer'[u] = writer[u]
      /\ writer'[w].step = "opened" /\ writer'[w].file = "tmp"
      /\ tmp' = Empty /\ tmp' # Absent /\ UNCHANGED <<meta, creation, raced>>
  BY OpenFacts, FileAssumption DEF ReadInv, OpenTmp
<1>2. \A u \in Writers \ {w} : ~Alone(u)'
  BY <1>1 DEF Alone
<1>3. RecordIsReadable'
  BY <1>1 DEF ReadInv, FilesInv, RecordIsReadable
<1>4. \A u \in Writers \ {w} :
        /\ writer'[u].file # "none" <=> writer'[u].step \in Opened
        /\ writer'[u].file \in {"meta", "gone"} => raced'
  BY <1>1 DEF ReadInv, FilesInv
<1> QED
  BY <1>1, <1>2, <1>3, <1>4 DEF FilesInv, Opened, At

LEMMA ReadableWrite ==
  ASSUME ReadInv, NEW w \in Writers, WriteTmp(w)
  PROVE  FilesInv'
<1>1. /\ \A u \in Writers \ {w} : writer'[u] = writer[u]
      /\ At(w, "opened") /\ writer'[w].step = "written"
      /\ writer'[w].file = writer[w].file /\ writer'[w].draft = writer[w].draft
      /\ writer[w].draft \in Record
      /\ UNCHANGED <<creation, raced>>
  BY WriteFacts DEF ReadInv, WriteTmp
<1>2. \A u \in Writers : writer'[u].file = writer[u].file /\ (Alone(u)' <=> Alone(u))
  BY <1>1 DEF Alone
<1>3. \A u \in Writers :
        /\ writer'[u].file # "none" <=> writer'[u].step \in Opened
        /\ writer'[u].file \in {"meta", "gone"} => raced'
  BY <1>1 DEF ReadInv, FilesInv, Opened, At
<1>4. CASE writer[w].file = "tmp"
  <2>1. tmp' \in Over(tmp, writer[w].draft) /\ UNCHANGED meta
    BY <1>4 DEF WriteTmp
  <2>2. tmp' # Absent /\ (tmp = Empty => tmp' = writer[w].draft)
    BY <1>1, <2>1, OverFacts
  <2>3. Alone(w) => tmp' = writer[w].draft
    BY <1>1, <1>4, <2>2 DEF ReadInv, FilesInv
  <2>4. \A u \in Writers \ {w} : ~Alone(u)'
    BY <1>2, <1>4 DEF Alone
  <2>5. RecordIsReadable'
    BY <1>1, <2>1 DEF ReadInv, FilesInv, RecordIsReadable
  <2> QED
    BY <1>1, <1>2, <1>3, <2>2, <2>3, <2>4, <2>5 DEF FilesInv, At
<1>5. CASE writer[w].file # "tmp"
  <2>1. UNCHANGED tmp
    BY <1>5 DEF WriteTmp
  <2>2. raced
    BY <1>1, <1>5 DEF ReadInv, FilesInv, TypeOK, Opened, At
  <2>3. RecordIsReadable'
    BY <1>1, <2>2 DEF RecordIsReadable
  <2>4. \A u \in Writers :
          /\ writer'[u].file = "tmp" => tmp' # Absent
          /\ At(u, "opened")' /\ writer'[u].file = "tmp" /\ Alone(u)' => tmp' = Empty
          /\ At(u, "written")' /\ writer'[u].file = "tmp" /\ Alone(u)' =>
               tmp' = writer'[u].draft
    BY <1>1, <1>2, <1>5, <2>1 DEF ReadInv, FilesInv, At
  <2> QED
    BY <1>3, <2>3, <2>4 DEF FilesInv
<1> QED
  BY <1>4, <1>5

LEMMA ReadableRename ==
  ASSUME ReadInv, NEW w \in Writers, Rename(w)
  PROVE  FilesInv'
<1>1. CASE tmp = Absent
  <2>1. /\ writer' = [writer EXCEPT ![w] = NoWrite]
        /\ UNCHANGED <<meta, tmp, creation, raced>>
    BY <1>1 DEF Rename
  <2>2. /\ writer'[w] = NoWrite
        /\ \A u \in Writers \ {w} : writer'[u] = writer[u]
    BY <2>1 DEF ReadInv, TypeOK
  <2> QED
    BY <1>1, <2>1, <2>2, FilesKept, WriterFacts DEF Opened
<1>2. CASE tmp # Absent
  <2>1. /\ writer'[w] = NoWrite
        /\ \A u \in Writers \ {w} :
             writer'[u].step = writer[u].step /\ writer'[u].file = Moved(writer[u].file)
        /\ meta' = tmp /\ tmp' = Absent
        /\ raced' = (raced \/ \E u \in Writers \ {w} : InWindow(u))
    BY <1>2, RenameFacts DEF ReadInv
  <2>2. At(w, "written") /\ creation' = creation
    BY DEF Rename
  <2>3. \A u \in Writers : writer[u].file \in {"none", "tmp", "meta", "gone"}
    BY DEF ReadInv, TypeOK
  <2>4. \A u \in Writers \ {w} :
          /\ writer'[u].file # "tmp"
          /\ writer'[u].file # "none" <=> writer[u].file # "none"
    BY <2>1, <2>3 DEF Moved
  <2>5. \A u \in Writers \ {w} : writer[u].file # "none" => raced'
    BY <2>1 DEF ReadInv, FilesInv, InWindow, Opened
  <2>6. ASSUME ~raced' PROVE meta' \in Record
    <3>1. ~raced /\ Alone(w)
      BY <2>1, <2>5, <2>6 DEF Alone
    <3>2. writer[w].file = "tmp"
      BY <2>2, <2>3, <3>1 DEF ReadInv, FilesInv, Opened, At
    <3>3. tmp = writer[w].draft /\ writer[w].draft \in Record
      BY <2>2, <3>1, <3>2 DEF ReadInv, FilesInv, TypeOK, At
    <3> QED
      BY <2>1, <3>3
  <2>7. RecordIsReadable'
    BY <2>6, FileAssumption DEF RecordIsReadable
  <2>8. \A u \in Writers :
          /\ writer'[u].file # "tmp"
          /\ writer'[u].file # "none" <=> writer'[u].step \in Opened
          /\ writer'[u].file \in {"meta", "gone"} => raced'
    BY <2>1, <2>4, <2>5, WriterFacts DEF ReadInv, FilesInv, Opened
  <2> QED
    BY <2>7, <2>8 DEF FilesInv
<1> QED
  BY <1>1, <1>2

LEMMA ReadNext == ReadInv /\ TypeOK' /\ [Next]_vars => ReadInv'
<1> SUFFICES ASSUME ReadInv, [Next]_vars PROVE FilesInv'
  BY DEF ReadInv
<1>1. ASSUME NEW w \in Writers, Prepare(w) PROVE FilesInv'
  <2>1. /\ \A u \in Writers \ {w} : writer'[u] = writer[u]
        /\ writer'[w].step \notin Opened /\ writer[w].step \notin Opened
        /\ writer'[w].file \in {writer[w].file, "none"}
        /\ UNCHANGED <<meta, tmp, creation, raced>>
    BY <1>1, PrepareFacts DEF ReadInv
  <2>2. writer'[w].file = "none"
    BY <2>1 DEF ReadInv, FilesInv
  <2> QED
    BY <2>1, <2>2, FilesKept
<1>2. ASSUME NEW w \in Writers, OpenTmp(w) \/ WriteTmp(w) \/ Rename(w) PROVE FilesInv'
  BY <1>2, ReadableOpen, ReadableWrite, ReadableRename
<1>3. CASE CreateOpens
  BY <1>3 DEF CreateOpens, ReadInv, FilesInv, RecordIsReadable, Alone, At
<1>4. CASE CreateWrites
  BY <1>4, NewRecordParses
     DEF CreateWrites, ReadInv, FilesInv, RecordIsReadable, Alone, At
<1>5. CASE Restart
  <2>1. \A w \in Writers : writer'[w] = NoWrite
    BY <1>5 DEF Restart
  <2>2. RecordIsReadable'
    BY <1>5 DEF Restart, ReadInv, FilesInv, RecordIsReadable
  <2> QED
    BY <2>1, <2>2, WriterFacts DEF FilesInv, Opened, At
<1>6. CASE UNCHANGED vars
  BY <1>6 DEF vars, ReadInv, FilesInv, RecordIsReadable, Alone, At
<1> QED
  BY <1>1, <1>2, <1>3, <1>4, <1>5, <1>6 DEF Next, Write, Prepare

\* Whatever is written when the gateway is killed, the record parses at the next
\* start, unless its creation was cut short or two updates had crossed.
THEOREM RecordReadable == Spec => []RecordIsReadable
<1>1. ReadInv => RecordIsReadable
  BY DEF ReadInv, FilesInv
<1> QED
  BY <1>1, ReadInit, ReadNext, TypeHolds, PTL DEF Spec

-----------------------------------------------------------------------------
(* Without races, the files are one record with atomic operations *)

\* What each step of a writer says of its kind and of create().
KindInv ==
  /\ creation # "done" => meta \notin Record
  /\ \A w \in Writers :
       /\ writer[w].step \in {"turn", "answered", "read"} => Kind[w] = "runner"
       /\ writer[w].step = "measured" => Kind[w] = "clear"
       /\ writer[w].step = "allowed" => Kind[w] = "archive"
       /\ writer[w].step # "idle" => creation = "done"

\* What w will write is the record as it is now after the operation of w.
Intended(w) ==
  LET d == writer[w].draft
  IN  \/ Kind[w] = "tracker" /\ d = [meta EXCEPT !.tokens = @ + 1]
      \/ Kind[w] = "runner" /\ d = [meta EXCEPT !.count = messages]
      \/ Kind[w] = "connector" /\ d = Abstract!Routed(meta)
      \/ Kind[w] = "clear" /\ \E n \in 0 .. messages : d = [meta EXCEPT !.start = n]
      \/ Kind[w] = "tool" /\ \E v \in BOOLEAN : d = [meta EXCEPT !.project = v]
      \/ /\ Kind[w] = "tool"
         /\ \E keys \in SUBSET Abstract!SharedKeys, n \in Indices :
              d = Abstract!Merged(meta, keys, n)
      \/ Kind[w] = "archive" /\ d = [meta EXCEPT !.status = "archived"]

Meant(w) ==
  /\ meta \in Record
  /\ IF At(w, "read") THEN writer[w].draft = meta ELSE Intended(w)

IntentInv == ~raced => \A w \in Writers : InWindow(w) => Meant(w)

OpsInv == BoundInv /\ ReadInv /\ KindInv /\ IntentInv

LEMMA KindInit == Init => KindInv /\ IntentInv
BY FileAssumption, WriterFacts DEF Init, KindInv, IntentInv, InWindow

\* Messages come from the runner, before it reads the record.
LEMMA MessagesFacts ==
  ASSUME NEW w \in Writers, Prepare(w)
  PROVE  \/ messages' = messages
         \/ messages' = messages + 1 /\ (KindInv => Kind[w] = "runner")
BY DEF Prepare, BeginTurn, StoreAnswer, Measure, CheckIdle, AddTokens, Route,
       Assign, UpdateSession, AdvanceStart, MarkArchived, ReadForCount,
       CountMessages, Read, Begins, KindInv, At

LEMMA KindPrepare ==
  ASSUME TypeOK, KindInv, NEW w \in Writers, Prepare(w)
  PROVE  KindInv'
<1>1. /\ \A u \in Writers \ {w} : writer'[u] = writer[u]
      /\ UNCHANGED <<meta, creation>>
  BY PrepareFacts
<1>2. CASE BeginTurn(w)
  <2>1. Goto(w, "turn") /\ "turn" \in Steps /\ Kind[w] = "runner" /\ creation = "done"
    BY <1>2 DEF BeginTurn, Begins, Steps
  <2> QED
    BY <1>1, <2>1, GotoFacts DEF KindInv
<1>3. CASE StoreAnswer(w)
  <2>1. Goto(w, "answered") /\ "answered" \in Steps /\ At(w, "turn")
    BY <1>3 DEF StoreAnswer, Steps
  <2> QED
    BY <1>1, <2>1, GotoFacts DEF KindInv, At
<1>4. CASE Measure(w)
  <2>1. writer'[w].step = "measured" /\ Kind[w] = "clear" /\ creation = "done"
    BY <1>4 DEF Measure, Begins, TypeOK
  <2> QED
    BY <1>1, <2>1 DEF KindInv
<1>5. CASE CheckIdle(w)
  <2>1. Goto(w, "allowed") /\ "allowed" \in Steps /\ Kind[w] = "archive"
        /\ creation = "done"
    BY <1>5 DEF CheckIdle, Begins, Steps
  <2> QED
    BY <1>1, <2>1, GotoFacts DEF KindInv
<1>6. ASSUME NEW next \in {"read", "drafted"}, NEW draft,
             meta \in Record => draft \in Record, Read(w, next, draft),
             next = "read" => Kind[w] = "runner", creation = "done"
      PROVE  KindInv'
  <2>1. \/ writer'[w].step = next
        \/ writer'[w].step = "idle"
    BY <1>6, ReadFacts, WriterFacts
  <2> QED
    BY <1>1, <1>6, <2>1 DEF KindInv
<1>7. CASE AddTokens(w)
  <2>1. Read(w, "drafted", [meta EXCEPT !.tokens = @ + 1]) /\ creation = "done"
    BY <1>7 DEF AddTokens, Begins
  <2> QED
    BY <1>6, <2>1, TokensAdded
<1>8. CASE Route(w)
  <2>1. Read(w, "drafted", Abstract!Routed(meta)) /\ creation = "done"
    BY <1>8 DEF Route, Begins
  <2> QED
    BY <1>6, <2>1, OtherFieldSet
<1>13. CASE Assign(w)
  <2>1. /\ creation = "done"
        /\ \E v \in BOOLEAN : Read(w, "drafted", [meta EXCEPT !.project = v])
    BY <1>13 DEF Assign, Begins
  <2>2. PICK v \in BOOLEAN : Read(w, "drafted", [meta EXCEPT !.project = v])
    BY <2>1
  <2> QED
    BY <1>6, <2>1, <2>2, OtherFieldSet
<1>14. CASE UpdateSession(w)
  <2>1. PICK keys \in SUBSET Abstract!SharedKeys, n \in Indices :
          Read(w, "drafted", Abstract!Merged(meta, keys, n))
    BY <1>14, UpdateFacts
  <2>2. creation = "done"
    BY <1>14, UpdateFacts DEF Begins
  <2> QED
    BY <1>6, <2>1, <2>2, MetadataMerged
<1>9. CASE AdvanceStart(w)
  <2>1. /\ Read(w, "drafted", [meta EXCEPT !.start = writer[w].upTo])
        /\ creation = "done" /\ writer[w].upTo \in Nat
    BY <1>9 DEF AdvanceStart, KindInv, At, TypeOK
  <2> QED
    BY <1>6, <2>1, StartSet
<1>10. CASE MarkArchived(w)
  <2>1. Read(w, "drafted", [meta EXCEPT !.status = "archived"]) /\ creation = "done"
    BY <1>10 DEF MarkArchived, KindInv, At
  <2> QED
    BY <1>6, <2>1, OtherFieldSet
<1>11. CASE ReadForCount(w)
  <2>1. Read(w, "read", meta) /\ creation = "done" /\ Kind[w] = "runner"
    BY <1>11 DEF ReadForCount, KindInv, At
  <2> QED
    BY <1>6, <2>1
<1>12. CASE CountMessages(w)
  <2>1. writer'[w].step \in {"drafted", "idle"} /\ creation = "done"
    BY <1>12, WriterFacts DEF CountMessages, KindInv, At, TypeOK
  <2> QED
    BY <1>1, <2>1 DEF KindInv
<1> QED
  BY <1>2, <1>3, <1>4, <1>5, <1>7, <1>8, <1>9, <1>10, <1>11, <1>12, <1>13,
     <1>14 DEF Prepare

LEMMA KindNext == TypeOK /\ KindInv /\ [Next]_vars => KindInv'
<1> SUFFICES ASSUME TypeOK, KindInv, [Next]_vars PROVE KindInv'
  OBVIOUS
<1>1. ASSUME NEW w \in Writers, OpenTmp(w) PROVE KindInv'
  <2>1. UNCHANGED <<meta, creation>>
    BY <1>1 DEF OpenTmp
  <2> QED
    BY <1>1, <2>1, OpenFacts DEF KindInv, At
<1>2. ASSUME NEW w \in Writers, WriteTmp(w) PROVE KindInv'
  <2>1. UNCHANGED creation /\ creation = "done"
    BY <1>2 DEF WriteTmp, KindInv, At
  <2> QED
    BY <1>2, <2>1, WriteFacts DEF KindInv, At
<1>3. ASSUME NEW w \in Writers, Rename(w) PROVE KindInv'
  <2>1. UNCHANGED creation /\ creation = "done"
    BY <1>3 DEF Rename, KindInv, At
  <2>2. CASE tmp # Absent
    BY <1>3, <2>1, <2>2, RenameFacts, WriterFacts DEF KindInv
  <2>3. CASE tmp = Absent
    <3>1. writer' = [writer EXCEPT ![w] = NoWrite]
      BY <1>3, <2>3 DEF Rename
    <3>2. \A u \in Writers : writer'[u] = writer[u] \/ writer'[u].step = "idle"
      BY <3>1, WriterFacts DEF TypeOK
    <3> QED
      BY <2>1, <3>2, WriterFacts DEF KindInv
  <2> QED
    BY <2>2, <2>3
<1>4. CASE CreateOpens
  BY <1>4, FileAssumption DEF CreateOpens, KindInv
<1>5. CASE CreateWrites
  BY <1>5 DEF CreateWrites, KindInv
<1>6. CASE Restart
  <2>1. \A w \in Writers : writer'[w].step = "idle"
    BY <1>6, WriterFacts DEF Restart
  <2>2. /\ meta' = meta
        /\ creation' # "done" => creation # "done"
    BY <1>6 DEF Restart
  <2> QED
    BY <2>1, <2>2 DEF KindInv
<1>7. CASE UNCHANGED vars
  BY <1>7 DEF vars, KindInv
<1> QED
  BY <1>1, <1>2, <1>3, <1>4, <1>5, <1>6, <1>7, KindPrepare DEF Next, Write, Prepare

\* What others mean to write outlives the preparations of w: only the runner
\* stores messages, and it is one.
LEMMA OthersMeant ==
  ASSUME OpsInv, NEW w \in Writers, Prepare(w), NEW u \in Writers \ {w},
         InWindow(u), Meant(u)
  PROVE  Meant(u)'
<1>1. /\ writer'[u] = writer[u] /\ UNCHANGED meta
      /\ messages \in Nat /\ messages' \in Nat /\ messages <= messages'
  BY PrepareFacts DEF OpsInv, ReadInv, TypeOK
<1>2. CASE At(u, "read")
  BY <1>1, <1>2 DEF Meant, At
<1>3. CASE ~At(u, "read")
  <2>1. Kind[u] = "runner" => messages' = messages
    BY MessagesFacts, WritersAssumption DEF OpsInv
  <2>3. \A n \in 0 .. messages : n \in 0 .. messages'
    BY <1>1
  <2>4. Intended(u)
    BY <1>3 DEF Meant
  <2>2. Intended(u)'
    BY <1>1, <2>1, <2>3, <2>4, Zenon DEF Intended
  <2> QED
    BY <1>1, <1>3, <2>2 DEF Meant, At
<1> QED
  BY <1>2, <1>3

\* And w itself means the record it has just read.
LEMMA OwnMeant ==
  ASSUME OpsInv, ~raced, NEW w \in Writers, Prepare(w), InWindow(w)'
  PROVE  Meant(w)'
<1>0. /\ TypeOK /\ KindInv /\ UNCHANGED meta
      /\ messages \in Nat /\ writer[w].upTo \in Nat /\ writer[w].upTo <= messages
  BY PrepareFacts DEF OpsInv, ReadInv, BoundInv, TypeOK
<1>1. CASE BeginTurn(w) \/ StoreAnswer(w) \/ Measure(w) \/ CheckIdle(w)
  <2>1. writer'[w].step \in {"turn", "answered", "measured", "allowed"}
    BY <1>0, <1>1, GotoFacts
       DEF BeginTurn, StoreAnswer, Measure, CheckIdle, TypeOK, Steps
  <2> QED
    BY <2>1 DEF InWindow
<1>2. ASSUME NEW next \in {"read", "drafted"}, NEW draft,
             meta \in Record => draft \in Record, Read(w, next, draft)
      PROVE  meta \in Record /\ writer'[w].step = next /\ writer'[w].draft = draft
             /\ messages' = messages
  <2>1. writer'[w].step # "idle"
    BY DEF InWindow
  <2> QED
    BY <1>0, <1>2, <2>1, ReadFacts, WriterFacts
<1>3. CASE AddTokens(w)
  <2>1. Read(w, "drafted", [meta EXCEPT !.tokens = @ + 1]) /\ Kind[w] = "tracker"
    BY <1>3 DEF AddTokens, Begins
  <2>2. /\ meta \in Record /\ writer'[w].step = "drafted"
        /\ writer'[w].draft = [meta EXCEPT !.tokens = @ + 1]
    BY <1>2, <2>1, TokensAdded
  <2> QED
    BY <1>0, <2>1, <2>2 DEF Meant, Intended, At
<1>4. CASE Route(w)
  <2>1. Read(w, "drafted", Abstract!Routed(meta)) /\ Kind[w] = "connector"
    BY <1>4 DEF Route, Begins
  <2>2. /\ meta \in Record /\ writer'[w].step = "drafted"
        /\ writer'[w].draft = Abstract!Routed(meta)
    BY <1>2, <2>1, OtherFieldSet
  <2> QED
    BY <1>0, <2>1, <2>2 DEF Meant, Intended, At
<1>9. CASE Assign(w)
  <2>1. PICK v \in BOOLEAN : Read(w, "drafted", [meta EXCEPT !.project = v])
    BY <1>9 DEF Assign
  <2>2. /\ meta \in Record /\ writer'[w].step = "drafted"
        /\ writer'[w].draft = [meta EXCEPT !.project = v]
    BY <1>2, <2>1, OtherFieldSet
  <2>3. Kind[w] = "tool"
    BY <1>9 DEF Assign, Begins
  <2>4. Intended(w)'
    BY <1>0, <2>2, <2>3 DEF Intended
  <2> QED
    BY <1>0, <2>2, <2>4 DEF Meant, At
<1>10. CASE UpdateSession(w)
  <2>1. PICK keys \in SUBSET Abstract!SharedKeys, n \in Indices :
          Read(w, "drafted", Abstract!Merged(meta, keys, n))
    BY <1>0, <1>10, UpdateFacts
  <2>2. /\ meta \in Record /\ writer'[w].step = "drafted"
        /\ writer'[w].draft = Abstract!Merged(meta, keys, n)
    BY <1>2, <2>1, MetadataMerged
  <2>3. Kind[w] = "tool"
    BY <1>0, <1>10, UpdateFacts DEF Begins
  <2>4. Intended(w)'
    BY <1>0, <2>2, <2>3 DEF Intended
  <2> QED
    BY <1>0, <2>2, <2>4 DEF Meant, At
<1>5. CASE AdvanceStart(w)
  <2>1. /\ Read(w, "drafted", [meta EXCEPT !.start = writer[w].upTo])
        /\ Kind[w] = "clear"
    BY <1>0, <1>5 DEF AdvanceStart, KindInv, At
  <2>2. /\ meta \in Record /\ writer'[w].step = "drafted" /\ messages' = messages
        /\ writer'[w].draft = [meta EXCEPT !.start = writer[w].upTo]
    BY <1>0, <1>2, <2>1, StartSet
  <2>3. writer[w].upTo \in 0 .. messages'
    BY <1>0, <2>2
  <2>4. Intended(w)'
    BY <1>0, <2>1, <2>2, <2>3 DEF Intended
  <2> QED
    BY <1>0, <2>2, <2>4 DEF Meant, At
<1>6. CASE MarkArchived(w)
  <2>1. /\ Read(w, "drafted", [meta EXCEPT !.status = "archived"])
        /\ Kind[w] = "archive"
    BY <1>0, <1>6 DEF MarkArchived, KindInv, At
  <2>2. /\ meta \in Record /\ writer'[w].step = "drafted"
        /\ writer'[w].draft = [meta EXCEPT !.status = "archived"]
    BY <1>2, <2>1, OtherFieldSet
  <2> QED
    BY <1>0, <2>1, <2>2 DEF Meant, Intended, At
<1>7. CASE ReadForCount(w)
  <2>1. Read(w, "read", meta)
    BY <1>7 DEF ReadForCount
  <2>2. meta \in Record /\ writer'[w].step = "read" /\ writer'[w].draft = meta
    BY <1>2, <2>1
  <2> QED
    BY <1>0, <2>2 DEF Meant, At
<1>8. CASE CountMessages(w)
  <2>1. /\ writer'[w].step = "drafted" /\ At(w, "read") /\ messages' = messages
        /\ writer'[w].draft = [writer[w].draft EXCEPT !.count = messages]
    BY <1>0, <1>8, WriterFacts DEF CountMessages, TypeOK, InWindow
  <2>2. meta \in Record /\ writer[w].draft = meta /\ Kind[w] = "runner"
    BY <1>0, <2>1 DEF OpsInv, IntentInv, Meant, InWindow, KindInv, At
  <2> QED
    BY <1>0, <2>1, <2>2 DEF Meant, Intended, At
<1> QED
  BY <1>1, <1>3, <1>4, <1>5, <1>6, <1>7, <1>8, <1>9, <1>10 DEF Prepare

\* Steps that replace no record leave what is meant as it is.
LEMMA MeantKept ==
  ASSUME NEW u \in Writers, UNCHANGED <<meta, messages>>,
         writer'[u].draft = writer[u].draft, At(u, "read")' <=> At(u, "read"), Meant(u)
  PROVE  Meant(u)'
BY DEF Meant, Intended, At

LEMMA IntentNext == OpsInv /\ [Next]_vars => IntentInv'
<1> SUFFICES ASSUME OpsInv, [Next]_vars, ~raced', NEW u \in Writers, InWindow(u)'
             PROVE  Meant(u)'
  BY DEF IntentInv
<1> USE DEF OpsInv, ReadInv
<1>1. ASSUME NEW w \in Writers, Prepare(w) PROVE Meant(u)'
  <2>1. ~raced /\ (u # w => writer'[u] = writer[u])
    BY <1>1, PrepareFacts
  <2>2. CASE u = w
    BY <1>1, <2>1, <2>2, OwnMeant
  <2>3. CASE u # w
    BY <1>1, <2>1, <2>3, OthersMeant DEF IntentInv, InWindow
  <2> QED
    BY <2>2, <2>3
<1>2. ASSUME NEW w \in Writers, OpenTmp(w) PROVE Meant(u)'
  <2>1. ~raced /\ UNCHANGED <<meta, messages>>
    BY <1>2 DEF OpenTmp
  <2>2. /\ writer'[u].draft = writer[u].draft /\ (At(u, "read")' <=> At(u, "read"))
        /\ InWindow(u)
    BY <1>2, OpenFacts DEF At, InWindow
  <2> QED
    BY <2>1, <2>2, MeantKept DEF IntentInv
<1>3. ASSUME NEW w \in Writers, WriteTmp(w) PROVE Meant(u)'
  <2>1. ~raced /\ UNCHANGED messages
    BY <1>3 DEF WriteTmp
  <2>2. UNCHANGED meta
    BY <1>3, <2>1 DEF WriteTmp, FilesInv
  <2>3. /\ writer'[u].draft = writer[u].draft /\ (At(u, "read")' <=> At(u, "read"))
        /\ InWindow(u)
    BY <1>3, WriteFacts DEF At, InWindow
  <2> QED
    BY <2>1, <2>2, <2>3, MeantKept DEF IntentInv
<1>4. ASSUME NEW w \in Writers, Rename(w) PROVE Meant(u)'
  <2>1. CASE tmp # Absent
    <3>1. u # w
      BY <1>4, <2>1, RenameFacts, WriterFacts DEF InWindow
    <3>2. InWindow(u) /\ ~InWindow(u)
      BY <1>4, <2>1, <3>1, RenameFacts DEF InWindow
    <3> QED
      BY <3>2
  <2>2. CASE tmp = Absent
    <3>1. /\ writer' = [writer EXCEPT ![w] = NoWrite]
          /\ ~raced /\ UNCHANGED <<meta, messages>>
      BY <1>4, <2>2 DEF Rename
    <3>2. u # w
      BY <3>1, WriterFacts DEF InWindow, TypeOK
    <3>3. writer'[u] = writer[u]
      BY <3>1, <3>2 DEF TypeOK
    <3> QED
      BY <3>1, <3>3, MeantKept DEF IntentInv, InWindow, At
  <2> QED
    BY <2>1, <2>2
<1>5. CASE CreateOpens \/ CreateWrites
  BY <1>5 DEF CreateOpens, CreateWrites, KindInv, InWindow
<1>6. CASE Restart
  BY <1>6, WriterFacts DEF Restart, InWindow
<1>7. CASE UNCHANGED vars
  BY <1>7, MeantKept DEF vars, IntentInv, InWindow, At
<1> QED
  BY <1>1, <1>2, <1>3, <1>4, <1>5, <1>6, <1>7 DEF Next, Write, Prepare

LEMMA OpsHold == Spec => []OpsInv
<1>1. Init => OpsInv
  BY BoundInit, ReadInit, KindInit DEF OpsInv
<1>2. OpsInv /\ TypeOK' /\ [Next]_vars => OpsInv'
  BY BoundNext, ReadNext, KindNext, IntentNext DEF OpsInv, ReadInv
<1> QED
  BY <1>1, <1>2, TypeHolds, PTL DEF Spec

\* A rename that crossed no other writer is one of the operations.
LEMMA RenameIsAtomic ==
  ASSUME OpsInv, NEW w \in Writers, Rename(w), ~raced'
  PROVE  Abstract!Next \/ UNCHANGED <<Shown, messages>>
<1> USE DEF OpsInv, ReadInv
<1>1. CASE tmp = Absent
  BY <1>1 DEF Rename, Shown
<1>2. CASE tmp # Absent
  <2>1. /\ At(w, "written") /\ UNCHANGED messages
        /\ meta' = tmp /\ ~raced /\ \A u \in Writers \ {w} : ~InWindow(u)
    BY <1>2, RenameFacts DEF Rename
  <2>2. Alone(w)
    BY <2>1 DEF Alone, FilesInv, InWindow, Opened
  <2>3. tmp = writer[w].draft /\ writer[w].draft \in Record
    BY <2>1, <2>2 DEF FilesInv, TypeOK, Opened, At
  <2>4. Meant(w) /\ ~At(w, "read")
    BY <2>1 DEF IntentInv, InWindow, At
  <2>5. Shown = meta /\ Shown' = writer[w].draft /\ Shown # Absent /\ Intended(w)
    BY <2>1, <2>3, <2>4, FileAssumption DEF Shown, Meant
  <2>6. \/ Abstract!AddTokens \/ Abstract!CountMessages \/ Abstract!Clear
        \/ Abstract!Route \/ Abstract!Assign \/ Abstract!Merge
        \/ Abstract!Archive
    BY <2>5 DEF Intended, Abstract!AddTokens, Abstract!CountMessages, Abstract!Clear,
                Abstract!Route, Abstract!Assign, Abstract!Merge, Abstract!Archive
  <2> QED
    BY <2>1, <2>5, <2>6 DEF Abstract!Next
<1> QED
  BY <1>1, <1>2

LEMMA StepIsAtomic ==
  ASSUME OpsInv, [Next]_vars
  PROVE  raced' \/ Abstract!Next \/ UNCHANGED <<Shown, messages>>
<1> USE DEF OpsInv, ReadInv
<1>1. ASSUME NEW w \in Writers, Prepare(w)
      PROVE  Abstract!Next \/ UNCHANGED <<Shown, messages>>
  <2>1. UNCHANGED meta /\ messages' \in {messages, messages + 1}
    BY <1>1, PrepareFacts, MessagesFacts
  <2> QED
    BY <2>1 DEF Shown, Abstract!Next, Abstract!Append
<1>2. ASSUME NEW w \in Writers, OpenTmp(w) PROVE UNCHANGED <<Shown, messages>>
  BY <1>2 DEF OpenTmp, Shown
<1>3. ASSUME NEW w \in Writers, WriteTmp(w)
      PROVE  raced' \/ UNCHANGED <<Shown, messages>>
  BY <1>3 DEF WriteTmp, Shown, FilesInv
<1>4. CASE CreateOpens
  BY <1>4, FileAssumption DEF CreateOpens, Shown, KindInv
<1>5. CASE CreateWrites
  <2>1. Shown = Absent /\ Shown' = Abstract!NewRecord /\ UNCHANGED messages
    BY <1>5, NewRecordType DEF CreateWrites, Shown, KindInv
  <2> QED
    BY <2>1 DEF Abstract!Next, Abstract!Create
<1>6. CASE Restart \/ UNCHANGED vars
  BY <1>6 DEF Restart, vars, Shown
<1> QED
  BY <1>1, <1>2, <1>3, <1>4, <1>5, <1>6, RenameIsAtomic DEF Next, Write, Prepare

\* Each operation of a writer takes effect at its rename, as one step on the
\* record, as long as no record is replaced in its back.
THEOREM RecordIsAtomic == Spec => AtomicUnlessRaced
<1>1. OpsInv /\ [Next]_vars => [raced' \/ Abstract!Next]_<<Shown, messages>>
  BY StepIsAtomic
<1> QED
  BY <1>1, OpsHold, PTL DEF Spec, AtomicUnlessRaced
=============================================================================
