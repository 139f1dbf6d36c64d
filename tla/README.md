# Verification of the ozzie agent runtime

ozzie is an assistant gateway: clients and connectors send user messages over
WebSocket, an event runner hands each of them to an agent loop (ReAct: call the
model, run the tools it asks for, repeat), and replies go out as events.  This
directory holds TLA+ modules of the parts where tasks interact, the TLC
configurations that check them on small instances, and TLAPS proofs of what
matters most for instances of any size.

Run TLC with `tlc -workers 2 -config <run>.cfg <Module>.tla` and the prover with
`tlapm <Module>Proofs.tla`.

## 1. Inventory

Paths are relative to `src/crates` unless they start with `src/`.  *Modelled in*
names the modules.

| Component | State | Operations and interactions | What is hard | What makes it correct | Modelled in |
|---|---|---|---|---|---|
| Event runner (`ozzie-runtime/src/event_runner.rs`) | one subscription of the bus, the registry's runtimes | `run_loop` receives `UserMessage` events and calls `dispatch_user_message`, which spawns `handle_user_message` or buffers the text; `cancel_session`; `handle_connector_message` publishes the user message of a connector | the dispatcher and the handlers share one runtime record with no common lock; the channel may lag; a handler may fail or panic anywhere | one loop per conversation; no message duplicated; persisted in arrival order; every turn replies and ends; cancel reaches the running loop | ConversationDispatch, ConversationRegistry (connector messages), ConversationStore (record updates) |
| Conversation runtime (`conversation_runtime.rs`) | active flag, pending buffer, cancel token | `is_active`, `set_active`, `push_pending`, `drain`, `reset`, `cancel` | each field is protected alone | as above | ConversationDispatch |
| ReAct loop (`react.rs`) | chat, turn counter, token and time budget | drains the buffer, calls the model under a timeout, runs the tools | cancellation between steps; panic in result compaction | ends within the turn limit; replies | ConversationDispatch |
| Event bus (`ozzie-core/src/events/bus.rs`) | broadcast channels, a history ring | `publish`, `subscribe`, `subscribe_filtered`, `history` | a lagging receiver loses the oldest events silently | what is not lost keeps its order | ConversationDispatch (the dispatcher's channel), ToolApproval (prompts and responses) |
| Actor pool (`ozzie-core/src/actors/pool.rs`) | a semaphore per provider, the status of each actor, cooldowns | `acquire`, `release`, `set_cooldown`, `clear_cooldown`; slots dropped by unwinding | capacity is recorded twice; unbounded wait | permits conserved; an actor serves one task; whoever gets a permit gets an actor; the queue is served | ActorPool |
| Circuit breaker, fallback provider (`ozzie-llm/src/resilience.rs`, `fallback.rs`) | state behind a mutex, failure count in an atomic | `allow`, `record_success`, `record_failure`; `chat` on primary or fallback | two-step reports interleave; a dropped call reports nothing | one probe at a time; the primary is retried after the cooldown | FallbackProvider |
| Conversation registry (`conversation_registry.rs`) | runtimes, connector bindings, the focused conversation | `resolve_or_create_for_coord`, `create_conversation`, `touch`, `set_active`, `archive`, `bootstrap_active_from_store` | check and act around awaits; rebuilding after a restart from records that may not parse; names from an adjective-noun list | one conversation per coordinate; an archived one runs nothing | ConversationRegistry |
| Conversation store, cost tracker (`file_conversation_store.rs`, `cost_tracker.rs`) | `meta.json` and `messages.jsonl` per conversation | `create`, `get`, `update`, `append_message`, `archive`; the loop's end, the tracker, connectors, clears, closes and tools write | read-modify-write with no lock; one temporary file for all; a tool that may set the others' keys; crash | no update lost; a readable directory after a crash | ConversationStore, ConversationRecord |
| Tool approval (`approval.rs`, `ozzie-core/src/conscience/`) | prompts waiting on the bus, session permissions | wrapper asks, client answers | wait without timeout, lagging channel, parallel calls of one tool | no tool runs unapproved; an answer settles its prompt only | ToolApproval |
| Scheduler (`scheduler/runner.rs`, `cron.rs`, `ozzie-core/src/domain/schedule.rs`) | entries with run counts and last run | cron, interval, event and manual triggers | missed and doubled ticks, lag, limits on the several ways to trigger | run limit and cooldown respected | Scheduler |
| Connector supervisor (`connector/supervisor.rs`) | a table of status and child process | `start_all`, `start_one`, `monitor`, `stop_one`, `stop_all` | the lock is free between decision, start and record; kills fail; the gateway may end without `stop_all` | one process per connector; a stopped one stays stopped | ConnectorSupervisor |
| Pairing (`pairing_manager.rs`, `ozzie-core/src/policy/pending.rs`, `json_pairing_store.rs`, `json_device_store.rs`) | pending requests, stored pairings and devices | request, approve, reject, expiry | two writes, memory before disk | an approved pairing survives; an expired one cannot be approved | not modelled |
| Gateway hub and handlers (`ozzie-gateway`) | connections and the conversation each has open | requests in, events out, `bridge_events` | the bridge lags; a prompt reaches who is there at that moment | an answer finds its prompt | ToolApproval (bind, disconnect, bridge, `prompt_response`, `accept_all`), ConversationRegistry (open, send, new, switch, close), ConversationDispatch (Send, Cancel) |
| Wiring, subtasks (`ozzie-cli/src/commands/gateway.rs`) | – | scheduled tasks take a slot, subtasks run within their parent's; start-up and shutdown order of connectors | – | – | ActorPool, FallbackProvider, ConnectorSupervisor |
| Skill workflows (`ozzie-core/src/skills`, `src/worm/worm-skills`) | a DAG of steps | waves of ready steps | cycles | a step runs after all it depends on | not modelled |
| Context window, tool tiers, native tools, MCP, providers, memory, dream, heartbeat, blobs, client library, bridges, TUI and CLI, sandbox, profiles, protocol types | see PROJECT.json | sequential I/O, text processing or user interface | – | – | the tools that write a conversation's record (ConversationStore) and the schedule tools (Scheduler); PROJECT.json says why not, for the rest |

The hazards of the code, each with its line and the properties that cover it, or
why none does, are listed in PROJECT.json under "hazards".

How a message travels: a client's `send_message` (or a connector's message) is
published on the bus; `run_loop` takes it from its channel, looks at the
conversation's active flag and either pushes it on the pending buffer or resets
the runtime, raises the flag and spawns a handler.  The handler stores the
message, loads the history, takes a slot of the actor pool, and runs the ReAct
loop, whose every model call goes through a provider that may be a
FallbackProvider.  Before each call the loop drains the buffer into the chat.
The reply is published and stored, the flag cleared, and what is left in the
buffer is published again.

Around that path: a connector's message first has its coordinate resolved to a
conversation (registry), and leaves its policy and reply channel in the
conversation's record (store); the end of a turn, the cost tracker and several
requests and tools rewrite the same record.  A dangerous tool stops the loop
until a client has answered its prompt (approval).  The scheduler starts tasks
that take slots of the same pool.  The supervisor runs the connector processes
the messages come from.

## 2. Plan

Written, in this order, each with its runs and proofs:

1. **ConversationDispatch** with the abstract **ConversationTurns**: the message
   path, its refinement and its liveness.
2. **FallbackProvider**: the circuit breaker under concurrent calls.
3. **ActorPool**: semaphore and table.
4. **ConversationStore** with the abstract **ConversationRecord**: the writers of
   a conversation's record, and crashes.
5. **ConversationRegistry**: first contact, close against a running loop, restart.
6. **ToolApproval**: prompts and answers over lagging channels.
7. **Scheduler**: the four ways to fire an entry.
8. **ConnectorSupervisor**: start, monitor and stop of processes.

Every module stands on what the others promise: the registry takes reading and
replacing a record for one step each, which is what ConversationStore looks
into; the dispatcher takes the pool and the provider for outcomes; the approval
takes the loop for a task that calls one tool at a time.

What is left.  Every invariant, action property and refinement of the passing
runs is a theorem; the seven liveness properties are not.  Modules: pairing with
failing saves, and the waves of a skill's DAG as a pure algorithm against
reachability; both are sequential code.

## 3. What is modelled

### ConversationDispatch (and MCConversationDispatch)

Each access to a field of `ConversationRuntime` is a step of its own, since the
fields are protected one by one and the tasks run on a multi-threaded executor.

| Module | Code |
|---|---|
| `bus`, `skipped` | the broadcast channel of `run_loop`'s subscription; a full channel drops its oldest event |
| `active`, `pending`, `token` | the fields of `ConversationRuntime`; a token is named by the message whose dispatch created it |
| `dispatcher`: Receive, CheckActive, PushPending, Reset, Spawn | `run_loop`'s arm and `dispatch_user_message`, one step per await-free access; a message without text (`NoText`: images only) is dropped before the flag is read |
| `handler[m]`: PersistUserMessage … Republish | the spawned task: `handle_user_message`, `process_with_tools` / `process_without_tools`, `ReactLoop::run_inner`, `finalize_response`, then `set_active(false)`, the last drain and the re-publication |
| `history` | the messages file; an append may fail, and the code only logs it |
| Send, Cancel | a client's or connector's message, `cancel_session` |
| `sent`, `discarded`, `earlier` | ghosts: what was published, what `reset` or the check for text threw away, the order of arrival |

Abstracted: the text of messages, compression and prompt composition (part of
LoadHistory: it works or it fails), tool execution (one step), token and time
budgets (either may stop the loop at the place where the code looks at it), and
the pool and the provider, which have modules of their own.  A panic is modelled
where the code has one: the cut of a long tool result at a byte that is not a
character boundary (ToolPanics).

`cancel_session` is public and modelled as such; the gateway as it is wired does
not pass a cancel function to its hub, so in that build no Cancel step happens.
The safety properties hold with and without it.

**ConversationTurns** is what the message path promises: a conversation works on
one turn at a time, a waiting message opens a turn or joins the running one, a
message taken into a turn is never lost, a turn replies before it ends, and only
a waiting message may be lost.  `ImplementsTurns` is the refinement,
checked and proved; the mapping (`StageOf`, `TurnOf`, in ConversationDispatch)
reads the turn off the handler that owns the conversation.

### FallbackProvider (and MCFallbackProvider)

`caller[t]` is the call each task makes.  `allow` is one critical section;
`record_success` and `record_failure` are two steps each (the atomic, then the
mutex).  GiveUp is a dropped future: the loop runs `chat` under
`tokio::time::timeout`.  `failures` saturates at the threshold, because the code
only compares it.  `cooled` abstracts `opened_at.elapsed() >= cooldown`.
`straggled` and `lost` are ghosts that name the two ways in which the breaker's
own rule is bent: a call admitted earlier reports while the circuit is half
open, and a probe is dropped.

### ActorPool (and MCActorPool)

`permits` and `waiters` are a tokio semaphore (external: fair, a returned permit
goes to the oldest waiter), `busy` is the table of actors.  `acquire` looks at
the cooldown, takes a permit or queues, and marks an actor; `release` marks and
then drops the permit.  Panic is a slot dropped by unwinding, which returns the
permit and leaves the actor busy.  Handlers that are refused go on without a
slot (`unheld`), scheduled tasks give up.

### ConversationStore (and MCConversationStore)

| Module | Code |
|---|---|
| `meta`, `tmp`, `messages` | `meta.json`, `meta.json.tmp` and the lines of `messages.jsonl` of one conversation |
| CreateOpens, CreateWrites | `create`: `std::fs::write` in place |
| AddTokens | `CostTracker::handle_event` |
| BeginTurn, StoreAnswer, ReadForCount, CountMessages | the appends of a turn and the end of `finalize_response`; read and draft are apart because the messages are loaded in between |
| Route | `handle_connector_message`: policy, connector, reply channel, the last two only where there are none |
| Measure, AdvanceStart | `handle_conversation_clear`, which counts the messages before it reads the record, and takes 0 if it cannot |
| Assign | `open_project`, `close_project` |
| UpdateSession | `update_session`, which merges whatever metadata the model chose, the keys of clear and Route included (`SharedKeys`) |
| CheckIdle, MarkArchived | the check in `ConversationRegistry::archive`, then `archive` of the store |
| OpenTmp, WriteTmp, Rename | `update`: `fs::write` of the temporary file (truncate, then write) and `fs::rename` |
| Restart | the gateway dies anywhere; files stay, tasks do not |

All writers use one name for the temporary file.  A writer writes through the
file it opened, so when another one renames that file its text lands in
`meta.json`, or, after a further rename, in a file that has no name: `file`
follows it.  A text over another one may leave the end of the longer one (`Torn`).
`raced` is a ghost: a record was replaced between another writer's read and its
write.  `reported` counts what the tracker took into a record.  Token counts
are one per model call.  The metadata is what somebody relies on: `start`
(`history_start_index`) and `route` (`connector`, `reply_channel_id`), which
`update_session` may set to anything; `Indices` are the numbers it may be given
for the first, and `told` is a ghost of those it was.  The third shared key,
`connector_coord`, is the registry's and modelled there.

**ConversationRecord** is what each writer counts on: operations are atomic, and
each changes what it is about and leaves the rest; what `update_session` is about
is for the model to say (Merge).  `AtomicUnlessRaced` says that the files
implement it for as long as no two writers cross; `RecordIsReadable` and
`NothingIsInvented` say what still holds when they do.

### ConversationRegistry (and MCConversationRegistry)

| Module | Code |
|---|---|
| `record` | status and coordinate of each conversation in the store; `Torn` when its `meta.json` does not parse |
| `bindings`, `active`, `runtimes` | the three tables of `ConversationRegistry`, each under its own lock |
| LookUp, Verify, Unbind, Create, Bind | `resolve_or_create_for_coord`, one step per lock or await; if the bound record cannot be read the message is dropped |
| Touch, Keep, Publish | the rest of `handle_connector_message`: touch and focus, the record read and written back, the user message published |
| ReadToUpdate, Update | `update_session`, which a loop calls: the metadata it merges may hold another `connector_coord` |
| EndTurn, FinishTurn | `finalize_response` reads the record and writes it back |
| Replace, Crossing | `update` of the store: if two tasks hold a copy of one record, what is left may be the new text, the old one or neither |
| Send, Open, SwitchTo | `send_message`, `open_session` and `create_conversation`, `switch_conversation` |
| Close, ReadToArchive, Archive, ClearFocus | `archive`: the check that no loop runs, the store's read and write, the focus |
| Restart, RestartBlind | `bootstrap_active_from_store`: each coordinate is bound to its last conversation in the order of `list()`, archived or not; nothing is bound when `list()` fails, which one torn record, also one whose creation the stop cut short, is enough for |

The code picks names from word lists; a name is compared with the runtimes (by
`open_session` with nothing), so it may be one that exists on disk: `Ids` is
small so that this happens.  Six ghosts name what can break a coordinate's
thread: `reused` (a name was taken twice), `crowded` (two handlers resolved one
coordinate at once), `overlapped` (a writer of the record crossed a close),
`misled` (a restart chose an archived conversation), `unlisted` (a restart could
not read a record) and `retagged` (`update_session` changed a coordinate).
`unarchive` and `delete` have no caller in the program.  Left to ConversationStore
are the file steps of a replacement and the remaining writers (tracker, clear,
projects): they change neither status nor coordinate, but like FinishTurn they may
write an old record back over a close, so `overlapped` is to be read as any
writer of the record.  The file system itself does not fail.

### ToolApproval (and MCToolApproval)

| Module | Code |
|---|---|
| `allowed` | `ToolPermissions`: names allowed for a conversation, or all |
| Call, Finish | `DangerousToolWrapper::run`; a loop runs its tools one after the other |
| Subscribe, Publish, Skip, Take | `request_approval`: the channel is opened, the prompt published, responses to other prompts skipped, the first one to this prompt obeyed |
| Forward, Lag | `bridge_events` and `send_to_session`: the clients that have the conversation open at that moment |
| Bind, Disconnect | `open_session` and the end of a connection |
| `inbox`, `shown` | the prompts that a client has and has not answered; those that any client was sent, whose tokens may be used again |
| Answer | `handle_prompt_response`: any client, any token it may have seen, in any order and as often as it likes; a response event to every open channel; a full channel loses its oldest |
| AcceptAll | `handle_accept_all`, for any conversation |

`lost` collects prompts (or their responses) dropped at one of four places: the
bridge lagged, nobody had the conversation open, the last client that held the
prompt left before anybody answered, or the loop's channel overflowed.  There is no timeout in the code,
and a cancel request does not end a waiting prompt, so there is none here.
Scope: tools that the event runner and its sub-agents wrap.  Loops of scheduled
tasks and subtasks take tools from the registry as they are.

### Scheduler (and MCScheduler)

`entries` is the scheduler's table, `now` the clock in ticks of the interval
timer (a second), `cronDue` and `tickDue` the instants of the two tokio timers,
which deliver missed ticks in a burst.  CronTick, IntervalTick and HandleEvent
are `check_cron`, `check_intervals` and `check_events`, each with the checks of
flag, cooldown and limit and the update of the entry; TriggerEntry is
`trigger_entry`, which looks at the flag only; Create and Remove are the tools'
calls.  An identifier is the millisecond of its creation, so Create may take the
place of an entry that was made at the same instant.  One task runs the first three, so it can be late (`MaxLate`), never
concurrent with itself.  `history` is a ghost: when each entry fired and how.  A
cron expression is the set of minutes it matches.  The clock's grain is the tick:
a delay of less than a second counts as none or as a whole one.  `set_enabled` and `stop` have
no caller in the program.  What a firing starts is a task of ActorPool.

### ConnectorSupervisor (and MCConnectorSupervisor)

`entry` is the table: status, child, and whether the restart cooldown has
passed.  `starter` is the task that starts processes, `start_all` first and the
monitor afterwards.  StartNext, Starting, Spawn (or SpawnFails) and Record (or
RecordFailure) are the sections of `start_one` with the lock and without it;
Round, Check and CoolDown the monitor; StopOne is `stop_one`, under the lock
throughout, and may run between any two of the others; it lets go of the child
also when the kill fails.  CheckFails is a `try_wait` that cannot tell.  Exit ends
the gateway, whose processes are not killed with it, at any moment: `run` returns
by `?` after the connectors were started (`gateway.rs:257`), and of the signals
only Ctrl+C is handled.  Crash is a process that ends by itself.  `crossed` and
`unkilled` are ghosts: connectors stopped while they were being started, and
processes whose kill failed.

## 4. Runs

| Run | Instance | Question |
|---|---|---|
| `dispatch_safety` | 3 messages and one without text, 1 conversation, channel of 2, 2 turns; messages with text symmetric | exclusion, cancel, order, conservation, refinement (155,337 states) |
| `dispatch_live` | 3 messages, 1 turn | every turn ends, buffers are emptied, every message settles (91,984 states) |
| `dispatch_lost` | the same | violation: a buffered message is discarded by the next dispatch |
| `fallback_provider` | 3 callers, threshold 2 | one probe, half-open is awaited, the circuit comes back (51,367 states) |
| `fallback_stuck` | the same | violation: a dropped probe leaves the circuit half open |
| `actor_pool` | providers of 1 and 2 slots, 3 tasks, 1 scheduled | conservation, exclusiveness, agreement of the books, queue served (20,745 states) |
| `actor_pool_dropped` | the same | violation: a dropped slot does not release its actor |
| `conversation_store` | one writer of each of the 6 kinds, 3 operations, 1 crash | readable, nothing invented, atomic unless raced (175,904 states) |
| `conversation_registry` | 3 names, 2 coordinates, 2 handlers, 1 close request, 3 arrivals, 1 restart; handlers and coordinates symmetric | no shared thread, one open thread, routes survive a restart that can read the store (1,634,217 states) |
| `tool_approval` | 2 conversations, 1 tool, 2 clients, channel of 2, 2 calls, 2 binds, 3 answers | only granted tools run, no prompt vanishes, the first answer decides, answered prompts settle (515,206 states) |
| `scheduler` | a cron, an interval and an event entry of which 2 exist, a minute of 3 ticks, lateness 1, 8 ticks, 1 manual run | limit, spacing, pace (about 3.7 million states) |
| `connector_supervisor` | 2 connectors, 1 of them restarted, 4 processes | one process each, stops hold, crashed ones come back (46,755 states) |

Why the bounds are enough.  Three messages are one that runs, one that is
buffered or stranded, and one that resets or is buffered behind it; conversations
share only the channel, so a second one adds no interaction that a third message
in the channel does not.  (The same safety properties were also checked once with
two conversations and four messages: 4.37 million states, no violation.)  A
channel of two slots overflows with three messages; the real 256 does the same
later.  Two turns let a message be injected between two calls of the model; one
turn is enough for the liveness run.  Three callers are a probe, a straggler and
a caller that is turned away, and a threshold of two is the least for which
counting matters (the code's is three).  Slots of one and two with three tasks
give a queue, a full provider and a half-full one.

For the record: two writers make a race; a third opens the temporary file while
the first two rename it; a second crash meets nothing a first one does not.
(Four operations were checked before `update_session`'s merge was added and found
nothing more.)  Three names let a coordinate's first conversation, a second one
and a reused name coexist; two handlers of one coordinate are crowded, and three
arrivals are a first message, a close of its conversation and either the message
after it or, across the restart, another coordinate's; each of the six excuses
occurs.  (Four arrivals, checked before torn records and `update_session` were
added, showed nothing that three do not.)  Two loops and two clients give an
answer that belongs to somebody else's prompt, two answers to one prompt, and
three responses for a channel of two.  One tool is enough for prompts and answers
to cross; that a permission covers its own tool only was checked once with two
tools (878,140 states up to symmetry, the safety properties, no violation), and is
proved for any.  Eight ticks are two minutes of three ticks with their
boundaries, one limit of two runs and an expired cooldown of three.  Four processes of two
connectors leave two for restarts.

`CHECK_DEADLOCK FALSE` is set in the dispatch runs and in the five from
`conversation_store` on: messages, operations, calls, ticks and processes are
finite there, and the system rests when all are used up.

**Fairness.**  Tokio polls every ready task, so the dispatcher, each handler,
each caller and each task of the pool are weakly fair in the steps they take by
themselves.  A model call ends: the providers' HTTP clients have a timeout, and
the loop's calls a `tokio::time::timeout`.  Nothing in the code bounds a tool (an
approval prompt waits without timeout), the wait for a pool slot, or the length
of a run that holds a slot; these steps have no fairness, and the liveness
properties name the assumption they need instead (`NeverStuck`, `LoopsEnd`).  No
client is obliged to send, call or cancel anything.  In ToolApproval the hub's
bridge and the waiting loops are scheduled (Forward, Subscribe, Publish, Skip,
Take); users owe no answer and tools need not end.  In ConnectorSupervisor the
starting and monitoring steps and the passing of the cooldown are weakly fair; no
process has to crash or start successfully, and nothing forces a shutdown.  A
check of a child happens, and may fail; that it does not fail for ever is an
assumption that `CrashedComesBack` names.  The store, the registry and the
scheduler have safety properties only: `KeepsPace`
states promptness as a bound on the clock, not as an eventuality: an interval
entry is late by its loop's delay only, and a cron entry for every minute may miss
a minute because of its cooldown, and after a manual run with a longer cooldown
waits that cooldown and at most a minute more.

**Liveness in words.**  Every handler replies and gives its conversation back
unless it panicked.  A buffered message leaves the buffer of an active
conversation.  Every message is answered, joins a turn, or meets one of four
named ends: skipped by the channel, discarded by a reset (or for want of text),
stranded in an idle conversation's buffer until the next message arrives, or
buffered behind a handler that panicked.  A loop whose prompt was answered goes on unless the
answer was dropped.  A connector that is to be restarted and is down is started
again, or the gateway ends.

Every property of a passing run has a mutant in PROJECT.json: a plausible bug
in one operation (defined as an operator next to the one it alters, "Mutant:")
under which TLC finds that property violated.

## 5. Proofs

Proved by TLAPS for any sets of conversations, messages, callers, providers,
writers, coordinates, names, tools, clients, entries, connectors and processes,
any capacities, limits and bounds, and any finite set of tasks of the pool, from
the named assumptions on the constants only (`DispatchAssumption`,
`ThresholdAssumption`, `PoolAssumption`, `WritersAssumption`, `IndicesAssumption`,
`BoundsAssumption`, `FileAssumption`, `RegistryAssumption`, `RecordAssumption`,
`ApprovalAssumption`, `SchedulerAssumption`, `SupervisorAssumption`).  They say that kinds of values
are distinct and numbers are numbers; `WritersAssumption` adds that there is one
cost tracker and one loop per conversation (LoopExclusion), `RegistryAssumption`
that any set of names has a last one, and `SchedulerAssumption` that an interval
entry has an interval (`schedule_task` rejects less than five seconds).

**ConversationDispatchProofs.**
- `TypeCorrect`: `Spec => []TypeOK`.  The induction is over `TypeInv`, which adds
  that a handler awaiting the model is below its turn limit: without it the
  counter could leave its range.
- `LoopExclusion`: `Spec => []OneLoopPerConversation`.
- `CancelReachesLoop`: `Spec => []CancelHitsTheRunningLoop`.

The last two rest on one inductive invariant, `ExclusionInv`.  The flag is read,
reset and raised in three steps, so exclusion does not follow from the flag
alone.  The invariant adds what holds in between: from the step in which the
dispatcher saw the flag down until it spawns, the flag of that conversation is
down, hence (a raised flag and an owner imply each other) the conversation has no
owner that the new handler could collide with, and once `reset` was executed the
conversation's token is the new message's.  It is preserved because only the
dispatcher raises a flag or takes ownership, and a handler gives up ownership
and clears the flag in one step; the lemma on `HandlerFrame` states what a
handler's step can disturb at all.

- `Conservation`: `Spec => []MessagesConserved`, by `ConservationInv`: the set of
  places a message is in has one element once it is published and none before
  (`OnePlace`), no buffer or batch holds a message twice or one of another
  conversation, no two batches share one, and a handler has a batch only while it
  injects or publishes again (`Buffers`).  Each hand-over removes the message from
  the place it adds it to another; distinctness is what makes removing the head of
  a sequence remove the message.
- `DispatchImplementsTurns`: `Spec => ImplementsTurns`, by `TurnsInv`, the
  conjunction of the types, exclusion, conservation and `AnswerInv` (a handler
  replies in the step before it gives up its conversation, and once).
  Conservation gives the stage of a message as a function of its place, exclusion
  the turn of a conversation; with these, a publication is Submit, the spawn of a
  handler Open, each injected message Join, publishing the answer Reply, clearing
  the flag End and a reset Lose, and all other steps change nothing there.
- `TurnsContiguous`: `Spec => []TurnsDoNotInterleave`, by `FileInv`: as long as a
  turn owns its conversation nothing follows its entries but its own, so the one
  who appends (the owner) never reopens an earlier turn.
- `ArrivalOrder`: `Spec => []PersistedInArrivalOrder`, by `ArrivalInv`.  A user
  message reaches the file by way of the dispatcher, the buffer, and a handler or
  its batch.  `Stations` orders these: what is persisted was received before what
  a handler holds, that before what is buffered, and that before the message the
  dispatcher holds; `Queues` orders the sequences within.  A message that is
  published again after the last drain leaves all stations and is ordered anew
  when it is received again, which is why arrival means the last one.

**FallbackProviderProofs.**
- `OneProbe`: `Spec => []OneProbeAtATime`, by `ProbeInv`: a caller that turned to
  the fallback or ended is no probe any more, and without a straggler every
  change of a half-open circuit is made by the probe itself.
- `HalfOpenAwaited`: `Spec => []HalfOpenIsAwaited`.

**ActorPoolProofs.**
- `ActorsExclusive`: `Spec => []ActorsAreExclusive`.
- `Conservation`: `Spec => []PermitsConserved`.
- `PermitsFindActors`: `Spec => []PermitFindsActor`.

All three rest on `PoolInv`: an actor that a task holds is busy, of the task's
provider and held once, and a queue contains tasks that wait for its provider,
each once (without it, a returned permit could wake a task that is running).
PermitFindsActor is not inductive: between `release`'s two steps the table is
ahead of the semaphore.  `BooksAgree` counts exactly: a provider whose slots were
all released has as many idle actors as permits that are free or owned by a task
that has not marked an actor or has unmarked it again.  The counting proofs go
through one lemma (`BooksNext`) that says in which five ways a step can touch a
provider's books: a take, a mark, an unmark, a return, and a hand-over from the
task that leaves to the task that waited longest.

`TypesCorrect` of FallbackProviderProofs and of ActorPoolProofs is the type
invariant of each.

**ConversationStoreProofs.**
- `TypesCorrect`: `Spec => []TypeOK`.
- `NothingInvented`: `Spec => []NothingIsInvented`, by `BoundInv`: what holds of
  `meta.json` must hold of the temporary file and of every writer's copy too,
  since any of them may become `meta.json` at any later time.  A start of the
  history beyond the messages must be one of `told`, which only grows.
- `RecordReadable`: `Spec => []RecordIsReadable`, by `ReadInv`: a writer
  that has the temporary file open alone finds there what it wrote (`FilesInv`),
  and whoever has another file open was overtaken by a rename, which is a race.
- `RecordIsAtomic`: `Spec => AtomicUnlessRaced`, the step simulation of
  ConversationRecord, `update_session`'s Merge included.  Reads and file operations stutter; a rename is the
  writer's own operation, because of `OpsInv`: without a race, what a writer is
  going to write is the *current* record after its operation (`Meant`, `Intended`).

**ConversationRegistryProofs.**
- `TypesCorrect` and `ThreadsApart` (`Spec => []ThreadsAreNotShared`), both by
  `RefInv`: whatever refers to a conversation refers to a record that exists, and
  the record together with every copy that somebody may write back (`Versions`,
  and `Asked` of a close) carries the coordinate it is referred to by, as long as
  no name was used twice and no coordinate changed (`Steady`).  The strengthening
  is needed because a stale copy could otherwise move a conversation to another
  coordinate, also one that replaces a torn record.
- `OneThreadEach`: `Spec => []OneOpenThread`, by `OpenInv`: `RefInv`, and unless
  one of the six excuses happened, what a handler knows at each of its steps
  still holds (`ResolveOK`: the binding it looked up stands; once it gave that up
  no thread is open; once it created one no other is), no coordinate is resolved
  twice at once (`Alone`), an open thread is bound or about to be (`RouteOK`), and
  all versions of a record are open or all are closed (`AgreeOK`).  A thread
  counts as open if any of its versions is, so that a torn record that a writer
  is about to replace is not forgotten.  The excuses are latched, so the step
  that breaks one of these raises its excuse.
- `RoutesSurvive`: `Spec => RestartKeepsRoutes`, an action property: with every
  record readable, `RefInv` puts a bound conversation among its coordinate's
  records, from which the rebuilt binding is chosen; otherwise nothing is bound.

**ToolApprovalProofs.**
- `TypesCorrect`: `Spec => []TypeOK`.
- `GrantedRuns`: `Spec => []RunsOnlyWhenGranted`, by `GrantInv` with
  `WordsAreReal`: responses in the channels were given by users, and every
  permission of a conversation rests on an answer or an accept-all there.
- `PromptsAreSomewhere`: `Spec => []PromptIsSomewhere`, inductive with the types.
- `FirstAnswers`: `Spec => FirstAnswerDecides`, an action property, by
  `AnswerInv`: the channel of a loop that listens holds the last of all the
  answers given, in their order, and none of the earlier ones was to the loop's
  prompt unless that was dropped (`ChannelOK`), because prompts are numbered and
  nobody sees or answers one before it is published (`ShownOK`, `Numbered`,
  `UnseenOK`).  Hence the
  first response to its prompt that the loop finds is the first that was given.

**SchedulerProofs.**
- `TypesCorrect`: `Spec => []TypeOK`.
- `LimitsHold` and `SpacingHolds`: `Spec => []RunsWithinLimit` and
  `Spec => []FiringsAreSpaced`, by `RunInv`: the history of an entry is in order,
  its last firing is `last_run_at`, its length is `run_count`, and an identifier
  not used yet has none.  That two firings of a cron entry fall into different
  minutes follows from the cooldown by a lemma on division.
- `PaceKeeps`: `Spec => []KeepsPace`, by `PaceInv`: the next tick of a timer is
  never due later than the entry's interval or cooldown (and, for cron, a minute
  on top) after it last ran, and the clock is at most `MaxLate` past a due tick.
  The proof corrected the property: an earlier form gave cron entries two
  minutes and the lateness, which a manual run under a cooldown of more than two
  minutes exceeds.

**ConnectorSupervisorProofs.**
- `TypesCorrect`, `OneProcess` and `StopsHold`: `Spec => []TypeOK`,
  `[]OneProcessEach` and `[]StoppedUnlessCrossed`, by `Inv`: every process that
  lives is its entry's child or the one the starter has just spawned
  (`ProcessesAreHeld`) or one that could not be killed, after which its connector
  is started no more (`UnkilledIsLast`), a connector that is being started has no
  child (`StartIsFresh`), and a stopped one is idle unless it was crossed
  (`StoppedIsIdle`).

**Only model-checked**: the liveness properties EveryTurnEnds, BufferIsEmptied,
EveryMessageSettles, ShortCircuitEndsUnlessLost, WaitersAreServed,
AnsweredPromptsSettle and CrashedComesBack.  They need ENABLED and weak fairness,
which the prover does not reason about here.  The three violations of section 6
are counterexamples of TLC.

## 6. Where code and documents disagree

1. `docs/ws-protocol.md` says a message that meets a running loop is buffered and
   injected.  A message pushed while the handler still runs, but after the loop's
   last look at the buffer, waits for the drain that follows `set_active(false)`
   (`event_runner.rs:320-324`).  If the dispatch of the next message falls between
   the two, it sees the flag down and its `reset()` clears the buffer, so that the
   drain finds nothing (`dispatch_lost`).
2. `fallback.rs` says the primary is short-circuited until the cooldown expires.
   A probe that its caller drops leaves the circuit half open, which nothing but
   a report ends (`fallback_stuck`).
3. `ActorSlot` is documented to release on drop.  Dropping returns the permit and
   leaves the actor busy (`actor_pool_dropped`).

Smaller ones, seen while modelling, for which no run exists because they concern
what a call starts or a message says rather than a reachable state:

4. `trigger_entry` counts a run and moves `last_run_at`, but nothing calls
   `on_trigger`: a manual run starts no task
   (`ozzie-runtime/src/scheduler/runner.rs:72-74`, the `trigger_schedule` tool).
5. "A persistent schedule entry" (`ozzie-core/src/domain/schedule.rs:99`) is kept
   in memory only.
6. "Returns a handle that stops the scheduler when dropped"
   (`scheduler/runner.rs:109`): dropping the handle stops nothing.
7. The monitor logs "restarting after cooldown" (`connector/supervisor.rs:262`)
   also for an exit, which it restarts in the same round.

## 7. Not modelled

- **Pairing**: requests and approvals are calls of one operator, each under one
  lock.  What can go wrong is a failing save, listed under "hazards".
- **Skill workflows**: a sequential computation over small graphs; the steps run
  through the agent loop.
- **Tool tiers**: a set of names per conversation that one task changes at a time.
- **Client library**: request and response correlation in one task of another
  process.
- **Dream consolidation**: a sequential batch whose result depends on the model's
  text; the order of its two writes is listed under "hazards".
- Providers' drivers, context window, memory, blobs, heartbeat, MCP transport,
  most native tools, bridges, TUI, CLI, sandbox, profiles, protocol types: I/O,
  wire formats, text processing, user interface.

Inside the modelled components: failures of the file system but for those the code
passes over (a lost append, a history that cannot be loaded), the bus's history ring and its list of filtered
subscribers, the read-only queries of pool, store and registry, titles and
summaries, the retry helper of `resilience.rs`, operations that the program
never calls (`unarchive`, `delete`, `set_enabled`, `stop` of the scheduler), the
output forwarding of connector processes, and everything a model call or a tool
does besides ending, failing or not ending.
