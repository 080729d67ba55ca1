# A TLA+ model of ainiux

ainiux is a C++ program with three faces: a command line and terminal
interface, an editor, and a local HTTP control server with a browser client.
Its own core logic is in what these share or contend for: jobs and their
cancellation, agent sessions in which a remote model works on a project under
the user's supervision, the event streams by which clients follow both, the
library of chats that terminals and browsers write at the same time, and the
files that several editors have open.

This directory is a verification project for it. The modules are translated
from the sources under `src/src/` (file names below are relative to that
directory; `docs/` and `tests/` are those of the repository). TLC checks every
property on small instances, and TLAPS proves what is listed under
[Proofs](#proofs) for every value of the constants.

    tlc -workers 2 -config MCJobRegistry.cfg MCJobRegistry      # one run
    tlapm JobRegistryProofs.tla                                 # one module's proofs

`PROJECT.json` lists the components, the runs, which lines each definition
models, for each property a mutation of the code that breaks it, the hazards
and the findings.

## Inventory

| component | state | operations | interacts with | hard behaviour |
|---|---|---|---|---|
| **Job registry** `server/job_registry` | map of jobs, eviction order, idempotency keys, worker handles, provider slots, the agent lane, `stopping_`; per job its state, token and event broker | `submit`, `run_job` (a thread per job), `cancel`, `shutdown` | HTTP handlers call it; work functions call providers; publishes to a broker per job | workers race with eviction, rollback, cancellation and shutdown; slots and lane given back on every path |
| **Event broker and streams** `server/event_broker`, `server/router` | bounded deque of events with ids, byte total, closed flag; per connection a cursor | `publish`, `close`, `replay_after`, `wait_after`; the SSE loop | workers and sessions publish; a thread per connection reads | eviction overtaking a slow reader; reconnection with a cursor; the end of a stream |
| **Agent session** `server/session_hub`, `agent/agent_controller`, `agent/approval`, `agent/questionnaire` | status, active turn, pending approval and questionnaire, `closed_`; two gates; the controller's event queue and turn job | create, start and cancel a turn, resolve an approval or a questionnaire, close | handlers; the turn worker and its parallel tools; the event pump; the preparation thread | five kinds of threads, three mutexes, none held across a step of another |
| **Input stores** `server/image_input_store`, `chat_input_store`, `video_input_store` | map of uploads with expiry times; a byte budget in an atomic, shared with the deleters of the payloads | `add`, `resolve`, `erase`, the expiry sweep | connection workers upload; jobs resolve and hold payloads | the budget is changed by compare-and-swap outside the lock, and returned by whoever drops a payload last |
| **Chat library** `chat/sqlite_store`, `server/chat_service`, `tui/run`, `tui/file_jobs`, `tui/commands` | threads with revisions in SQLite; the terminal's open session, its model job, its file job, a deferred save, the event queue; the revisions a browser holds | save, load, append, edit, rewind, remove, clean up; send, regenerate, cancel, clone, pop, clear, edit history, leave | two programs on one database; a UI loop and two threads on one session | optimistic concurrency between programs; a turn, a save and a key that overlap; positions in a list that changes |
| **Editor files** `editor/file_session`, `editor/editor_state`, `editor/autosave`, `editor/run_editor` | `FILE.LOCK/` and its owner file; the file, its fingerprint, its backup; per process the buffer's mode | open, edit, retry, reload, autosave, recover, save, Save As, close | other editors, other programs, the file system | several calls per step of the protocol, with other processes, and deaths, between any two |
| Workspace service `server/workspace_service` | files on disk | read, write, copy, move, remove | handlers, the editor | revision checks against changes in between; failures half way through a tree |
| Listener `server/listener` | connection count, sockets, worker threads | accept, serve, `stop` | everything above | the order of shutting down |
| Agent runtime `agent/session_runtime`, `agent/agent_loop`, `agent/tools`, `agent/process` | conversation, session store, tool rounds, background processes | prepare, run a turn, finish | the session, providers | cancellation in a round, timeouts and output limits of processes |
| Jobs and queues of the front ends `runtime/runtime` | JobHandle, BackgroundJobs, EventQueue | start, cancel, join, push, pop | UI threads | restart of a handle, closing of a queue |
| MCP client `mcp/client` | request ids, pending answers, a child process | call, notify | the agent's tools | time-outs and late answers |
| Editor text `editor/piece_table`, `editor/editor_state` | piece table, undo groups | edit, undo, redo | the editor | undo grouping |
| Providers, parsers, documents, rendering, configuration | none shared | translation | | data, not control |

The components in bold are modelled.

What makes each correct:

- *Job registry*: bounded; a live job is never evicted; slots and lane are
  accounted for on every path; keys name retained jobs; the stream and the
  snapshot tell the same end; cancellation takes effect; shutdown leaves
  nothing behind and returns.
- *Event streams*: ordered, nothing twice, nothing lost silently; every stream
  ends.
- *Agent session*: one turn at a time; what is published under a turn is that
  turn's; an answer reaches the request it was given for; what waits can be
  answered or cancelled; closing ends everything.
- *Input stores*: the budget equals what is stored or referenced and is kept; a
  job has its inputs until it ends; every upload is answered.
- *Chat library*: nothing is overwritten that its writer has not shown; the
  newest autosave is not forgotten; a terminal does not conflict with itself;
  a turn has one end, and one that fails leaves nothing.
- *Editor files*: one process has the lock, and it does not leak; a buffer that
  can be changed has it; no save replaces a version its user could not know of;
  an autosave stays until its text is saved.
- *Workspace*: a write under an old revision changes nothing. *Listener*: `stop`
  ends all threads. *Agent runtime*: each tool call is answered once, also when
  cancelled. *MCP client*: an answer goes to its request. *Editor text*: the
  piece table is the text; undo restores it.

## Modules

| module | models |
|---|---|
| `JobRegistry` | the job registry and its workers |
| `EventBroker` | the bounded log as operators on a record: `Published`, `ReplayAfter`, `Awaited`, `Closed` |
| `EventFeed` | abstract specification: what a subscriber is promised |
| `SseFeed` | a job's broker (it extends `EventBroker`) and the connections that stream it; implements `EventFeed` |
| `AgentSession` | one interactive session from creation to destruction |
| `InputStore` | an upload store, its uploads and the jobs that use them |
| `ThreadStore` | the transactions on chat threads, as the values of `threads` after them |
| `TerminalChat` | the terminal's chat loop with its model job and its file job, on a `ThreadStore` |
| `ChatService` | the requests of a browser, on a `ThreadStore` |
| `ChatLibrary` | the two composed on one store, and the properties of both |
| `EditorLock` | the advisory lock of one file, call by call |
| `EditorFile` | the file's buffers, backup and saves, composed with `EditorLock` |
| `MCJobRegistry`, `MCSseFeed`, `MCAgentSession`, `MCInputStore`, `MCChatLibrary`, `MCEditorFile` | instances for TLC |
| `JobRegistryProofs`, `SseFeedProofs`, `AgentSessionProofs`, `InputStoreProofs`, `ChatLibraryProofs`, `ChatSavesProofs`, `EditorLockProofs`, `EditorFileProofs` | theorems |

### JobRegistry

A critical section of `mutex_` is one action. `Submit` is a disjunction of
the ways `submit` comes back: refused (key taken, lane busy), full,
created, and created but rolled back because the thread could not be started
(the `catch` of line 134). Eviction is part of it: `EvictTerminal` returns
the registry after the eviction. A worker's program counter `pc` walks through
`run_job`: `acquire` (waits for a slot in slices of 50 ms, so it needs no
notification), `begin`, `work`, `release`, `decide` (line 196 reads the token
for the last time), `settle` (the state becomes terminal), `publish`, `close`,
`lane`, `done`. `shutdown()` copies jobs and workers under the lock, sets the
tokens one after the other, and joins. The work itself is external: it may
send progress, succeed, fail, report cancellation or throw (as a failure). The
key's operation and payload, which only choose between two error replies, are
left out. `Cancel` sets the flag in the action that looks up the job; a flag
set after the job has ended is read by no one.

### EventBroker, SseFeed, EventFeed

Events are an id and a size. `Published` evicts from the front while either
bound is exceeded, gives the event the next id, and keeps it unless it is
larger than the whole log (then the log is cleared too). `Connect` is the check before the
response is committed (410 if the cursor is lost), `Fetch` one `wait_after`,
`Write` the sending of the batch event by event, `SendFails` a failed or timed-out send. Heartbeats
do not change anything and are left out. A subscriber without a cursor
(`wait_after(0)`, `event_broker.cpp:65`) starts with the oldest event that is
still there and is not told of those it missed; `EventFeed` promises it no more
than that. Nor does the code know a cursor that is ahead of this broker (one of an earlier
server process) from one of its own: events up to it are not delivered, which `EventFeed`
allows; what is shown is that such a stream ends too (`StreamsEnd`).

### AgentSession

| in the model | in the code |
|---|---|
| `status` … `closed` | `InteractiveSession` members under its `mutex_`; ids are numbers, 0 for the empty string |
| `events`, `turn_running`, `source`, `cancelled` | `AgentController`; `source` is the turn whose token `turn_job_.source_` holds, `cancelled` the turns whose token is set |
| `gate`, `quiz_gate` | the two gates; `serial` counts requests, `by` records who answered (history) |
| `worker`, `tool` | the turn thread and the tools that `run_parallel` runs; each may ask for approval |
| `pump`, `event`, `event_turn` | `event_pump_` in `consume_event`, with its local `turn_id` |
| `prep…`, `creator` | `preparation_job_`, and the handler of `POST /sessions` |
| `at`, `turn`, `id` | a handler's position and what it read under the lock before it let go of it |
| `closer`, `life` | `SessionHub::erase` and `close()`; the destructor |

A handler's request is a chain of actions, one per lock it takes:
`start_turn` is `ClaimTurn`, `Launch`, `Spawn`; `cancel_turn` is `CancelTurn`,
`CancelApproval`, `CancelQuestionnaire`, `CancelToken`; `resolve_approval` is
`ClaimApproval`, `ResolveApproval`; `resolve_questionnaire` is
`CheckQuestionnaire`, `AnswerQuestionnaire` or `RejectAnswer`,
`ClearQuestionnaire`. A reference found in the hub outlives the session's
removal from it, so handlers go on after `close()`; the last reference runs the
destructor.

A tool that finds the approval gate taken waits without a time limit
(`approval.cpp:91`): it is `parked`, and only a `notify_all` (`Woken`) makes it
look again. The other waits of the gates are in slices of 50 ms and see a
cancellation by themselves. `JobHandle`'s `source_` and `thread_` are not
guarded against a `cancel()` or `join()` concurrent with `start()`; the model
lets either order happen.

Left out: changes of settings and lane (refused during a turn), history,
statistics, review files, the hub's limit on sessions, and the published events,
whose stream is `SseFeed`.

### InputStore

One module for the three stores, which differ in their locks: the image and
chat stores hold `mutex_` for the sweep and again for the insertion, and reserve
the bytes in between; the video store holds it from the sweep to the end
(`OneLock`). `add` is `Sweep`, `Load` (of the atomic), `Reserve` with a
compare-and-swap that may lose (`Reload`) or `Refuse`, `Insert` or
`NoIdentifier`, and `Answer`, where the handler drops its reference. `refs` says
who owns a payload: the handler, the store's entry, jobs; the deleter of the
`shared_ptr` is `SetRefs`, which gives back the bytes of whatever has lost its
last owner. `resolve` is `AskResolve`, which reads the clock before it waits for
the lock, and `Resolve` or `Reject`. A payload is a set of bytes, so that sums
are cardinalities.

### ThreadStore, TerminalChat, ChatService, ChatLibrary

A transaction of SQLite (`BEGIN IMMEDIATE`) is one step; `load_session` and
`soft_delete_empty_threads`, which use none, are several. `ThreadStore` has no
actions of its own: `SaveSession`, `AppendMessages` and `SoftDelete` are the
threads after a transaction, `CanSave` and `CurrentFor` its conditions.

| in `TerminalChat` | in `tui/run.cpp` |
|---|---|
| `session` | the open `chat::Session`: thread, revision, messages; `conv` (history) is the conversation it belongs to |
| `pending`, `active_job`, `regenerate_after_cancel` | the locals of the same names: positions of prompt and answer, and whether the turn added the prompt |
| `model_job` | the thread that asks the model; it pushes at most one delta and one end |
| `file_job`, `deferred_store_save` | `TuiFileJobs` with the save or load under way, and the save that waits for it |
| `events`, `ui` | the queue of both jobs, and the loop: `open`, then the steps of leaving |
| `asked`, `stored`, `failed`, `seen` | history: the numbers of autosaves, and the turns that have been on the screen |

The loop handles one event or one key at a time. A key is an action (`Send`,
`Respond`, `Regenerate`, `RegenerateActive`, `Escape`, `NewThread`, `Clone`,
`Pop`, `Clear`, `ChangeSetting`, `LoadThread`, `RemoveThread`, the steps of
editing history), with the conditions under which the code takes it;
`StoreSave` is `start_store_save`, which copies the session and starts or
defers. `QueuedTurn` is the regeneration that waited for the end of a cancelled turn.
Leaving is `Quit`, `CancelFileJob`, `SaveAtExit`, `RemoveEmptyThread`.

`ChatService` is a browser and the requests it makes under the service's mutex;
it knows of each thread the revision of the last answer. `ChatLibrary` lets both
work on one `threads`. A message is its role, its turn and the turns whose text
it holds, which is all that the properties tell apart; what a
transaction does to names, models, settings and usage decides nothing here.

### EditorLock, EditorFile

`EditorLock` follows `acquire_canonical`, `safe_remove_lock` and
`EditorFileLock::release` call by call: `Mkdir`, `Create` and `Write` of the
owner file (a reader in between finds it malformed), `Inspect` and the recovery
of a lock whose owner is gone from the same host, `Reread`, `Unlink`, `Rmdir`
and `Restore`. Processes exit or die anywhere (`Crash`), each call may fail where the
code handles it, and something else may put a file into the directory
(`PutForeign`). `stolen` records that an unlink took another owner file than the
one read before it, which the code cannot exclude: then nothing is claimed any
more. `torn` records a death with the directory half made.

`EditorFile` adds the file. A fingerprint matters only by whether it is still
that of the file, so `fp` and `observed` are the sets of processes whose
`disk_fingerprint` and `observed_disk` are, and whoever writes the file empties
them (`Supersede`). `ui` is where a process is between two calls: opening
(`Start`, `Open`, `Offer`, `Load`, `Recover`, `Fingerprint`, `Begun`), editing
(`Retry`, `Compare`, `Agree`, `Reload`, `Decline`, `Autosave`), saving (`Save`,
`SaveAs`, `Confirm`, `Check`, `Replace`, `Tidy`, `Refresh`), leaving. `order`
tells the two orders of opening apart: at start the session (fingerprint and
lock) comes before the text, inside the editor after it. `knows` (history) is
how a process's user came by the version that is on disk.

## Runs

All passing runs together fire every action. Bounds are CONSTANTS and named in
the modules.

| run | instance | states | shows |
|---|---|---|---|
| `jobs` | capacity 2, 1 provider slot, 3 submissions, 2 keys; the work succeeds or is cancelled | 0.9 M | safety of the registry: `RegistryInStep`, `ProviderSlots`, `OneAgentRun`, `StreamEndsWithState`, `EvictsOnlyEnded`, `EndedStaysEnded`; a third submission evicts, is refused, replayed or rolled back while the first two are at any point |
| `jobs_stop` | 2 jobs without keys, progress, all outcomes of the work, a shutdown | 97 k | `CancelTakesEffect`, `ShutdownReturns`, `JobsEnd` (liveness), `ShutdownIsFinal`; no deadlock |
| `feed` | log of 2 events and 3 bytes, sizes 1, 2 and 4, 4 events and the terminal one, 2 readers with cursors 0, 1 and 6 | 25 k | the stream implements `EventFeed` (`ImplementsFeed`), `LogIsTail`, `StreamsEnd` |
| `session` | 2 handlers, 2 tools, 2 turns, 2 approvals, 2 questionnaires | 2.1 M | safety of an open session: `TurnsApart`, `NothingStale`, `AskersAreServed`, `AnswersAreFresh`, `ApprovalIdSingleUse`, `NobodyWaitsUnseen` |
| `session_live` | 1 handler, 2 tools, 1 turn, closing | 0.15 M | `CancelledTurnEnds`, `QuietCloseComesToRest` (liveness), `DestroyedLast` |
| `inputs` | uploads of 2, 2 and 1 bytes, capacity 4, a job that takes 3, expiry | 0.5 M | `BytesWithinBudget`, `JobsOwnWhatTheyResolved`, `UploadsAnswered` (liveness) |
| `chat` | 3 threads, 3 keys and a quit, 1 request of the browser | 0.9 M | `NothingUnseenOverwritten`, `NewestAutosaveKept`, `OwnSavesAgree`, `TurnHasItsEnd`, `FailedTurnLeavesNothing` |
| `editor` | 3 processes, 2 at a time, 1 or 2 hosts, foreign entries, crashes, outside writers | 1.9 M | `LockIsOne`, `NoLockLeaks`, `SavesAreInformed`, `AutosaveKept` |
| `session_approval`, `session_closed`, `chat_mixed`, `editor_missed` | | | findings 1 to 4 |

Every run of a component also checks its `TypeOK`, which for `SseFeed` has the byte
total and for `EditorFile` the agreement of buffer and lock in it.

Why the bounds are enough. The registry's rules compare a job with the oldest
other ones and with one slot and one lane: three jobs in a registry of two have
one retained and live, one evictable, one arriving; two keys make it possible that
both name one job. What the work returns (`WorkOutcomes`) only chooses the
final state, so `jobs` lets it succeed and `jobs_stop` has all of it. Sizes 1, 2,
4 against 3 bytes give a log that loses one event, two events, or everything; the
cursor 6 is ahead of all that is published. In a session the hazards need a handler that
has left the lock, another that acts meanwhile, a second turn (or a second request
of a parallel tool) to be mistaken for the first: two of each. Uploads of 2, 2
and 1 against 4 do not all fit, two of them do in every combination, and 2 + 2
is more than the job may take. In the chat each hazard is of a turn or an autosave
under way and at most two keys, with one write of the browser; three threads are the
stored one, the new one and the one made by a key. Of the editors two are on the
lock at a time, and the third is the one that has died and left it.

Deadlock checking is off where the bounds let the system stop (all but
`jobs_stop`, where `Stopped` is the only way to rest). Symmetry (keys,
handlers and tools, processes and hosts) is used in safety runs only. The runs of `chat`
have no thread that is read-only; the proofs cover any set of them.

### Fairness

Threads that can run do run: weak fairness on each worker, pump, closer, upload,
connection and handler step, which the operating system's scheduler gives. All waits are
either sliced (50 ms, 100 ms, 1 s) or, for the approval gate's first wait,
modelled with its notifications, so no strong fairness is needed. The
compare-and-swap loop of an upload needs none either: it loses only to a
reservation, an expiry or a drop, and there are finitely many. A work
function and a turn are only assumed to return once their token is set
(cancellation is cooperative, and HTTP transfers, child processes and gates poll
it); before that they may run for ever. A blocked send ends by the socket's time
limit. No client has to submit, answer, cancel, connect or close. One
assumption is about the outside: a preparation ends, that is, the
provider's listing of models answers or fails. `choose_default_model` has neither a
token nor a time limit by default (`session_hub.cpp:201`), so nothing in the code
guarantees it, and a session that prepares cannot be closed before it. The
chat library and the editor have safety properties only and no fairness.

## Findings

Each is a run that TLC must find violated.

1. `ApprovalDecidesItsRequest` (`session_hub.cpp:804`): the approval id is checked
   under the session's lock, and the gate is resolved without id after it. If the turn
   is cancelled in between and another tool, or the next turn, asks, the
   old decision decides the new request (`docs/api.md:682`: ids are
   "single-use and tied to the active turn").
2. `ClosedComesToRest` (`session_hub.cpp:928`): a turn that a handler starts after
   `close()` has set the token runs uncancelled; `close()` waits for it, and
   once it asks for an approval nobody can give one (`docs/api.md:685`). A
   cancellation of a turn that is announced and not yet started (`:520`) sets the
   token of the turn before and is lost in the same way.
3. `TranscriptsStayApart` (`tui/run.cpp:1079`): the id of the autosave that has just
   ended goes to any session without one. `/clone` (`tui/commands.cpp:980`) makes
   such a session without looking at the file job, so a clone made during an
   autosave becomes the thread that is being saved, and its next autosave overwrites
   the original. `/new` refuses in that situation (`tui/run.cpp:1877`).
4. `VersionsAreSeen` (`editor/run_editor.cpp:1026`): a file opened inside the editor is
   loaded before its fingerprint is taken, and the choice of an encoding may lie
   between the two. A version written in that time is taken for the one that is
   shown, and the next save replaces it without a question
   (`docs/security.md:156`).

The models have more ways to lose something, where the code and its documents
promise nothing, and which the properties therefore leave room for:

- `soft_delete_empty_threads` (`sqlite_store.cpp:2101`) selects and deletes in
  separate statements and without a revision, so a message appended in between
  goes with its thread (`WebCleanup`, `CleanupDelete`). The terminal's
  `/remove-empty` calls the same function. Leaving the terminal deletes
  the open thread if the terminal's own copy is empty (`run.cpp:1274`,
  `RemoveEmptyThread`), whatever a browser has appended to it.
- Leaving cancels the file job (`run.cpp:5004`): an autosave that has not looked at
  its token yet is not made (`NewestAutosaveKept` counts it as refused).
- A load that ends after a turn has been started replaces the session under the
  turn, whose text then goes to the message at the same position, and whose error
  erases the messages at the two positions (`HandleLoaded`, `HandleDelta`,
  `HandleError`). Nothing of the turn is left (`FailedTurnIsErased`); what else is
  erased with it, no property says.
- Between the last look and the new fingerprint of a save (`Blind`), and between the
  reading of an owner file and its unlinking (`stolen`), the editor cannot see a
  program that writes; POSIX gives it nothing to close the gaps with.

## Proofs

`tlapm` checks them from the named assumptions on the constants of each module;
nothing else is assumed.

**JobRegistryProofs.** `IInv` strengthens the invariants by what the worker's
label says (`WorkerPhases`, `LaneHolder`, `StreamPhases`, `ShutPhases`): a
terminal state means that the worker is past `settle`, a slot
that it is between `acquire` and `release`, the lane that its holder is an agent job
neither unborn nor done, a stream that ends in a terminal event that it is past
`publish`. Without these the invariants are not inductive: nothing in
`ProviderSlots` itself says that a job about to release a slot has one. Each
part has a step lemma (`TypeStep`, `PhaseStep`, `LaneStep`, `StreamStep`,
`ShutStep`, `SlotStep`, `RegistryStep`), with one step per action; eviction is
settled by `EvictionFacts` and `EvictionKeepsStep` over `RemoveAtProperties`.
From `Invariance` follow `TypeCorrect`, `LaneIsExclusive`,
`SlotsAreAccounted`, `RegistryIsConsistent`, `StreamsAgree`,
`ShutdownLeavesNothing` and the action properties `EvictionIsSafe` and
`EndsAreFinal`, for every capacity, concurrency and key set.

**SseFeedProofs.** `IInv`: the log is consecutive and ends with the latest id
(`LogUnbroken`), each batch in flight is consecutive and continues its cursor, and once
the job has ended the log holds its last event. `Refinement` (`Spec =>
ImplementsFeed`): each step of the detailed stream is a step or a stutter of
`EventFeed`; the invariant is what makes `Write` a `Deliver` of the next event,
and `Fetch` of an empty batch at the end a `Finish`. `TypeCorrect` is about the
byte count, which `publish` keeps by additions and subtractions: it is the sum of
the sizes retained, and within its bound. `SizeOf` is a recursive function, so
`Sums` says of any function what makes it the running sum; that there is exactly one
(`SumsAgree`) and that sums over a split add up are proved by the smallest counterexample
(`Smallest`), and from them `BytesInv`. `EvictionIsTight` (`Spec =>
EvictsOnlyForRoom`, which no run checks) is the other side of the bounds: with the last event that was evicted still in the log, one of them would be
exceeded (`EvictedStops`, `SizeOfRest`, `PublishedEvicts`).

**AgentSessionProofs.** All safety invariants of the session runs, for every number
of clients, tools, turns and requests, and whether or not the session is closed:
`TypeCorrect`, `TurnsKeepApart`, `NothingOutlivesItsTurn`, `NobodyWaitsInVain`,
`NoStaleAnswer`, `OneUsePerApprovalId`, `OpenRequestsStayInView`,
`NothingOutlivesTheSession`. `IInv` adds to
them what makes them inductive:

- `TurnPhases`, `Running`, `OnTheWay`: a turn is claimed by one handler, runs in
  the worker, has ended but not been consumed, is over. Between two turns the queue
  is empty and the pump rests (`Quiet`), and the end of a turn is the last event in
  the queue. Because of this the pump's reading of `active_turn_id_`, which no event
  names, is right (`EventsOfTheirTurn`), and `start_turn`'s test
  of `active_turn_id_` suffices (`OneTurnAtATime`); that of `turn_running_` alone, which
  the worker clears before its end is queued, would not.
- `ApprovalIds`: an id that a handler holds is older than the next and no longer
  pending.
- `QuizIds`: questionnaires are consumed in the order they were put, each newer
  than what is shown and what handlers are answering. Without it a late
  `ClearQuestionnaire` might clear a newer one (`WaitingIsAnswerable`).
- `Preparing` (no turn before the preparation is done) and `Ending` (what the
  destructor has waited for stays over).

Each has a step lemma (`TypeStep`, `PhaseStep`, `PreparingStep`, `GateStep`,
`IdStep`, `QuizStep`, `WaitStep`, `EndStep`) with one step per action that touches its
variables; the actions that do not are dealt with together. `GateResolved` and
`QuizResolved` say what an answer or a cancellation does to a gate.

`OpenRequestsStayInView` has an invariant of its own on top of `IInv`. `AskersAreServed`
starts from what the session shows; `NobodyWaitsUnseen` starts from the tool that waits:
its request is shown, its notice is in the queue or with the pump (`Noticed`), or a
decision is on its way back. It cannot lose the request to an answer the gate turned
down, because (`QuizHeld`) only the worker of the turn asks a questionnaire and a handler
that is about to clear one has had it answered: the error of the gate sends the others
back to the client (`TurnedDown`).

**InputStoreProofs.** `BudgetIsKept`: whatever the uploads, their sizes, the
capacity and the interleaving, the budget is the number of bytes somebody owns
and within the capacity. `SetRefsKeepsBudget` is the argument for every
change of owners: the bytes that lose their last owner are exactly those that
are given back. `IInv` adds that an upload owns nothing before its
reservation (`NothingBeforeReserve`) and is its handler's until the insertion
(`HandlerHolds`). `JobsKeepTheirInputs` and, for the video store, `ExpiredAreRejected`
(the image and chat stores read the clock too early for it).

**ChatLibraryProofs.** `NoLostUpdate`, `AutosaveKept`, `TurnsEndOnce` and
`LibraryTypes`, for every number of threads, keys and requests. `SeenInv` is why
no update is lost: wherever the terminal holds a revision of a thread — the
session, the file job, the deferred save, an event in the queue — it came from the
store, and if it is still the thread's, every message of the thread has been shown;
for messages change only together with the revision (`Grown`). A save that passes `CanSave`
therefore overwrites nothing unseen. `WebInv` says the same of the browser.
`SaveInv` says where the newest autosave is, and with `ReportInv` (the file job
reports once) it is inductive; `TurnInv` is that for turns. There is a step lemma per
action of either program (`SendStep` … `CleanupDeleteStep`), and `SaveAsked`,
`Resumed`, `PatchedSave`, `Saved` for what the steps share.

**ChatSavesProofs.** Two more theorems of the chat library, each with an invariant
of its own on top of `IInv`; TLC has checked both invariants on the bounds of `chat`.

- `OwnSavesNeverConflict`: the store refuses an autosave of a live thread, deferred or
  not, only if a browser has written the thread since, and one
  conversation never becomes two threads. `OwnInv` says that everyone in the terminal who
  holds a thread has its current revision or one the browser has overtaken (`Own`), and
  that no row is of the conversation of one who holds none (`New`). The store's
  part of an autosave breaks both for the session and for a save that waits; they are put
  right when its event is handled, and until then they follow the event (`Follows`). This is
  why `HandleSaved` must pass thread and revision on to the save that waits, and why
  loading and `/new` must look at the file job first.
- `FailedTurnIsErased`: after the error of a turn no message of it is left. The loop
  remembers the two messages of a turn by position, and keys and loads change
  the transcript meanwhile. `PlaceInv`: the messages of the turn under way are at the two
  positions or nowhere in the session (`Placed`); turns are numbered upwards
  (`Ages`), so what a load brings while a turn is under way, which was read before the
  turn could be stored (`Unheard`), has no message of it.

**EditorLockProofs.** `LockInv`: while nothing has been stolen, at most one process is
`Inside` the directory, from its `mkdir` or its unlink of a dead owner's file to its
`rmdir`, and finds on disk what its position says (`Fits`). A process that
recovers a lock is not `Inside` before its unlink; two may recover at once, and the one
that comes too late finds no owner file, or steals. From it `OneHolder` and
`NothingLeaks`, for any number of processes and hosts, with crashes anywhere.

**EditorFileProofs.** `LockIsFollowed` (`Spec => LockSpec`): the editor uses
the lock as it is meant to be used, so every theorem about the lock holds of the
editor (`FileHasOneHolder`, `FileLockLeaksNot`). `FileInv` says where a process stands with
the lock in every state of its buffer (`Stands`), that a fingerprint still current
goes with a version its user knows (`Informed`), and who can have an autosave to
lose (`Backed`). From it `LockAndBufferAgree`, `NoVersionIsLost`, `NoAutosaveIsLost`.

Every safety invariant and action property that a passing run checks is thus stated by
a theorem. Only model-checked: liveness (`StreamsEnd`, `JobsEnd`,
`ShutdownReturns`, `CancelTakesEffect`, `CancelledTurnEnds`, `QuietCloseComesToRest`,
`UploadsAnswered`), since the prover has no rules for ENABLED and
fairness that would do here; and the four findings, which are counterexamples.

## Plan

Modelled so far: jobs, streams, the session's turns, uploads, the chat library, the
editor's files. What is left, in this order:

1. *The rest of the session*: settings and lane between turns, the hub's limit on
   sessions, and the published events as a second instance of `EventBroker`, so that
   `EventFeed` holds of a session's stream too.
2. `JobHandle`, `EventQueue`, `BackgroundJobs` (`runtime/`) as modules of
   their own, the agent session's and the terminal's use of them as instances;
   runs: restart during cancel, close during a blocked pop.
3. `Listener` composed with `JobRegistry` and the sessions: the order of `stop`,
   the connection limit.
4. `Workspace`: revision-checked writes, trees with failures half way.
5. `ToolRound` (`agent/agent_loop`): each call answered once, dangling calls
   paired after a cancellation; `Process`: timeout against exit.
6. `McpClient`: ids, timeouts, late answers.
7. `PieceTable` against a sequence, `Undo`: pure functions checked on bounded inputs,
   a refinement for undo.
8. *The rest of the editor*: files the editor makes itself, several buffers of one
   process.

## Not modelled

Of the modelled components: in the session what its section names; in the chat library
media and attachments and their expiry, settings-only updates, JSON chat files, imports,
and the agent's mode of the terminal's loop; in the editor new files and Save As to a free path (there is no file to be
compared with before), converted documents (their target is not the file that is
locked), several buffers of one process, errors of `stat` and of loading, and settings.

Not at all, for the time being: the components of the plan. Not planned: parsers,
document readers, rendering, provider formats, configuration, search and fetch, which are
data transformation without state that several actors share; TLS and
authentication, which are libraries' work; performance.
