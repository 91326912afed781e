# ZARVIS in TLA+

A verification project for the ZARVIS assistant: TLA+ modules that model its parts,
TLC configurations that check them on small instances, and TLAPS proofs of the
properties that matter most, for every instance. `PROJECT.json` lists the components,
runs, mutants, hazards, findings and theorems, and maps every definition to its lines.

## 1. The system

The program is three processes on one machine.

```
 desktop (Electron)            Node gateway                  Python core
 supervisor ──spawns──────────▶ (both of the others) ──────▶
 renderer ──WebSocket────────▶ gateway.ts
                               IPCClient ──TCP, JSON lines──▶ IPCServer ─▶ IPCRouter
                                                              ├ AgentOrchestrator (waves, recovery)
                                                              ├ ToolExecutor, memory, voice, vision, OS
                                                              └ AsyncEventBus ─▶ broadcast to clients
```

| Component | State it keeps | Operations | Hard parts | What makes it correct |
| --- | --- | --- | --- | --- |
| Plan validation (`agents/plan_validator.py`) | in-degrees, waves | validate_and_sort | repeated dependencies, cycles | waves respect dependencies; a refusal is justified |
| Planner (`agents/builtins/planner.py`) | none | execute | its own plans name agents, tools and arguments kept elsewhere | the plan made when planning fails is accepted |
| Orchestrator (`agents/orchestrator.py`, `recovery.py`, `checkpoint.py`, `verifier.py`) | AgentRun, sets of active, cancelled, paused runs, checkpoints in memory and on file | run, cancel_run, pause_run, resume_run | concurrent tasks of a wave, lifecycle calls at any await, caller timeout, crash | order of tasks, bounded recovery, completed means verified, a cancel counts |
| IPC client (`node-gateway/src/ipc/client.ts`) | connection state, socket, pending map, four kinds of timers | connect, sendRequest, disconnect | callbacks in any order, late replies, reconnecting | every promise settled once; one connection; always on the way back |
| IPC server (`jarvis/ipc/server.py`) | listed clients, client tasks, request counter | start, stop, per-client loop, request task, broadcast | suspended walks over live sets, clients that vanish or do not read, stop at any moment | exact counter; list of clients is who is served; requests of a client that reads end |
| Event bus and engine (`core/bus.py`, `core/engine.py`, `__main__.py`) | running flags, subscribers, dispatch tasks, services | start, stop, publish, shutdown | signals during start or shutdown, services whose stop does not return | services stop in reverse order; a shutdown drains the bus, and ends if its services do |
| Tool executor and coding agent (`tools/`, `agents/builtins/coding.py`) | audit trail, events; a task's place in its tools | execute | threads that outlive their timeout, cancellation, retries, a bus that has stopped | event, audit and what happened tell one story; completed means the tools ran |
| AI router (`ai/router.py`, `retry.py`, `providers/`) | candidates, attempt counter | generate, stream | retries, backoff and fallback over four providers; cancellation | every paid call is due |
| Memory (`memory/`) | SQLite tables, vector table, working window and summary | connect and migrate, append, read, store, upsert_preference, delete, cleanup, retrieve | writes to two stores, a crash between them or in a migration, stale neighbours, eviction | stores agree, in a schema that is whole; recall respects scope and expiry; vital messages go last |
| Voice (`voice/pipeline.py`, `session.py`, `state.py`, `audio/playback.py`) | session states, playback tasks, one shared flag | listen_once, process_speech, interrupt, voice.stop, reset | barge-in, stop, reset and cancellation against every await | no audio goes on that nobody accounts for; a stop holds; turns end |
| OS control (`os/`) | the desktop itself | mouse, hotkey, window and clipboard tools | the user's hand between an effect and its verification; coordinate spaces | what is reported as verified is so; no key stays down |
| Vision (`vision/`) | a cached observation | find_elements, resolve_target | a cache that ages during a call; scores that are not monotone | what is grounded is fresh, not at a negative place, and the one named or the best of its kind |
| Supervisor (`desktop/src/main/supervisor.ts`) | processes, pids, states, pid files | start, stop, restart, stopAll | exit events after restarts, concurrent starts | no orphans, no entry of a live process lost |
| Gateway front and the renderer's connection (`gateway.ts`, `renderer/gateway/connection.ts`) | WebSockets, pending requests | connect, sendRequest, route | three clocks for one command, sockets that close after their successor opened | done means the core answered |
| Renderer (`renderer/app.ts`) | assistantState, recogniser, utterances | commands, microphone, pause, mute, health | callbacks of what has been replaced | no frozen state |
| Built-in tools, browser, vault, settings, protocol validators, windows and pages | little | calls out | I/O | left out, see section 7 |

Interaction: the gateway's WebSocket clients' requests go through `IPCClient.sendRequest`
to the server's client loop, which creates a task per request; the router's handler for
`agent.execute` awaits `AgentOrchestrator.run`; its events go to the event bus, whose
wildcard subscriber is the server's broadcast. asyncio and Node both run one callback at
a time: an interleaving point is an `await` that really waits (Python) or the end of a
callback (Node), and that is the grain of the actions everywhere below.

## 2. Modules

| Module | What it is | State ↔ code | Actions ↔ code |
| --- | --- | --- | --- |
| `Plan` | what a layered plan is, and what is a plan at all (`IsPlan`) | the waves `validate_and_sort` returns, the plan `run` goes through | – |
| `PlanValidator` | Kahn's algorithm with all checks before it | `deps` = task_map, `inDegree` = in_degree, `wave` = current_wave, `processed` = processed_count | `Reject`, `Prepare`, `EmitWave` (one iteration of the while loop), `Finish` |
| `PlanValidatorProofs` | theorems | – | – |
| `Planner` | the plans of planner.py: `Deterministic` has one per branch of `_deterministic_decompose`; with the registries they are validated against, and the tables of applications (app_tools.py) and folders (file_tools.py) that decide what a goal's words resolve to | a plan is a sequence of steps: agent, tools, arguments given, dependencies | none: its plans are among those `PlanValidator` runs on |
| `Execution` | what the caller of an agent run may expect of it, without waves, retries or a state field | `handed`, `verified` tasks, `held` = cancelled, `answer`, `record` = the checkpoint that can be read | `Work`, `Hold`, `Answer`, `Abandon`, `Crash`, `Reload` |
| `Orchestrator` | one run of AgentOrchestrator with recovery and checkpoints | `run` = AgentRun, `pc` = where run() waits, `task` = the coroutine of each task, `active`/`cancelled`/`paused` = the three maps, `remembered`/`file` = CheckpointStore | `Start`, `PlannerReturns`, `PlannerFails`; `TaskPasses`, `TaskRetries`, `TaskFails`, `TaskRaises`; `GatherRaises`, `WaveFails`, `WaveCancelled`, `NextWave`, `LastWaveDone`, `Respond`; `CancelRun`, `PauseRun`, `ResumeRun`; `CallerGivesUp`, `Crash` |
| `OrchestratorProofs` | theorems | – | – |
| `RequestReply` | what a caller may expect of a request; implemented by the client's promises and by the server's requests | `stage` of each promise, `replied` | `Ask`, `Refuse`, `Reply`, `GiveUp` |
| `IPCClient` | client.ts | `state`, `socket`, `pending` = pendingRequests, `armed` = running timeouts, `outcome` of each promise, `conn` = the sockets of the operating system, `core` = the peer | one action per callback: connect, its connect callback, handshake answer, data, timeout, write error, close, heartbeat, reconnect timer, disconnect; and the peer's deaths and silences |
| `IPCClientProofs` | theorems | – | – |
| `IPCServer` | server.py | `clients` = _active_clients, `tasks` = _client_tasks, `count` = _active_requests, `loop`, `req`, `drains`, `cast`, `closes` = where each coroutine waits, `deaf` = connections whose buffer is full because their client does not read | client steps; `_client_loop`: one action per kind of frame, its end of the connection, `Greeted` and `Answered` (the end of its own drains), `LoopEnds`; request task: `BeginRequest`, `EndRequest`, `ReplyDrained`; broadcast: `CastBegins`, `CastWrites`, `CastWakes`, `CastRaises`, `CastEnds`; `Start`, and `StopBegins`, `StopCloses`, `StopCancels`, `StopForgets`, `StopEnds` |
| `IPCServerProofs` | theorems | – | – |
| `Supervisor` | supervisor.ts and what index.ts does with it, for one service | `entry` = processes and pids, `pidFile`, `state` = serviceStates, `shutting` = isShuttingDown, `willing` = the window's isQuitting, `child`, `ours`, `signalled` = the operating system's processes, `pc`, `checks`, `target` = where each call waits | startService: `StartupBegins`, `Probe`, `FindsExternal`, `FindsRunning`, `Spawns`, `SpawnThrows`, `SpawnErrs`, `IsReady`, `ChecksAgain`, `GivesUp`; restartService: `RestartBegins`, `StopTimesOut`, `PortWaits`; `ExitEvent`; leaving: `StopAll`, `StopAllEnds`, `TrayQuitsAgain`, `AppQuits`, `WillQuit`; `Crash`, `Boot` |
| `SupervisorProofs` | theorems | – | – |
| `Engine` | \_\_main\_\_.py, engine.py, service.py, bus.py | `main`, `at` = where main() and start() wait, `svc` = the services' `_state`, `engineUp` = the engine's `_is_running`, `stopped` = `_shutdown_event`, `call`, `pos` = where each shutdown() waits, `busUp` = the bus's `_is_running`, `task` = the dispatch tasks | `Start`, `StartReturns`, `StartRaises`, `MainReturns`; `Signal`, `StopReturns`, `Drained` (shutdown() from one suspension to the next); `Publish`, `DispatchEnds` |
| `EngineProofs` | theorems | – | – |
| `Voice` | pipeline.py, session.py, state.py, playback.py, stt/router.py | `phase` = the session's state, `turn` = what its coroutine awaits, `play`, `left` = its playback task, `interrupted` = AudioPlayback's flag; `torn` = sessions that were reset under a turn that had yet to speak | `Listen`, `CaptureEnds`; `ProcessSpeech`, `Recognise`, `AgentAnswers`, `Synthesized`, `TurnResumes` (process_speech from one await to the next); `PlayStarts`, `PlayGoesOn`, `CancelLands`; `Interrupt`, `TurnCancelled`, `VoiceStop`, `ResetSession` |
| `WorkingMemory` | window.py, buffer.py; eviction is the operator `Bounded`, its loops the recursive functions `Kept`, `Total` and `Evict` | `window` = the buffer, `summary` = what was evicted into it, `stale` = expired | `AppendMessage`, `ReadRecent`, `MessageExpires`, `SetContext`, `ClearWindow` |
| `Schema` | migrations.py, database.py | `built` = tables and indexes, `applied` = schema_migrations, `conn` = `_conn` and where the migrations are | `OpenDatabase`, `RunScript`, `RecordVersion`, `ConnectionLost` |
| `Memory` | on top of `Schema`: manager.py, repository.py, store.py, retriever.py | `rows`, `vectors`, `prefs` = the tables, `op` = the statement a write has come to | one action per transaction: `Store`, `IndexRecord`, `MarkRecord`, `UpsertPreference`, `LinkPreference`, `DeleteRecord`, `PruneExpired`; `DeadlinePasses`, `CrashMemory`; retrieval is the operator `Recalled` |
| `AIRouter` | router.py, retry.py, the four adapters | `queue` = the candidates left, `tries` = attempts, `wait` = reply or backoff, `result` | `Ask`, `ProviderReplies`, `BackoffEnds`, `CallCancelled`; `Outcome` is what each adapter makes of each HTTP answer |
| `Tools` | executor.py, policy.py, audit.py, coding.py | `job`, `attempt`, `tool` = the callers, `exec` = each execution with its event and its audit record, `bus` = whether the bus runs | `Begin`, `HandlerReturns`, `HandlerRaises`, `HandlerTimesOut`, `JobCancelled`, `ThreadEnds`, `BusStops`; each goes on (`Proceed`) to the next handler that waits |
| `Desktop` | the tools of os/tools, security.py, windows.py, verifier.py | `desk`, `show` (what a minimized window goes back to included), `front`, `pointer`, `down`, `clip` = Windows, `held` = the user's fingers, `report` = the tool's result | `Move`, `Click`, `Scroll`, `Hotkey`, `Focus`, `FocusByTitle`, `SetState`, `ClipboardWrite`, `ClipboardClear`; `WindowOpensOrCloses`, `Finger`, `PlugMonitor` |
| `Vision` | manager.py, matcher.py, resolver.py | `cached` = age of the cache, `sight`, `seen`, `age` = the call, its question (which may be an element's id) and what it has in hand, `ground` = GroundingResult | `TakeCached`, `Analyze`, `AnalysisEnds`, `Resolve`, `CacheRefreshed`, `Tick` |
| `Front` | connection.ts, gateway.ts | `ws`, `link`, `retry` = the sockets, `cmd` = each command in the renderer, `way`, `via` = how far it got outside, `stage`, `replied` = RequestReply | `SendRequest`, `Delivered`, `RequestTimesOut`; `GatewayReceives`, `CoreReplies`, `BridgeGivesUp`, `BridgeFalls`, `BridgeConnects`; `ReconnectDue`, `RetryButton`, `SocketOpens`, `SocketBreaks`, `SocketCloses` |
| `Assistant` | app.ts, store.ts | `ui` = assistantState, `mic`, `micActive`, `rec` = the recognisers, `utter` = spoken answers, `awaited`, `online`, `muted` | `Submit`, `Answered`, `Failed`; `MicHold`, `MicStops`, `RecogniserFails`, `RecogniserEnds`, `UtteranceEnds`; `Pause`, `MuteToggle`, `GoesOnline`, `ConnectionCloses`, `HealthArrives` |
| `Parts` | bootstrap.py: the ten modules above side by side | `scene` = which of them moves | `CoreNext`, `FrontNext`, `FaceNext` |
| `HandProofs`, `PartsProofs` | theorems about tools and vision, and about the parts | – | – |
| `MC...` | instances for TLC | – | – |

Runs do not share anything but dictionaries keyed by run id, so `Orchestrator` has one
run. A task's answer is abstracted to whether `verify_step` passes it, since that is all
the loop asks. A run's checkpoint in memory is the run itself, because
`CheckpointStore.save` stores the object and not a copy; the file holds the run as it was,
or is torn, or unchanged, because it is opened for writing first and errors are swallowed.
An event may be dropped (`Announce`): `_emit_event` returns without a running bus and
swallows what a publish raises.

`IPCClient` has the two kinds of calls the client makes itself (handshake, ping), which are
made again and again, and requests, each made once. Two socket objects are enough to see
whether two could ever be alive; a closed one is used again. The peer may die, hang with its
socket open, come back as another version, at any moment.

Nobody checks that ids are unique, and the ids of requests come from WebSocket clients. `IdOf`
is therefore any map from calls to ids: of two calls that share one, the later takes the
entry, and either one's timer, write error or reply removes it (`Drop`). A caller who shares an
id can get the other's reply; what `LinkIsSound` and `KeepsPromise` say is what is left: who has
an id of his own (`OwnId`) is served as `RequestReply` says whatever the others do, and who has
not at least does not wait for ever.

`IPCServer` has no bytes: a frame is a request, a handshake, a line that is no JSON object,
or a line too long for the reader. Frames of one kind with the same effect are one value
(a JSON object that is no request is answered like one that is no JSON). `write_frame` hands
the frame to the transport and then waits in `drain()` until the client has read enough of what
is buffered. Nothing times that wait out: a request task is counted while it lasts, a loop reads
no further, a broadcast reaches nobody else, and `wait_closed()` of a closed writer waits like it.
`deaf` is the set of connections where this is so; a write may put a connection into it, and the
client's reading, or the loss of the connection, takes it out.

`Supervisor` has one service: everything the supervisor keeps is keyed by name except
`isShuttingDown`, so the other service adds nothing. `processes` and `pids` are set and
deleted together and are one variable. Process ids are used again once an exit event has
been delivered. Windows and the other platforms differ in what killing does: there
`child.kill` and `taskkill` end the process at once, elsewhere it gets a signal it may take
its time over, and `process.kill(-pid)` reaches nobody, because a child spawned with
`detached: false` leads no group. `isPortInUse` reads the port at one moment and its caller
acts at a later one; its 400 ms timeout is taken not to strike on a bound loopback port.

`Engine` numbers the services in the order of their registration (bootstrap.py registers
one, the engine is written for any number) and lets each fail to start and to stop. Only
what waits ends a step: `bus.start`, `publish` and the health probes do not, so the last
service's start and the engine going online are one step, and so are the last service's
stop and the cancelling of the dispatches. When main() ends the process does; a shutdown
that is still under way then is cut short. SIGINT and SIGTERM are always handled by the
handlers of main(), which are attached before anything waits.

`Parts` composes components that call each other but share no variable: what one asks of
another is a call that returns, raises, takes too long or is cut off, and each module has
every one of these for each call it makes (an agent may answer or fail the voice's turn at
any time, a bridge request may be answered or given up, a handler may return, raise or hang).
So a behaviour in which several of them move shows each of them nothing it would not see
alone (the fairness that liveness needs is of steps that only the moving part can take), and `scene` fixes one that moves: the states TLC explores are the sum and not the
product, and one run checks all ten. Interaction that is more than a call is modelled inside
one module: the turn, its playback and the flag all playbacks share (`Voice`); the store's
two tables and the vectors (`Memory`); the job and its executions (`Tools`); the renderer's
request, the gateway and the bridge (`Front`, over the abstract `RequestReply`, which
`IPCClient` is shown to implement).

`Tools` has a job per caller: tasks of the coding agent with several tools, handed out again
by the orchestrator's retries, and a `tools.execute` request. What decides about an execution
is a record of seven fields (registered, permitted, approved without asking, in the agent's
list, inside the sandbox, complete arguments, coroutine or thread), so a tool is a choice of
these. The bus may stop at any moment; from then on `_emit_event` returns without an event, and
the audit is all there is.

`Schema` takes a migration apart in the same way: `executescript` commits by itself before it
runs, so the script and the record of its version are two steps, and a script may break off.
`Memory` can do nothing before the connection is open.

`Memory` takes a write apart at its transactions: SQLite is synchronous, so nothing of another
caller comes between, but the process may end. A row keeps what retrieval and agreement look
at: project, scope, deadline, embedding status, preference value. Neighbours are any set of at
most `TopK` of the indexed ids: distances are not modelled, so recall is right whatever the
embedding.

`Desktop` has one axis for two, since every check is made per coordinate in the same way, and
the window manager as far as the tools see it. A tool's effect and its verification are one
action with the hand in between: the action chooses whether something else happened. Windows remembers of a minimized
window whether it was maximized, and SW_RESTORE, which focusing and set_state use, brings it back
as it was.

`Vision` computes the matcher's score in thousandths, with its bands, bonuses, the type
bonus, confidence and the cut-off at one; a question that is an element's id scores one with
it before anything else is looked at, whatever the confidence. Capture, OCR and detection are any set of up to
`MaxSeen` elements.

`Assistant` and `Front` are JavaScript: one callback at a time, any order between them that
timers, sockets, recognisers and utterances allow.

## 3. Runs

All bounds are the constants of the `.cfg` files and the definitions of the MC modules.

| Run | Checks | Bounds, and why they are enough |
| --- | --- | --- |
| `PlanValidator` | types; an accepted plan can be run and no task waits needlessly, a refusal as circular has a cycle, the loop takes no more rounds than there are tasks (`VerdictIsRight`); the planner's own plans are accepted, executable and complete (`FallbackIsAccepted`); the loop ends | all plans of three tasks with dependency lists up to length two with repetitions (all shapes of cycles up to three, all double entries), four-task plans without repetitions (diamonds, crossing edges), unusable agents and tools, one plan over the limit, every plan of every branch of the fallback |
| `Orchestrator` | types; dependencies first; recovery bounded; completed means verified; file behind run; one verdict; implements Execution (`RunsAsPromised`); every run ends | a join and a fan of three tasks: concurrent tasks before and after a barrier; the program's own budgets 2, 2, 5, which three tasks can overdraw; when the caller gives up, any of the tasks may swallow the cancellation |
| `OrchestratorPause`, `OrchestratorResume` | what the docstrings of pause_run and resume_run say; both violated | as above |
| `IPCClient` | types; one socket, CONNECTED is real, waiters are entered and not stranded (`LinkIsSound`); it reconnects or stops for good (`ComesToRest`); requests with an id of their own implement RequestReply, the others end (`KeepsPromise`) | three requests, two of them with the same id (one is displaced while one is undisturbed), two sockets, a core with four moods |
| `IPCClientDead` | the heartbeat's dead-connection detection, under the fairness of the heartbeat timer too (every ping that is due is sent); violated | as above |
| `IPCServer` | types; exact counter, listed are served and served are listed (`BooksAreRight`); implements RequestReply: a request is answered once or lost with its connection, and none is left (`KeepsPromise`) | two clients with a request each against a limit of one (a request meets another's); one of them may close, stop reading at any write and send every kind of frame, the other shows what that costs a client that does nothing wrong; one event, one unread frame per connection; stop() at any moment; wait_closed as in Python 3.12 |
| `IPCServerGuard`, `IPCServerCast` | the concurrency bound and the broadcast's docstring; both violated | as above |
| `Supervisor` | types; the pid file names the entered child, STARTING is under way, the living child is entered (`EntryIsRight`); nothing left behind; calls and quitting end (`EverythingEnds`) | two processes (an old child and its successor), the startup call and one restart after the other, both platforms, two rounds of the port loops, any number of crashes and starts |
| `SupervisorOrphans` | stopAll's promise of no orphans; violated | as above, on Windows |
| `Parts`, engine | services stop in reverse; main() leaves nothing behind and a finished shutdown has drained the bus (`ShutdownIsClean`); a signal ends an engine that is online, if no shutdown waits for a service for ever (`StopsReturn`) | three services (one above and one below the one that is stopping or fails), both signals and the cleanup of a failed start (three concurrent shutdowns), two dispatches (one that is cancelled while another has ended) |
| `Parts`, voice | audio is accounted for, with resets at any moment of a turn; a stop holds; turns end | two sessions (one to stop and one to disturb), two chunks (one to hear and one that must not be heard) |
| `Parts`, memory and window | stores agree and their schema is whole, wherever a migration breaks off; recall is allowed; vital messages go last; the window keeps its limits (in `PartsTypeOK`) | two memories in two projects, one key with two values, neighbours one at a time; five messages, two vital, one that expires, one that fits nowhere, against two messages and three tokens |
| `Parts`, AI | every call is due | all four providers, one without the capability, two retries: every sequence of answers, to the last candidate |
| `Parts`, tools | records tell the truth; completed means the tools ran | a task with three tools (coroutine, not allowed, thread), one refused half-way, one request; two attempts; a bus that stops at any moment |
| `Parts`, desktop | reports are true | two windows with one title in common, two layouts of monitors of which one begins left of zero, a key without a code; windows minimized from normal and from maximized |
| `Parts`, vision | grounding is best | eleven elements on the edges of the score's bands, two at a time, two of them also asked for by id (one of low similarity beside a better one), thresholds on both sides of 0.35, one tick to live |
| `Parts`, front and renderer | done means replied; no frozen state | two commands and two sockets; one typed command and two spoken turns (one that replaces the other) |

A property that is the conjunction of several has its parts as named definitions beside it.

Deadlock is checked except in the server's runs and in `Parts`: a server that has been
stopped and whose clients have gone has nothing left to do, main() ends, and what the other
parts are asked for comes to an end. `PlanValidator` stutters explicitly when done.

Each property of a passing run has a mutant in `PROJECT.json`: a plausible slip in a
definition that models code (the operators named `Mutant_...`, next to what they change)
with which TLC finds that property violated.

## 4. What the findings say

* `pause_run` stops nothing: the loop never reads `_paused_runs`.
* `resume_run` restarts nothing: it rewrites the state and returns the object.
* A heartbeat that fails has no consequence, so a hung core is never found out.
* The limit on concurrent requests is checked at reading and counted at running, so
  frames that are already buffered pass it together.
* A broadcast walks the live set of clients across awaits; a client that comes or goes
  meanwhile costs the others the event.
* An exit handler deletes by the service's name. If a child's exit event comes after its
  successor was spawned (a restart, or two starts around a quit), the successor is in no
  map and outlives the application. On platforms other than Windows a child that ignores
  SIGINT for 500 ms outlives it in any case.

Beside them, and true of the models without a document that says otherwise: every event is
dropped silently when the bus does not run (agents/orchestrator.py:78, tools/executor.py:58), so a
run may complete, and a tool may have run, without one; a run whose
wave fails ends with no `agent.failed` event; a cancel that arrives during the last wave
is seen in the state and not announced; a client that connects while `stop()` gathers the
loops keeps `stop()` waiting on Python 3.12, and one that does not read
keeps its own requests counted, a broadcast from the clients behind it, and `stop()` waiting on any
Python, so that a signal may not end the process; a signal that comes while the engine starts its
services may be lost: its shutdown ends, `start()` then clears `_shutdown_event` and reports
an engine online whose bus is stopped, and only a second signal ends it (this is why
`StopsInReverse` and `ExitIsClean` have the condition `~early`); a quit from a menu stops the services and is
then refused by the window, and a service that ends after that keeps its last state.

Also met while reading, in the models as the code has it, and not claimed by any check:

* Tools: a tool that returns `{"launched": False}` and the like counts as SUCCESS, although
  docs/agent-security.md:21 asks for verified outcomes; an execution whose caller is cancelled
  has neither a final event nor an audit record (docs/tool-architecture.md:8); `tools.list`
  reads `t.category.value` of a string.
* Voice: a `voice.stop` before the playback has begun is lost, and another session's start
  clears the flag (docs/voice-security.md:33); a barge-in that lands late stops whatever
  plays then; after ERROR or INTERRUPTED process_speech is refused until a reset; a reset while the
  agents or the synthesiser work makes start_speaking raise behind the playback task it is given
  (voice/pipeline.py:219), so that the audio plays with nobody awaiting it, in a session in ERROR
  (`torn`; `NoOrphanedAudio` says that this is the only way, and that the session shows it).
* AI: a stream falls back after tokens were passed on; a broken connection to Ollama and
  JSON that cannot be parsed are exceptions that no fallback follows; a call that is cancelled
  raises an AICancelledError which the agents take for a failure (ai/retry.py:51), so a run
  goes on after its caller has gone: this is why `CallerGivesUp` lets tasks swallow it.
* Memory: neighbours are not filtered by conversation, scope or type (README.md:245); pruning
  leaves vectors behind; a crash between insert and link makes a second memory of a preference
  (README.md:234); a message of normal priority is evicted at once when the window is full of
  higher ones; consolidation stores the same messages again; a migration is not the isolated
  transaction its docstring calls it, and only `IF NOT EXISTS` makes a broken one harmless; the
  context builder counts its entries against the token limit and not its headings.
* Desktop: tools always act as approved, since ToolExecutionContext has no `user_approved`;
  the only monitor listed is the virtual desktop; a click with coordinates in a window is always
  refused; focusing a maximized window restores it to normal, and one minimized from maximized to
  maximized; verify_window_focus compares handles only; `process_name` is never filled, so that app.focus and
  app.close, which ask for title and process at once, find no window; `NUMLOCK`
  and others raise a NameError, since KeyboardActionError is not imported.
* Vision: `capture(monitor_index=...)` is awaited though it is synchronous, and the error is
  swallowed, so the screen is always the mock one; the observation is dated after its analysis;
  an exact label and one with more words may tie at one and be called ambiguous; with a
  min_confidence below 0.35 a less similar element may be grounded over one that misses the
  candidates' cut-off of 0.3 (`GroundingIsBest` is conditioned on 0.35; the default is 0.6); an element asked for by its id is
  grounded whatever min_confidence asks and whatever stands beside it; resolve_target passes
  no screen bounds, so only negative coordinates are refused.
* Gateway and renderer: a health message worked out before an await is sent after "offline";
  the renderer gives up after 30 s while the core works on for up to 120; the retry button and
  the timer may open two WebSockets, of which the later close takes the other's requests;
  OFFLINE is overwritten by IDLE when pending requests settle; the retry button attaches all
  listeners a second time.

## 5. Fairness

* `Orchestrator`: weak fairness of the planner, of the loop and of each task. asyncio runs
  what can run; providers and tools have timeouts of their own, so an agent ends. No
  fairness of the lifecycle calls, the caller's timeout or crashes.
* `IPCClient`: weak fairness of timers, the heartbeat's among them, of connection attempts and close events (Node and the
  operating system deliver them); strong fairness of the handshake's answer, since a core
  that stays up answers within 5 seconds if it is asked often enough, though any single
  attempt may time out. None of the peer's changes: `Reconnects` assumes a core that is
  up for good.
* `IPCServer`: weak fairness of each loop and each request task: a handler ends within
  `request_timeout_sec`. Strong fairness of the step of a loop whose drain is over, since a buffer
  that empties wakes the loop for good. None of broadcasts and of stop(), which may wait for ever;
  and clients owe nothing, not even to read: `KeepsPromise` says of a request that it ends if its
  own client is found reading again and again.
* `Supervisor`: weak fairness of each call (probes answer, timers fire), of exit events and
  of the steps of quitting once the window lets itself be closed. No child owes it to
  listen or to end, and nobody owes a restart or a quit.
* `Engine`: weak fairness of what is main()'s own: that it returns once `_shutdown_event` is
  set, of each shutdown's last step, when the bus has drained, and of the end of a dispatch that
  is cancelled. None of a service's start or stop: the one registered is IPCServer, whose stop()
  may wait for ever for a client that does not read. `OnlineSignalEnds` therefore assumes
  `StopsReturn` (again and again no shutdown is waiting for a service). Nobody owes a signal or an
  event.
* `Parts`, voice: weak fairness of each turn's coroutine and of each playback task:
  recognisers, agents and synthesisers answer, raise or are cut off, and playback moves on.
  No fairness of barge-ins, stops, resets or new turns. The other parts are checked for
  safety only.
* `PlanValidator`: it is a loop that runs.

## 6. Proofs

Eight modules of proofs establish every safety property of the runs, state and action
properties both, for all values of the constants and from the named assumptions of the modules
only. The assumptions: the set of task ids is finite and budgets are natural numbers; the
orchestrator's plans are plans (`PlansAssumption`), which is what
`AcceptedPlanCanBeRunHolds` proves of the validator, with the same operator `IsPlan` of
`Plan`: the two proofs meet there; `NoChild` is no process and `Startup` no restart; there is
a service, and a WebSocket for the renderer to open; null values are none of the values they
stand beside; limits are natural numbers. Two kinds of theorems carry a hypothesis of their own:
those about the IPC client need `HandshakeIsKnown`, and `FallbackIsAcceptedHolds` needs four task ids
to write a plan of three steps with, and a limit of at least three steps (the code's is 20).

*Plan validation.* The invariant says what Kahn's algorithm keeps: `inDegree[t]` is the
number of entries of t's list whose task is not in an emitted wave; the current wave holds
just the tasks whose count has come to zero and that are not emitted; the emitted waves are
disjoint, and the dependencies of each are in earlier ones. It is needed because layering
alone is not kept by an iteration (nothing in it says when a count reaches zero), and it
counts entries, not tasks, which is why a repeated dependency is harmless. From it:
accepted plans are layered and closed under their dependencies, waves are as early as possible, and what a circular refusal
leaves over is a set closed under "needs something in the set". That no wave is empty also bounds
the loop (`RoundsAreFewHolds`), on cyclic plans too; the run has the rest, that it ends. `FallbackIsAccepted` is proved
of the planner's plans branch by branch: each has at most three steps whose ids differ, whose
dependencies point backwards, and whose agents, tools and arguments are among those registered;
then no check of the validator can refuse it, and by the first invariant Kahn's loop cannot
stop short on dependencies that point backwards.

*Orchestrator.* Four invariants, each inductive on top of the one before:
`WavesInv` (the waves before the current one are verified, those after it untouched, and
the checkpoint that resume_run may load is the run itself) gives `DependenciesFirst` and
`NothingStartsAfterCancel`; `RecoveryInv` (the number of retries recorded is the sum of
what each task was handed out beyond the first time, within the shared budget) gives
`RecoveryBounded`; `OutcomeInv` (terminal events and COMPLETED only behind the last wave,
with all tasks quiet) gives `CompletedMeansVerified`, which speaks of the run in memory, of the
checkpoint file and of the event, and `OneVerdictAnnounced`: the verdict that was announced, if one
was (a bus that does not run announces none), is one, and the response does not contradict it; `FileInv`
gives `FileBehindRun`. Without the part on checkpoints they are not inductive: resume_run
puts back whatever load returns, and only because the memory store shares the object does
that not undo verified work.

`RunsAsPromisedHolds` shows that the orchestrator implements `Execution`, with a task handed out
when its execution count is positive and verified when its verification says so. Each action is a
step of `Execution` or a stutter: planning, a retry, collecting a wave's results and the start
of the next are `Work`; cancel, pause and resume in a living process are `Hold`; a resume after
a crash is `Reload`. It needs `WavesInv` (the tasks of a wave that starts are due, `WaveIsDue`),
`OutcomeInv` (an answer of completed is behind the last wave) and `HandedInv`: what was started or
verified, in memory or on file, was handed out, and there is no plan before one is made and after a
crash until a checkpoint is loaded. `NothingStartsAfterCancel` says one part of it by itself and
has a theorem of its own.

*Supervisor.* `LivingIsEntered` and `NothingLeftBehind` need to know that without a restart
there is one call that spawns, and that it spawns once: before that nothing of this life
exists, after it at most one child does (`SpawnsOnce`), which is the entered one until
`isShuttingDown` (`OursIsEntered`). On Windows all that lives is the entry, or what the pid
file says after a crash (`LivingIsKnown`); for the crash, entry and file must agree, which
is `EntryOnFile`, and that in turn needs `DownIsEmpty` and `OursExist`. A restart breaks the
chain where it lets a second child be spawned before the first one's exit event.

*Engine.* `Drains` says what is set only once the bus is quiet (`stopped`, a call that is
done) and holds in every interleaving, because the bus is started in the first step and
never again. `Ordered` holds as long as no signal came during the start: while services are
started nobody shuts anything down (`StartIsAlone`), and above the service a shutdown waits
for nothing is up (`WalksDown`), which is what makes a second walk from the top harmless. It
is needed because the order alone does not say where a walk has come to.

*IPC client.* The theorems hold for any requests, ids and sockets and assume
`HandshakeIsKnown`: no request has the id of a handshake (`handshake_` and a time), since the
answer to a handshake is taken by the connect callback that awaits it. Nothing is assumed
of the requests' ids among themselves or of the pings'. What has to be added to `LinkIsSound`
to make it inductive is who owns an entry (`EntriesAreSound`: an entry is of a waiting call under
its own id, a waiting call has its timer, and is entered if it shares its id with nobody),
which sockets may exist (`SocketsAreSound`: at most one is not free), and what each state says of
socket, handshake and timers (`StateIsSound`); the last is why no close event finds the client
without a way back. With these, `ImplementsRequestReply` shows that every step of the client is,
for the requests with an id of their own, a step of `RequestReply` or a stutter: a promise that is
settled stays so, and only a call that waits is answered or given up. That is the safety
part of `KeepsPromise`.

*IPC server.* The counter is the number of request tasks between their increment and their
finally clause, those that wait in the drain of their reply included, so the proof of `CountIsExact` is about a cardinality of a finite set and what
one task's step does to it. `ListedAreServed` and `ServedAreListed` are about who takes a writer
off the list: besides loop and stop() also a broadcast, which takes off those it believes
dead; `CastsAreSound` says that whom it believes dead is (the connection is down or has sent
its end), and stays so while the broadcast is suspended.
The server implements `RequestReply` too (`ImplementsRequestReply`): seen from its clients, a
request is answered once (by the router, or refused as busy) or lost with its connection, and
what a connection takes with it had no answer (`LostAreGivenUp`). A client that does not read
changes none of this; it costs liveness, which `KeepsPromise` promises only to clients that read.

*Parts.* `Apart` says that a step of `Parts` is a step of each part or leaves it alone; each
property is then proved of its part.
- `EverythingTyped` is the type invariant of all ten, `StopsInReverseAmongParts` and
  `CleanShutdownAmongParts` are the engine's theorems carried over to them.
- `VitalMessagesGoLast`, and that the window keeps its limits, are facts about loops over
  sequences. That `Kept`, `Total` and the loop of `Bounded` have a value at every step follows
  from the existence and uniqueness of such functions up to any length (`Recursion`, `OnlyOne`),
  and induction is done by the least counterexample (`LeastNumber`, `EverySequence`), so that no
  theorem with an operator for a parameter is needed. The loop invariant of the eviction
  (`Left`) says that what is left is part of the window, in its order, that it fits or has lost a
  message in every round, that a vital message has gone only if none but vital ones are left,
  and that one of those that have gone would not fit beside what is left. `WindowIInv` adds to
  the limits that the window is part of what was said, in that order, and that no message is in
  the summary and in the window.
- `NoFrozenFace` is inductive with the types alone, and so is `DoneIsReplied` with
  `SuccessIsReplied` (a success on its way back is of a command the core has answered).
- `AudioIsOwned` and `StopSilences` need that a turn with the agents or the synthesiser has its
  session in processing, or was reset (`torn`): then start_speaking refuses, which leaves the
  session in ERROR with the playback it could not await; and that the shared flag is set while
  somebody is to be silent: playbacks that are already playing see it before their next chunk.
- `StoresAlwaysAgree` needs that the write under way owns its memory (`Owned`): the id it will
  mark is not yet marked, and no preference refers to it before it is linked; and that no
  two preferences share a memory.
- `EveryCallWasDue` needs what the candidates still have to give (`UnderWay`): the current one
  was called once for each attempt, those behind it not at all; and that the last call is what
  makes the next one due (`LastIsDue`). That no candidate comes twice in the list is what keeps
  a provider from being asked more often than its retries allow. `AnswersHaveAPrice` adds it up: a
  completion costs at most one call and the retries of each of the four providers.
- `VerifiedIsSo` is about what one action leaves behind, with the hand in between: the pointer,
  the clipboard, the keys, and which window is in front (not how it is shown, which nothing verifies).
- `RecordsAreTrue` holds with a bus that stops at any moment: an event may then be missing, and
  the record may not. It and `CompletionIsEarned` need where each job stands: executions beyond the
  current tool do not exist, those before it are over, and the tools before it have succeeded
  in this attempt (`JobsAreSound`, `ExecutionsAreSound`).
- `GroundedIsBest` compares scores. Nothing scores more than one (`ScoreIsBounded`), so an element
  asked for by its id is the first candidate (`NamedIsFirst`). When none is, an element of the same kind that is more similar may score
  less, but by at most 50 thousandths, before both are scaled by the same confidence, and the
  check for ambiguity refuses whatever has a rival within 80 (`RawScoreDrops`, `NeverFarAhead`);
  from a threshold of 0.35 on the rival is among the candidates, so the check sees it.

- `StoresAlwaysAgree` includes the schema (`SchemaIsBuilt`): a version is on record only behind
  its complete script, and a connection is handed out only behind all versions.

Model-checked only: all liveness (`ValidationEnds`, `RunEnds`, `ComesToRest`,
`EverythingEnds`, `OnlineSignalEnds`, `TurnsEnd`, and the parts of the client's and the server's
`KeepsPromise` that say every request is settled), which rests on fairness and ENABLED, and these the prover does not reach.

## 7. What is not modelled

* Text: prompts, answers, summaries, logs, redaction, context building. The properties do not
  look at it; what a model answers is any answer, failure or exception.
* Numerics behind an interface: embeddings and distances, audio, voice activity detection, OCR,
  image detection. Their results are any result.
* I/O without protocol: document and browser tools, launching itself (which application a goal
  resolves to is in `Planner`), screenshots, the vault, settings, health and metrics endpoints, Electron windows, tray and hotkeys, the page.
* The built-in agents but planner and coding agent: each is one model call around a prompt,
  which `Orchestrator` has as an agent that answers, fails or raises.
* ApprovalManager, CheckpointStore.delete, registry changes after the start, the window_close
  tool: the program never calls or registers them.
* Memory consolidation.
* Bytes: IPC frames are whole (framing.py's 64 KiB limit is a frame of its own kind in
  `IPCServer`; the splitting of a multi-byte character between chunks in framing.ts is not
  modelled), and WebSocket messages too.
* The protocol package: checks of one message, without state.

What could follow: consolidation as one more writer of `Memory`; and `Orchestrator` over
`Tools`, its tasks being the coding agent's jobs.
