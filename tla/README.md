# Formal verification of D3D12 LookDev PT with AI

This directory holds TLA+ models of the control logic of the application, the
TLC configurations that model-check them and TLAPS proofs of the properties that
matter most. The program is a Windows path tracer with a WinUI editor, an MCP
server inside the editor and a local AI assistant that runs in a process of its
own (ChatHost), owns a model server, and drives the editor through the MCP server.

The models are about *who does what in which order*: threads, awaits, locks,
frames in flight, time-outs, cancellations, failures, crashes and shutdown. What
is drawn, geometry, file formats and numerical shader code are data and are left
out.

## 1. The system

```
  WinUI window (UI thread) ---- RendererController ----> renderer thread (backend)
     |  AssistantWindow            commands, gate            |  LookDevProject, McpReviews
     |  (turn, approvals)          snapshots, stop           |  FrameHistory -> GPU
     |                                                       v
  AssistantHostBridge                                   McpDispatcher
     |  reader + writer threads                              ^  submit, wait
     |  named pipe, JSON frames                              |
     v                                                  McpServer (HTTP workers,
  ChatHost process                                      sessions, grants)
     PipeRequestRouter -> ChatCoordinator                    ^
     |      store, SameInstanceMcpClient -- McpSession ------+
     +--> LocalModelSetup (downloads, settings on disk)
     +--> LlamaSession (llama-server process, loopback port)
```

| component | state it keeps | operations | what makes it hard |
|---|---|---|---|
| Chat turn coordinator (`ChatCoordinator.cs`) | the one active turn, its disposition, open prompts, tool state, the MCP client | prepare/start/abort/cancel a turn, run its rounds, prompt, answer, reset, stop | every `await` is a place where cancellation, another request or shutdown comes in; two stops at once |
| Request router and worker (`PipeRequestRouter.cs`, `ChatHostWorker.cs`) | initialised flag, request loop | one handler per request, ordered clean-up | work done after a response was sent; loop ended by any failure |
| Chat pipe (`NamedPipeConnection.cs`, `PipeProtocol.cs`) | write lock, sequence | read, respond, send event | cancelled and lost writes, a frame cut in two |
| Assistant host bridge (`AssistantHostBridge.cpp`) | bounded frame queue, flags, two threads, a child process | Start, Post, StopAndJoin, Fail | flags outside the mutex, condition variable, three threads that fail and stop |
| Assistant window (`MainWindow.Assistant.cpp`) | UI state of the session and its turn, approval cards, tool cards, the set-up card | start, stop, retry, send, cancel, approve, handle event/state/snapshot | events late, lost or for an old bridge; render gate |
| Renderer controller (`RendererController.cpp` and its two headers) | command queue, snapshot mailbox, shutdown flags | Enqueue, Attach/Detach, gate, stop, render loop | coalescing, hand-over of the swap chain, failure at any point |
| MCP dispatcher (`McpDispatcher.cpp`) | queue of commands with promises | Submit, ProcessOne, Approve, Reject, Cancel, CancelAll | five parties settle one promise |
| MCP server (`McpServer.cpp`) | sessions, approval grants, worker threads | Start, Stop, HTTP methods, grant issue/consume | join of workers by the render thread; expiry; restart around a request |
| Same-instance MCP client (`SameInstanceMcpClient.cs`) | session, tools, used grants, gate | GetTools, CreateApprovalBinding, CallTool, Dispose | retry after session expiry, a request given up that still runs |
| Renderer backend: reviews and captures | captures, comparisons, reviews, one readback, pins | start/cancel review, capture, compare, per-frame advance | GPU copy and encoding that finish late; a budget that evicts; five ends of a review |
| Renderer backend: scenes and projects | scene, project path and dirty flag, loader, checkpoints, benchmark, session files | load, save, new scene, checkpoint, benchmark, restore at launch | background loads, crash between two files, put-back of an older state |
| Renderer backend: frames | resources, valid histories, frames in flight, NRD | edits and tools, refresh, build, record, submit | some forty callers each say what they invalidate; the GPU is two frames behind |
| Inference (`LlamaServer*.cs`) | session gate, process, leases, key file, trusted ports | get session, stream, dispose | process exit and port reuse, settings changed, watcher callback |
| Local model setup (`LocalModelSetup.cs`) | partial files, runtime directory, settings, acceptance | start, cancel, stop, resume | server that misreads a range, cancellation, crash between any two writes |
| Conversation store (`SqliteConversationStore.cs`) | tables | append, reset, list | a reset beside a turn |
| Protocol, settings and paths, importers, benchmark metrics, DLSS/RTXDI, shaders, scripts | - | pure functions and data | not concurrent (see section 7) |

What makes each of them correct:

* coordinator: one turn at a time; exactly one terminal event for an accepted
  turn; no mutation without the user's approval; a denied mutation stays denied;
  text that was shown is stored or its loss is told; a completed turn closed its
  tool calls; stopping leaves nothing behind and always ends;
* bridge: frames in order and once; one failure report; nothing left after a
  stop; an accepted frame is taken by the writer;
* renderer controller: an edit is never moved across a barrier command; at most
  one frame after the gate closes; no present after detach; closing returns;
* window: rendering is gated as long as a turn may use the GPU and goes on
  afterwards; nothing of an old turn or session changes the new one; the
  ChatHost belongs to the MCP server's current start;
* dispatcher: each promise set once; answers that are true; no mutation without
  authority; workers and stop always end;
* MCP session: no call runs twice, a refused one never, an approval is good for
  the start of the server it was given under;
* reviews: an image is pinned exactly while an active review needs it, the
  budget holds, a review shows its own views or says that one is gone, and ends;
* projects: a restore is of what one save wrote and is tried once; "saved" means
  the file holds what is shown; a checkpoint puts back exactly what it was made
  of; the newest load wins;
* frames: no frame mixes in an outdated history, loses a resource under the GPU
  or finds a placeholder;
* model server: one process, owned; prompts only to it; nothing left behind;
* setup: settings on disk name verified files only, downloads are kept, the
  window is told the truth, a user who keeps asking gets a model.

`PROJECT.json` lists every component with its status and every hazard with its line.

## 2. Modules

| module | models | kind |
|---|---|---|
| `TurnLifecycle` | what ChatHost promises about a turn: reserve, accept or refuse, one report, end | abstract specification |
| `ChatCoordinator` | `ChatCoordinator.cs`, router, worker, pipe as seen by them | detailed specification |
| `ChatInvariant` | the inductive invariant of `ChatCoordinator` | invariant |
| `ChatProofs` | its theorems | proofs |
| `McpDispatcher`, `DispatcherProofs` | `McpDispatcher.cpp`, its submitters and the stop of the server | specification, proofs |
| `McpSession`, `McpProofs` | `SameInstanceMcpClient.cs`, the approval grants, sessions and worker threads of `McpServer.cpp` | specification, proofs |
| `HostChannel` | what the bridge promises the window: start, connection and end once each, whenever a failure falls, and frames in order between connection and end | abstract specification |
| `AssistantHostBridge`, `BridgeProofs` | `AssistantHostBridge.cpp` and its child process | specification, proofs |
| `AssistantWindow`, `BridgeProofs` | the assistant part of `MainWindow.Assistant.cpp`, between the renderer's snapshots, the bridge and a ChatHost that follows `TurnLifecycle` | specification, composed, proofs |
| `RendererController`, `RendererProofs` | `RendererController.cpp`, queue, mailbox, the window's use of it, the benchmark flag | specification, proofs |
| `LlamaSession`, `InferenceProofs` | `LlamaServerProcessSessionProvider.cs`, `LlamaServerChatInferenceRuntime.cs` | specification, proofs |
| `LocalModelSetup`, `InferenceProofs` | `LocalModelSetup.cs` with its pipe messages and the window's set-up card | specification, proofs |
| `McpReviews`, `BackendProofs` | captures, comparisons and reviews of `D3D12PathTracingBackend.cpp` | specification, proofs |
| `LookDevProject`, `BackendProofs` | scenes, projects, checkpoints, benchmarks and the saved session of the backend | specification, proofs |
| `FrameHistory`, `FrameProofs` | edits, tools, GPU resources, frames in flight and temporal histories of the backend, NRD and the guards of the shaders | specification, proofs |
| `MC_ChatCoordinator`, `MC_LocalModelSetup`, `MC_McpDispatcher` | small sets and symmetry | model checking |

The other specifications are instantiated by their `.cfg` alone. `TypeOK` is the
type invariant of every module. It is proved for `ChatCoordinator`,
`McpDispatcher`, `McpSession`, `RendererController`, `FrameHistory`,
`AssistantHostBridge`, `AssistantWindow`, `LlamaSession`, `LocalModelSetup`,
`McpReviews` and `LookDevProject`; the runs spend their properties on what could be wrong and do not
list it. `BackendProofs` extends `McpReviews` and `LookDevProject`, both of them
parts of the backend, and `InferenceProofs` extends `LlamaSession` and
`LocalModelSetup`, both behind ChatHost's local inference, `BridgeProofs` extends
`AssistantHostBridge` and `AssistantWindow`, the two ends of one C++ interface; so
the second one's `Init`, `Next`, `Spec` and `TypeOK` are named `ProjectInit`,
`SetupInit`, `WindowInit` and so on.

### ChatCoordinator

Every `await` is a step boundary, and what stands between two awaits is one
action. `router` says what the request loop awaits, `pc[t]` where the task of
turn `t` is, `stopper` where the two runs of `StopAsync` are: the worker's own
(in the `finally` of its loop) and the host's (`IHostedService.StopAsync`), which
the code can run at the same time. `activeTurn`, `disposition`, `cancelled` and
`completed` are `_activeTurn` and the fields of `ActiveTurn`; `approvalState` and
`resolution` are `PendingApproval`. A send is delivered, ends by cancellation of
the token it is given, or fails since the pipe broke. A send that was delivered
is not reported as cancelled: the only await after the last write is
`NamedPipeClientStream.FlushAsync`, which does nothing. Texts, byte budgets
and the model's answers are nondeterministic choices between the outcomes the
code tells apart (answer, tool calls, malformed or failed round).

### McpDispatcher

A worker is named for the one command it submits. `commands` is `m_commands` as
a set (the deque is ordered by `id`, so "the first command that may run" is a
minimum). `render` holds what the render thread has taken out of the queue but
not settled or run yet, because `set_value` and the executor run outside the
lock. A deadline that has passed (`late`) is seen by `ExpireLocked` and by the
worker's own wait. A server that was stopped is not started again here; the
restart is in `McpSession`.

### McpSession

One client, from its first `GetToolsAsync` to its `DisposeAsync`, and the server
with a worker thread for each request. `client` holds the fields of
`SameInstanceMcpClient` with the operation at its gate (`op`), whether a request
is under way (`waits`) and whether the operation is its second attempt. `calls`
is what the coordinator knows of each call and the session its approval was bound
to. A worker remembers its request, where it is (`sent`, `resolved`, `authorized`,
`answered`) and whether the client still listens to it (`heard`): a request that
was given up, cancelled or lost its connection goes on at the server. `Stop` is
four steps, as in the code: revoke the grants, close the sockets, clear the
sessions, join the workers. Time is three facts, each bounded: a request is
given up (30 s), a grant is stale (30 s), a session was idle (30 min).
`Consume`'s removal and comparison are one action, under the broker's mutex.

### AssistantHostBridge

The flags are atomics read and written without `m_queueMutex`: each access is a
step. A critical section is one step, except for the condition variable's wait,
which tests in one step and blocks in the next; `notify` only wakes a writer that
is already blocked. `Fail` may be run by either thread, one store or call after
the other; the stores that precede the notification and that nobody reads in
between are one step. The writer begins with an event of its own, which it may fail
to create (`WriterBegins`) before the reader has said anything: the reader does not
look at `m_failed` and goes on to connect. `Channel` maps `updates`, `posted`, `sent`
and whether the bridge is started and not joined (`up`) to the state of `HostChannel`.

### AssistantWindow

The composition of the window with the other end of its pipe. The UI thread runs
one handler at a time (`at = "idle"`), except that `StopAssistant` blocks it in
`StopAndJoin` (`at = "join"`, from `BeginStop` to `StopReturns`) while ChatHost goes
on. `pane` is the part of
`AssistantUiState` that decides something, `approval` the cards with their flags
`pending`, `allowed`, `mutationStarted` and `terminal`, `session` which
`AssistantUiState` `m_assistant` points to. `toUi` is the dispatcher queue: its
messages remember the session they were queued for, as the sinks' weak pointers
do, so what an old bridge queued (its own `Stopped` included) reaches the UI
thread after the restart and has to be dropped there. The bridge is reduced to a
status and two FIFO queues, as `HostChannel` promises and `AssistantHostBridge`
implements; its status `late` is a bridge that has failed and may still report its
connection. ChatHost is reduced to the actions of `TurnLifecycle`, which `ChatCoordinator` implements,
with one pending tool call. A snapshot is the MCP server's state, its generation
and the project.

### RendererController

`ui` and `render` are the two threads; `commands`, `loopStopped`,
`viewportDetached`, `threadFinished` and `swapChain` are the members under
`m_stateMutex`. A command either sets a key (and may be coalesced) or is a
barrier; its value is its number. `wanted` is what the user set last, `wantedAt`
what the user had set when a barrier was enqueued. The backend may throw in any
of its calls. `bench` and `benchFinished` follow the benchmark from its start by
the command line or by an MCP client to its end; the session snapshot is assumed
to be switched on.

### LlamaSession

Each start of a server is an attempt with its own process, port, leases, key
file, watcher and settings (`att`), because the objects of a failed start are
unwound while the next one begins. `gate` is the `SemaphoreSlim`, `running` is
`_running`. A caller passes through the steps of `GetSessionAsync` and then, for
a stream, through port look-up, connection, request and stream. Around it:
processes that exit or hang, a port taken by another program once nobody listens,
the file watcher's notification, edits of the settings, and the disposal of
runtime and provider. The caller's own token needs no variable: it may fire at
any await, and the model lets the await end. A kill succeeds in the end.

### LocalModelSetup

`partial`, `file`, `installed`, `settings` and `accepted` are the disk and
outlive the host; `op` is the running setup, `toHost` and `toWindow` the pipe,
`active`, `requestId`, `asked` and `shown` the window's card. An artifact is
`Size` chunks of which each may be wrong; the server may send the whole artifact,
the asked range, another range, 416, too much, or break off. A progress write
that is cancelled after its length prefix leaves a frame after which the next is
read as its rest (`silent` marks a window that lost something this way). A host
that crashes takes the setup, the pipe and the window's wait with it.

### McpReviews

All of it is under `m_mcpSnapshotMutex`, so a critical section is an action, and
the locks the render thread gives up between (advance, begin, stop) are steps
(`render`). An artifact is its access serial, by which eviction orders. `pipe` is
the one readback and its encoding future, which keep the review and view they
were started for. `slack` records that a review gave up since the budget was
last enforced.

### LookDevProject

`live` is the scene and, as one value, everything an import resets; `files` and
`disk` are sets with what a load would find (empty when missing or torn). `at`
walks the render thread through launch, restore, the loop of `OnUpdate` and the
exit; a crash may come at every step, and loads and file operations may fail.
`load` is the importer with its cancel flag, its result and the queued next scene.
A checkpoint knows whether the scene fingerprint is still its own, since a
fingerprint never returns. `answer`, `exit` and `sound` are history variables:
what became of each load, what the last clean exit did, and whether the dirty
flag was only set by edits, loads and saves since it was last known to be true.

### FrameHistory

`phase` walks the render thread through commands, loads, tools, building and
rendering of a frame; `inFlight` is what the GPU has not finished. `history` is
the set of valid domains and the accumulation; `stale` is the ghost truth: the
domains whose content is older than a change of what they were made from
(`Inputs`, read from the passes), or not written by the frame before. Edits, tools,
loads, resizes, presets and captures are actions with the invalidations their code
requests, which need not be those their change calls for. Five changes ask for
none or too few; what they outdate beyond that goes to a second ghost, `unsaid`,
which is counted as mixed like the first and excepted by name:

| change | action | code | what it resets |
|---|---|---|---|
| a material selected while a focus mode shows it | `EditSelection` | `WinUI.cpp:832` | the reference image, at the next frame (`HasAccumulationStateChanged`) |
| a preset of the denoiser | `EditPreset` | `WinUI.cpp:1179`, `backend.cpp:13204` | the reference image, if a compared setting changes |
| `set_color_management` | `ToolColors` | `backend.cpp:4840` | the reference image |
| `set_denoise` told to keep the history | `ToolDenoise` | `backend.cpp:4989` | the reference image, unless passes change |
| `set_view` for the direction of normal maps | `ToolNormals` | `backend.cpp:5143` | denoiser and TAA, not the reference image |

`Blends` and `Recorded` are the guards of the
passes and shaders. `outputs` says for which passes the resources were created
and `frame.lacks` which a frame would find missing.

## 3. Runs

| run | instance | properties |
|---|---|---|
| `chat_turn` | 1 turn, 2 rounds, 1 call each, 1 mutation with 2 prompts, stalling pipe, fairness | `OneTerminalPerTurn`, `MutationNeedsApproval`, `DeniedStaysDenied`, `CompletedClosesTools`, `CancelledAndStoppedEnd` |
| `chat_two_turns` | 2 turns, 1 round, a read, symmetry | `StopLeavesNothing`, `VisibleTextIsKept`, `ImplementsLifecycle` |
| `dispatcher` | 2 workers, queue of 1, 3 access modes, fairness | `AnswersAreTrue`, `MutationIsAuthorized`, `WorkersAndStopEnd` |
| `mcp_session` | 1 read, 1 mutation, 1 broken connection, 1 idle half hour, 1 stopped turn, 1 restart | `CallRunsOnce`, `RefusedNeverRuns`, `ApprovalDiesWithItsServer`, `ClientOperationsEnd` |
| `host_bridge` | queue of 2, 4 requests, fairness | `StoppedLeavesNothing`, `ImplementsChannel`, `QueuedFrameIsTaken` |
| `window` | 2 turns with a prompt each, queue of 1, 2 projects, one change of the snapshot or Retry, fairness | `GateCoversTurn`, `MessagesFit`, `WindowSettles` |
| `renderer` | 2 keys, 3 commands, MCP benchmark, fairness | `EditsKeepTheirOrder`, `PresentsAreAllowed`, `WindowCloses` |
| `llama_session` | 2 callers, 2 settings, 2 starts, 1 edit | `ServersAreOwned`, `CallersReachTheirs`, `CallsAndDisposalEnd` |
| `setup` | 1 model, a runtime of 2 archives, 2 chunks each, 2 attempts, 3 faults, 1 cancel, 1 crash | `WindowIsTold`, `DiskIsSound`, `SetupsEnd` |
| `mcp_reviews` | 2 reviews of 2 views, 2 other requests, 1 stop, budget of 2 captures, history of 1 review | `ArtifactsAreKept`, `ReviewsAreTrue`, `ReviewsEndForGood` |
| `project` | 1 path, 2 loads, 1 checkpoint kept, 4 commands, 3 launches, 2 faults, 1 crash | `RestoresAreTrue`, `CleanMeansSaved`, `CheckpointIsExact`, `LatestLoadWins` |
| `frame_history` | 2 contexts, 2 samples, 3 events | `HistoryIsCurrent`, `FramesKeepTheirs`, `PassesFindTheirs` |

A property that answers one question in several parts is a conjunction of named
definitions, each with its own comment (`ServersAreOwned` is `OneServer`,
`NothingLeftBehind` and `ChangedRuntimeIsKilled`, for example). For each property
`PROJECT.json` has mutations of a modelled definition, of the kind a plausible
bug would be, under which TLC finds it violated.

Bounds and why they are enough.

* Two rounds, two calls and two prompts of the same mutation are the least in
  which a denial can be met again, a round can follow a failed call and the
  limits can be reached with work left. Two turns are the least in which one can
  meet the slot of another.
* Two workers on a queue of one are the least in which a command is refused while
  another waits for approval, is taken or expires.
* One read and one mutation meet each other's sessions and grants. One fault, one
  expiry, one cancellation and one restart combine in every order; a second
  attempt is the most the client makes. `McpProofs` removes these bounds
  for the safety properties.
* Two turns, one queued frame and one change of the snapshot are the least in
  which a message of an old turn or session can meet a new one, and in which a
  cancellation, an answer or the shutdown finds the queue full. Two frames of
  queue and four requests fill the bridge's queue twice.
* Three commands are the least in which an edit precedes a barrier and is
  repeated after it, or a command between two edits of one key stays.
* Two starts of the model server are the least in which one is replaced and its
  remains meet the next; two callers the least that wait for each other.
* Two chunks make a partial file; two archives are the runtime that can be half
  installed; two attempts one retry. Three faults with one cancellation and one
  crash allow a bad partial file, its continuation and a failed clean-up of it.
* A budget of two captures is less than two reviews need; a history of one review
  evicts a finished review when the next starts; two reviews with a baseline share
  a capture.
* Two loads are the least where one supersedes the other; three launches the least
  where a session is saved, tried, and must not be tried again; four commands
  reach edit, checkpoint, another load and restore, or save, edit, benchmark and
  its cancellation.
* Two contexts are the code's `FrameCount`. Three events are a change, a failure
  or wake-up behind it, and a second change whose guard depends on the first; two
  samples tell an accumulation that restarts from one that goes on.

Deadlock is checked in `frame_history`, whose loop never ends. In the others it is
not: the models end where the program ends (the host has exited, the window is
closed, all workers have answered, a bound is used up).

## 4. Fairness

* ChatHost: tasks whose awaited operation can end go on (the thread pool is
  fair), separately for the request loop, each turn and each run of `StopAsync`.
  Nothing makes the pipe resume, the user answer, the model or the server finish
  by themselves: the properties only rely on cancellation, and on the time-outs
  the code has (terminal event, stop budget).
* Dispatcher: a worker goes on, a deadline passes, and the render thread
  finishes what it has taken out of the queue. Frames are not fair: rendering may
  pause for ever.
* MCP session: the client's steps and its timers (30 s for a request, a quarter
  of a second for the DELETE). The server, whose render thread may be busy for as
  long as it likes, is not fair.
* Bridge: the three threads run and the connection attempt times out. Reads and
  writes need the child and are not fair.
* Window: the UI thread runs its queue and its timer, ChatHost serves requests,
  and a turn that was cancelled goes on, as `CancelledAndStoppedEnd` shows of
  `ChatCoordinator`. Model, user, connection and failures are not fair.
* Renderer: both threads run. User input, attachment and failures are not fair.
* Model server: every await inside the gate is bounded by the code (two seconds
  for a probe, 90 for the start, half a second for an exit) and ends, whether
  or not a killed process is gone by then. A request whose headers never come ends only by its token.
* Setup: the host's threads run, the pipe is read, a server answers or fails, and
  the user asks again (`SetupGetsThere` is about a user who does). Faults,
  cancellations and crashes are bounded and nobody's duty.
* Reviews: the render loop goes on and deadlines pass. The GPU, the encoder, the
  scene and the clients need not do anything.
* Projects and frames: safety only, no fairness.

## 5. Proofs

All theorems hold for every value of the constants that satisfies the named
assumptions of the modules (`NamesAssumption`, `LimitsAssumption`,
`DispatcherAssumption`, `CallsAssumption`, `BoundsAssumption`,
`RendererAssumption`, `FrameAssumption`, `BoundsAreNatural`, `NoSettingsIsApart`,
`HoldersAreApart`, `SetupAssumption`, `ReviewsAssumption`, `ProjectAssumption`,
`WindowAssumption`).

* `ChatProofs!TypeCorrect`: one lemma per group of actions shows that it
  keeps `TypeOK`.
* `ChatProofs`: `IInv` of `ChatInvariant` is proved inductive, part by
  part. `OneTurnAtATime` alone is not inductive: that the slot is given back by
  the right task needs the router's position (`SlotInv`), that the report is
  sent once needs the task's position (`TerminalInv`), and that a prompt pays for
  one call needs the numbering of prompts and the state of each (`PromptInv`).
  From it follow `OneTurnAlways`, `ResetAlwaysExcludesTurns`,
  `OneTerminalAlways` and `MutationAlwaysNeedsApproval`. Five more parts carry
  the properties about what a turn leaves behind. `ToolInv` names the positions
  at which an announced call may still be open; none of them leads to a
  completed event without closing it (`CompletedAlwaysClosesTools`). `DeniedInv`
  says that what was asked and not allowed is either still being asked, or
  remembered before the next call is bound, or its turn only reports its end
  (`DeniedAlwaysStays`). `TextInv` follows shown text to the report of its
  cancellation (`VisibleTextAlwaysKept`). `RegisteredInv` ties a registered prompt
  to the task that waits for it, and `StopInv` a live client to its one owner and
  the slot to the turn the worker has taken: with them the two concurrent stops
  leave nothing (`StopAlwaysLeavesNothing`).
* `ChatProofs!LifecycleImplemented`: `ChatCoordinator` implements
  `TurnLifecycle`; each action is a step of it or a stutter, under the witnesses
  `Phase` and `ReportOf`.
* `DispatcherProofs`: the invariant says that each submitted command is held by
  exactly one of the queue, the render thread's lists and its settled promise
  (`HolderInv`, `RenderInv`, `OutcomeInv`) and with which authority it was queued
  (`AuthorityInv`). `AnswersAlwaysTrue`, `AnsweredNeverQueued`,
  `MutationAlwaysAuthorized` and `PromiseAlwaysSetOnce` follow.
* `McpProofs`: `TypeCorrect` and the safety properties, for any set of calls and
  any number of faults, expiries, cancellations and restarts. `CallRunsOnce`
  alone is not inductive. `GateInv` ties the operation at the gate to the one
  call that is binding or calling; `HeardInv` says the client listens to at most
  one worker, and to one for its own call; `OnceInv` that a call has at most one
  worker, and none of those still on its way has run; `UnsentInv` that a call
  which may still be sent has no worker and has not run, which is what makes a
  retry after a 404 safe; `SessionInv` that sessions are numbered by birth and a
  server that is down has no worker; `ApprovalInv` that a grant which can still be
  consumed belongs to the present start of the server. From the six follow
  `CallsRunOnce`, `RefusedAlwaysNever` and `ApprovalAlwaysDies`.
* `RendererProofs`: for any properties and any number of commands. The property
  about edits is restated of a sequence (`Ordered`), and three lemmas say what
  applying its first command, appending one and replacing one do to it. The
  replacement is right for two reasons that only hold together: no barrier
  follows the replaced command (`Replaced`), and it is the last of its key, which
  is what `Coalesced`, part of `TypeOK`, gives. `QueueInv` says that a batch is
  empty when the next is taken and that commands are numbered by their making, so
  that a barrier's values are never written again. `FrameInv` says that a renderer
  that submitted its frame after the gate closed looks at the gate before the
  next; `LoopInv` that a loop reported as stopped does not run again.
  `EditsAlwaysKeepTheirOrder` and `PresentsAlwaysAllowed` follow.
* `FrameProofs`: for any number of contexts, samples and events. What a run
  with three events can only sample, the proof shows for every sequence of edits,
  tools, loads, failures and captures between two frames. `FlightInv` adds that
  no two frames in flight have the same context, without which finishing the
  oldest would not free the next. `OutputsInv` says that the resources fit the
  settings unless `refresh` is `"full"`, and that from the tools on the rays have
  theirs even then. `HistoryInv` has two halves, since the rays run also while
  the other resources are missing: `RaysFresh` holds from the tools on in any
  case, `PassesFresh` while nothing is to be made anew, and between building and
  recording `Promised` says that the constants of the frame mark as valid just
  what its passes will write. The lemmas `DomainFacts` (a change invalidates what
  it outdates) and `BuiltFacts` (a frame built from current histories mixes
  current ones, its own camera, view and resolution included) carry it. The five
  changes of section 2 stay excepted: what they alone outdate is not in `stale`,
  and the theorem says that a frame mixes nothing else that is out of date.
* `BridgeProofs`, bridge: for any size of the queue and any number of requests. The writer
  writes `m_outbound.front()` without the lock and removes it after, so between
  the two the frame is both written and queued: `QueueInv` counts it once, and
  needs that nobody but the writer takes from the queue. `ConnectInv` says that
  before the reader has published "Connected" nothing was accepted, so that the
  queue is empty however the writer began; `FailInv` that of reader and writer the
  one that set `m_failed` reports it; `UpdatesInv` says what the window hears at
  most once and what not after "Stopped",
  and `StopInv` how far `Start`, its clean-up and `StopAndJoin` have taken the
  process and the threads. `NothingEverOutOfOrder` and
  `StoppedAlwaysLeavesNothing` follow.
* `BridgeProofs`, channel: that the bridge implements `HostChannel`, step by step, with
  what the window heard, what `Post` accepted and what the pipe was given as the
  refinement mapping (`ChannelImplemented`). `SpokenInv` ties what the window has
  heard to where the reader is and puts every accepted frame
  behind "Connected"; `EndedInv` says that before an end is published the process is
  gone and `Post` refuses, so that nothing is accepted or written after it. The
  writer may find the pipe broken while the reader ends cleanly: "Stopped" may
  then be followed by one "Failed"; or it may fail to begin, and "Failed" then
  precedes "Connected". The abstract specification allows both, and with them no
  frame: `Open` asks for a connection and for no failure.
* `BridgeProofs`, window: for any turns, projects, prompts of a turn, bound of the
  request queue and number of restarts. Neither property is inductive: both depend on what
  is still on the way between two processes, so `WindowInv` says of every request
  and message where its sender and its receiver can be. `GateInv`: a turn ChatHost
  works on is the window's; while ChatHost lives, its request, its refusal and its
  end exclude each other and each is on its way at most once, so nothing of an
  earlier turn can open the gate. `InitInv` (`HandshakeInv` in the module): at most one
  initialization is asked for or answered, for the generation the window compares
  snapshots with. `ToolInv`: what is said of a call comes in the order prompt, start,
  end; a prompt is on its way only while its card does not exist, a decision is sent once
  and is on its way only before ChatHost acts on it, and a start or an end finds the
  card as the decision left it or as a start ahead of it will. `HostInv` ties the
  process to the bridge, and `JoinInv` that the approvals are forgotten before the
  wait. All but the types, `HostInv` and `JoinInv` is claimed of an idle window only:
  while `StopAssistant` waits, ChatHost may work on a turn the window has given
  up. The restart makes them true again because every message of the
  old bridge is of an older session. One relation, `Embeds`, stands for all that
  happens to a queue (the head taken, one message put anywhere), because "Failed"
  may be queued before messages that the reader still delivers, its "Connected"
  included. `GateAlwaysCovers` and
  `MessagesAlwaysFit` follow, and `ConsentAlwaysFirst`: a mutation starts only while its
  own card says "allowed", which is an action property of the module that no run repeats.
* `InferenceProofs`, model server: for any callers, settings, starts and edits. `OneServer` alone is
  not inductive: that a start finds no server alive needs that the session before
  it was given up and killed under the same hold of the gate. `GateInv` gives the
  gate one holder, a caller or the disposal, and `Phase` is where that holder is;
  `SessionInv` says which of the two sessions (the one kept, the one being given
  up) there can be at each phase; `OwnedInv` gives every server, lease and key
  file of an attempt an owner, the kept or given-up session or the holder's own
  start; `CallInv` carries the settings a caller loaded to the session it is
  given; `DisposalInv` says the disposal begins once. A process may exit, a
  stranger take its port and a directory change at any step.
  `ServersAlwaysOwned` and `CallersAlwaysReachTheirs` follow.
* `InferenceProofs`, setup: for any models, backends, archives and sizes, and any
  number of faults, cancellations and crashes. `DiskInv` ties what is on disk to
  where the setup is (`ProgressInv`): the archives before the one in turn are
  verified, the runtime is whole once they are all published, the model file is good
  once it is checked, and settings and acceptance are written before the end
  is reported. Neither half of `WindowIsTold` is inductive. `StartInv`: one start at
  most is on its way, that of the setup the window waits for, and no end of it
  before it has run or was refused. `WaitInv`: a waiting window has a start, a
  running setup or an end to expect, unless a frame was cut or given up (`silent`),
  and an end that says "completed" is true when it arrives. `OrderInv`: behind an
  end of the window's request all ends are of one setup, the one that runs if any
  does. Hence at most one older identifier is in flight whenever the window may
  ask again, and the few of `RequestIds` stand for the endless ones of the code.
  `WindowAlwaysTold` follows; `DiskAlwaysSound` needs `DiskInv` and, for its action
  part, one lemma per step that writes.
* `BackendProofs`, reviews: for any numbers of views, reviews, requests and stops, and any
  budget and weights; `SizesAssumption` is not needed. `PinsMatchReview` and
  `ReviewsAreTrue` are restated of any captures and reviews (`PinsMatch`, `Exist`,
  `Show`), so that one lemma (`SettleKeeps`) shows that evicting from a store in
  order leaves one in order, whatever was put in before; what it evicts follows
  from `EvictedFacts`, for which a nonempty set of numbers has a least
  one. `Numbered` is what makes this work: an image's number is larger than any a
  review refers to, so that no old reference can come to mean a new image, and
  none is both capture and comparison. `PipeInv` says that a capture under way
  is the next of its review, so that a capture stored late is stored at its place
  or not at all. `ArtifactsAlwaysKept` and `ReviewsAlwaysTrue` follow; from the
  same steps, that only the active review changes (`Others`), and with it
  `FinishedAlwaysStay`.
* `BackendProofs`, projects: for any scenes and paths and any bounds of the edits,
  loads, failures and crashes. `ProjectInv` is the types and five parts.
  `BootInv`: before a session is tried the preview is shown, so that what a restore
  adds to is known. `SessionInv`: a snapshot has not been tried and a candidate at
  most once; one written whole is of the project in the settings beside it, which
  is why `RestoresAreTrue` survives a crash between any two of the writes and
  renames. `PointsInv`: a checkpoint that
  still has the scene's fingerprint is of this scene; with it a checkpoint puts
  back exactly what it was made of (`CheckpointIsExact`). `OrderInv`: the load asked
  for, the queued and the running one are in this order, they are just the open
  ones, and nothing newer has ended (`LatestLoadWins`). `CleanMeansSaved`
  is inductive with these once it is known what a load leaves: what a file says, or
  an error and no less dirt than before (`LoadFacts`).

Only model-checked: liveness. Liveness under fairness and `ENABLED` are beyond the
prover.

## 6. Known limits of the program

What the models show, or what was met while reading the code for them, and what a
property therefore excepts or does not claim.

Assistant and ChatHost:

* `AssistantHostBridge::StopAndJoin` notifies without the queue mutex
  (`AssistantHostBridge.cpp:797`): a writer between its predicate and its wait
  misses it, and the join hangs. `QueuedFrameIsTaken` is about frames only.
* A writer that cannot create its event fails the bridge before the reader has
  connected (`AssistantHostBridge.cpp:1089`, `:1152`), and the reader reports
  "WaitingForConnection" and "Connected" after "Failed" (`:932`, `:975`): the
  window shows a connection, and every request of it is refused until Retry. When
  `Start` fails after that, the window hears "Failed" twice; `HostChannel` allows
  it (`StartGivesUp`), `AssistantWindow`, where the second changes nothing, leaves
  it out.
* A tool call that fails while its turn is cancelled reports `toolCompleted` with
  the cancelled token (`ChatCoordinator.cs:1344`): the announced call is never
  closed. `CompletedClosesTools` is about completed turns.
* A terminal event that ChatHost could not write within its time-out leaves the
  renderer gated until Retry; `WindowSettles` names it. A turn that failed is
  announced by `error`, which opens the gate shortly before `completed`.
* A project that changes between the window's `initialize` request and its
  response is stored as the window's key, although ChatHost was initialized with
  the old one (`MainWindow.Assistant.cpp:1158`, `:1179`; the comment at `:1156`
  says otherwise). `WindowSettles` is about the server's generation.
* A progress write cut by a cancellation, or a terminal report given up after
  500 ms, leaves a connected window waiting for its setup for ever
  (`LocalModelSetup.cs:154`, `:163`, `PipeProtocol.cs:115`); `silent` marks it.
  The setup waits for response headers without a time-out of its own; staging
  directories and partial files of other artifacts are never cleaned; two
  instances of the application share the same partial and checkpoint files. A
  crash between the settings and the license acceptance leaves the first without
  the second.
* A model server whose response headers never come ends only by the caller's
  token.

Tool session:

* A request given up after 30 s is reported as failed although the mutation may
  still run; `RefusedNeverRuns` is about the codes that promise it does not.
* The client stores a session before it announces it as initialized
  (`SameInstanceMcpClient.cs:390`): a cancellation in between leaves a session in
  which the server refuses fresh, matching grants until the next binding, unlike
  `docs/integrated-ai-architecture.ja.md:124`. A `CallToolAsync` whose
  `tools/list` gets a 404 keeps the stale session likewise.
* An `initialize` whose answer is lost leaves a session on the server for 30
  minutes.

Renderer thread:

* Edits enqueued since the last drain are not in the session saved at exit
  (`RendererController.cpp:212`).
* `m_viewportDetached` is true until the first attach, so a renderer that ends
  while the window attaches for the first time is already being destroyed;
  `PresentsAreAllowed` starts with the first attach.

Reviews and captures:

* Eviction is by order of creation, since `accessSerial` is never touched again;
  `docs/mcp.md:391` says least recently used.
* A capture that fails releases the pins of its review without enforcing the
  budget (`slack`).
* `StoreMcpCapture` answers with `m_mcpCaptures.back().id`: another capture's id
  when pins fill the budget, and no capture at all when one image exceeds it. The
  model assumes no capture is larger than the budget (`SizesAssumption`).
* A review started between the cancellations of the stop and the end of the
  server survives the stop.

Projects and sessions:

* The end of an MCP benchmark sets `m_benchmarkFinished` in the same frame, so the
  interactive loop ends before `ProcessMcpBenchmark` restores the checkpoint;
  `README.md:560` says the interactive state is restored afterwards. A cancelled
  benchmark, or one whose resources fail, ends the loop too. The exit after it
  does not save the session, so the next launch restores an older one.
* Restoring a checkpoint, ending a benchmark and restoring a session after a crash
  put the dirty flag of the past back although the file was saved since (`sound`).
* A project of the preview scene opened over another scene keeps that scene and is
  called clean. A benchmark that ends with a preview checkpoint keeps a scene set
  meanwhile. A background load that commits after a project load or a put-back
  overwrites its scene. Cancel stops the running load only: a queued one starts.
* A failed save of a clean project truncates its file and leaves it clean. A
  failed load, or a tool whose GPU rebuild throws, may leave settings changed
  without the dirty flag; the editor's texture edits and a user flying the camera
  never set it.
* A crash between the session's snapshot and its settings restores content under
  the project path of the session before. When both the snapshot and its
  quarantine fail at exit, the old snapshot is restored (`exit = "stuck"`).
* Stopping the server restores the last checkpoint, when it is still of this
  scene, and so undoes what the user edited since.

Frames:

* The editor's choice of another NRD method releases NRD's instance without
  `WaitForPreviousFrame` (`D3D12PathTracingBackend.WinUI.cpp:1152`), unlike every
  other caller. `FramesKeepTheirs` therefore claims outputs and scene only; the
  model still marks the frames that lose `"nrd"`.
* The frame after a change of the internal resolution takes a camera jump for a
  motion, and histories age as under motion.
* `set_quality` in dynamic resolution resets the render size without creating the
  outputs again. `capture_debug_pack` changes the view without creating
  resources, and under the fused NRD and TAA pass reads and writes a placeholder;
  `PassesFindTheirs` excepts its frames.
* Five changes reset less than they outdate (table in section 2). The denoiser's,
  TAA's and NRD's histories of before a selected material, a preset,
  `set_color_management` or a `set_denoise` that keeps them stay in the picture
  until something else resets them or they fade out, although the editor's single
  edits and `set_material_view` (`D3D12PathTracingBackend.cpp:4814`) reset them for
  the same change; and the reference image goes on over both directions of the
  normal maps after `set_view`. `HistoryIsCurrent` names them, and still claims
  that a frame mixes nothing else that is out of date.
* A preset enables the denoiser without asking for the resources the editor's
  switch asks for. The editor's texture
  edits invalidate materials without asking for a refresh of GPU resources.
  The jump flag that is to preserve a history outlives an early return of
  `UpdateCameraMotionState`.

## 7. What is not modelled

* Bytes, texts, clocks and identifiers; JSON, HTTP and pipe encoding
  (`AssistantProtocol.cpp` is a pure function of a frame).
* Creating, listing, selecting and exporting conversations, and the transcript.
* Settings and paths; the numeric metrics of the benchmark harness.
* Scene and texture importers; the numerical code of the shaders.
* DLSS and RTXDI behind their SDKs; extents of render targets; NRD that fails to
  initialise; `capture_debug_pack` with `restoreView` switched off; the saved
  `startup.json`.
* More than one MCP client; the limits of 64 grants, sessions and connections;
  pairing, resources and subscriptions.
* Failures while files are removed.
* Scripts and packaging.

## 8. Plan

Done, in this order: the turn coordinator with its abstract specification and
proofs, the dispatcher with proofs, the bridge, the renderer controller, the
window composed with `TurnLifecycle`; then the model server, the setup, the tool
session with proofs, reviews, projects, frames with proofs, the rest of the
coordinator's proofs and those of the renderer controller, of the bridge, of the
window, of the model server, of the setup, of reviews and of projects; the bridge's
refinement of `HostChannel`.

Next, in this order:

1. The window's conversations beside those of the coordinator (create, select,
   reset, export), with the requests that are pending when a turn starts.
2. Extents of the render targets with dynamic resolution and DLSS in
   `FrameHistory`.
3. Resources and their subscriptions in the MCP server.
