------------------------ MODULE RendererController ------------------------
(***************************************************************************)
(* RendererController.cpp with RendererCommandQueue.h and                   *)
(* RendererSnapshotMailbox.h: the window's UI thread and the renderer       *)
(* thread it owns, from the constructor of the window to the end of         *)
(* OnClosed, and the benchmark flag of the backend that ends the loop.      *)
(*                                                                         *)
(* A command that may be coalesced sets a key (a property with its index,   *)
(* or the position of the pointer) to a value; every other command is a     *)
(* barrier.  The values are the numbers of the commands.  A snapshot is     *)
(* what the window acts upon, and "fresh" stands for a revision it has not  *)
(* seen.  What a frame draws, and what commands do to the scene, is left    *)
(* out.                                                                     *)
(***************************************************************************)
EXTENDS Integers, Sequences, FiniteSets

CONSTANTS Keys,          \* coalescible properties, the pointer among them
          Barrier,       \* the key of every other command
          MaxCommands,   \* bound: commands the user makes
          CommandLine,   \* the application was started with a benchmark
          McpBenchmarks  \* a client may start a benchmark

ASSUME RendererAssumption ==
  /\ Barrier \notin Keys
  /\ MaxCommands \in Nat
  /\ CommandLine \in BOOLEAN /\ McpBenchmarks \in BOOLEAN

VARIABLES
  ui,             \* what the UI thread is doing
  panel,          \* the panel shows the swap chain (m_attachedPanel)
  count, wanted,  \* commands made so far, the values the user set last
  wantedAt,       \* history: wanted when a barrier was enqueued
  gate,           \* m_assistantInferenceActive
  commands,       \* m_commands
  stopToken,      \* stop requested from m_renderThread
  swapChain,      \* m_swapChain is set
  loopStopped, viewportDetached, threadFinished,
  snapshot, fresh,\* the latest snapshot; the window has not seen it
  render,         \* where the renderer thread is
  paused,         \* the renderer's own copy of the gate
  batch, applied, \* commands it took, values it has applied
  saved,          \* the values SaveSessionOnExit wrote (session restore is on)
  checkpoint,     \* the values when a client's benchmark started
  bench,          \* the benchmark: none, cli, mcp, ended
  benchFinished,  \* m_benchmarkFinished
  frames          \* history: frames submitted since the gate was last closed

uiVars     == <<ui, panel, count, wanted, wantedAt>>
shared     == <<swapChain, loopStopped, viewportDetached, threadFinished>>
mailbox    == <<snapshot, fresh>>
backend    == <<applied, saved, checkpoint, bench, benchFinished>>
vars == <<uiVars, gate, commands, stopToken, shared, mailbox, render, paused, batch, backend,
          frames>>

-----------------------------------------------------------------------------
UiSteps     == {"run", "attach", "mark", "stopWait", "detach", "join", "gone"}
LoopSteps   == {"top", "gate", "drain", "apply", "update", "render", "publish"}
RenderSteps == {"init"} \cup LoopSteps
                 \cup {"save", "stopping", "waitDetach", "destroy", "finish",
                       "failed", "failFlags", "done"}

Values   == 0..MaxCommands
Settings == [Keys -> Values]
Commands == [key: Keys \cup {Barrier}, value: 1..MaxCommands]

\* RendererCommandQueue keeps one command of a key between two barriers, so
\* that no stream of pointer moves or slider values can make it grow.
Coalesced ==
  \A i, j \in DOMAIN commands :
    i < j /\ commands[i].key = commands[j].key =>
      \E b \in i..j : commands[b].key = Barrier

\* Every variable is of its kind, and the queue is coalesced.
TypeOK ==
  /\ ui \in UiSteps /\ panel \in BOOLEAN
  /\ count \in Values /\ wanted \in Settings /\ wantedAt \in [1..MaxCommands -> Settings]
  /\ gate \in BOOLEAN /\ stopToken \in BOOLEAN
  /\ commands \in Seq(Commands) /\ batch \in Seq(Commands)
  /\ swapChain \in BOOLEAN /\ loopStopped \in BOOLEAN
  /\ viewportDetached \in BOOLEAN /\ threadFinished \in BOOLEAN
  /\ snapshot \in {"starting", "ready", "stopped", "benchmark", "failed"} /\ fresh \in BOOLEAN
  /\ render \in RenderSteps /\ paused \in BOOLEAN
  /\ applied \in Settings /\ saved \in Settings /\ checkpoint \in Settings
  /\ bench \in {"none", "cli", "mcp", "ended"} /\ benchFinished \in BOOLEAN
  /\ frames \in Nat
  /\ Coalesced

Unset == [k \in Keys |-> 0]

\* The window's constructor has started the thread.
Init ==
  /\ ui = "run" /\ panel = FALSE
  /\ count = 0 /\ wanted = Unset /\ wantedAt = [n \in 1..MaxCommands |-> Unset]
  /\ gate = FALSE /\ commands = <<>> /\ stopToken = FALSE
  /\ swapChain = FALSE /\ loopStopped = FALSE
  /\ viewportDetached = TRUE /\ threadFinished = FALSE
  /\ snapshot = "starting" /\ fresh = TRUE
  /\ render = "init" /\ paused = FALSE /\ batch = <<>>
  /\ applied = Unset /\ saved = Unset /\ checkpoint = Unset
  /\ bench = IF CommandLine THEN "cli" ELSE "none"
  /\ benchFinished = FALSE /\ frames = 0

-----------------------------------------------------------------------------
(* The UI thread. *)

\* Mutant: the search does not stop at a barrier.
ReplacedAnywhere(key) == {i \in DOMAIN commands : commands[i].key = key}

\* Where Enqueue finds a command to replace: behind the last barrier.
Replaced(key) ==
  {i \in DOMAIN commands :
     commands[i].key = key /\ \A j \in i..Len(commands) : commands[j].key # Barrier}

\* RendererController::Enqueue.  The queue never holds two commands that could
\* both be replaced, so "the last one" is the only one.
Enqueue(key) ==
  /\ ui = "run" /\ count < MaxCommands
  /\ count' = count + 1
  /\ LET command == [key |-> key, value |-> count + 1] IN
     IF key # Barrier /\ Replaced(key) # {}
     THEN \E i \in Replaced(key) : commands' = [commands EXCEPT ![i] = command]
     ELSE commands' = Append(commands, command)
  /\ IF key = Barrier
     THEN wantedAt' = [wantedAt EXCEPT ![count + 1] = wanted] /\ UNCHANGED wanted
     ELSE wanted' = [wanted EXCEPT ![key] = count + 1] /\ UNCHANGED wantedAt
  /\ UNCHANGED <<ui, panel, gate, stopToken, shared, mailbox, render, paused, batch, backend,
                 frames>>

\* The assistant closes the gate when a turn starts and opens it at its end.
SetAssistantInferenceActive(active) ==
  /\ ui = "run" /\ gate # active
  /\ gate' = active
  /\ frames' = 0
  /\ UNCHANGED <<uiVars, commands, stopToken, shared, mailbox, render, paused, batch, backend>>

\* AttachViewport copies m_swapChain under the lock ...
AttachCopies ==
  /\ ui = "run" /\ ~panel /\ swapChain
  /\ ui' = "attach"
  /\ UNCHANGED <<panel, count, wanted, wantedAt, gate, commands, stopToken, shared, mailbox,
                 render, paused, batch, backend, frames>>

\* ... hands the copy to the panel, which may refuse it ...
AttachSets ==
  /\ ui = "attach"
  /\ \/ ui' = "mark" /\ panel' = TRUE
     \/ ui' = "run" /\ UNCHANGED panel
  /\ UNCHANGED <<count, wanted, wantedAt, gate, commands, stopToken, shared, mailbox, render,
                 paused, batch, backend, frames>>

\* ... and clears m_viewportDetached.
AttachMarks ==
  /\ ui = "mark" /\ ui' = "run"
  /\ viewportDetached' = FALSE
  /\ UNCHANGED <<panel, count, wanted, wantedAt, gate, commands, stopToken, swapChain,
                 loopStopped, threadFinished, mailbox, render, paused, batch, backend, frames>>

Closing ==
  /\ ui' = "stopWait"
  /\ gate' = FALSE /\ frames' = 0 /\ stopToken' = TRUE
  /\ UNCHANGED <<panel, count, wanted, wantedAt, commands, shared, render, paused, batch, backend>>

\* RefreshSnapshot; the end of a benchmark closes the window.
RefreshSnapshot ==
  /\ ui = "run" /\ fresh
  /\ fresh' = FALSE /\ UNCHANGED snapshot
  /\ IF snapshot = "benchmark"
     THEN Closing
     ELSE UNCHANGED <<uiVars, gate, commands, stopToken, shared, render, paused, batch, backend,
                      frames>>

\* OnClosed up to RequestRenderStopAndWait; StopAssistant opens the gate.
OnClosed == ui = "run" /\ Closing /\ UNCHANGED mailbox

\* Mutant: the stop is requested but not waited for.
RequestStopOnly ==
  /\ ui = "stopWait" /\ ui' = "detach"
  /\ UNCHANGED <<panel, count, wanted, wantedAt, gate, commands, stopToken, shared, mailbox,
                 render, paused, batch, backend, frames>>

RenderStopWaited ==
  /\ ui = "stopWait" /\ (loopStopped \/ threadFinished)
  /\ ui' = "detach"
  /\ UNCHANGED <<panel, count, wanted, wantedAt, gate, commands, stopToken, shared, mailbox,
                 render, paused, batch, backend, frames>>

DetachViewport ==
  /\ ui = "detach" /\ ui' = "join"
  /\ panel' = FALSE /\ viewportDetached' = TRUE
  /\ UNCHANGED <<count, wanted, wantedAt, gate, commands, stopToken, swapChain, loopStopped,
                 threadFinished, mailbox, render, paused, batch, backend, frames>>

StopAndJoin ==
  /\ ui = "join" /\ render = "done"
  /\ ui' = "gone"
  /\ UNCHANGED <<panel, count, wanted, wantedAt, gate, commands, stopToken, shared, mailbox,
                 render, paused, batch, backend, frames>>

-----------------------------------------------------------------------------
(* The renderer thread, RenderMain. *)

Publish(s) == snapshot' = s /\ fresh' = TRUE

RendererOnly == UNCHANGED <<uiVars, gate, stopToken>>

\* OnInit, the swap chain and the first snapshot.
OnInit ==
  /\ render = "init" /\ render' = "top"
  /\ swapChain' = TRUE /\ Publish("ready")
  /\ RendererOnly
  /\ UNCHANGED <<commands, loopStopped, viewportDetached, threadFinished, paused, batch, backend,
                 frames>>

LoopTests ==
  /\ render = "top"
  /\ render' = IF stopToken \/ benchFinished THEN "save" ELSE "gate"
  /\ RendererOnly
  /\ UNCHANGED <<commands, shared, mailbox, paused, batch, backend, frames>>

ReadGate ==
  /\ render = "gate" /\ render' = "drain"
  /\ paused' = gate
  /\ RendererOnly
  /\ UNCHANGED <<commands, shared, mailbox, batch, backend, frames>>

\* DrainCommands: TakeAll under the lock, then one command after the other.
TakeAll ==
  /\ render = "drain" /\ render' = "apply"
  /\ batch' = commands /\ commands' = <<>>
  /\ RendererOnly
  /\ UNCHANGED <<shared, mailbox, paused, backend, frames>>

ApplyEditorCommand ==
  /\ render = "apply" /\ batch # <<>>
  /\ batch' = Tail(batch)
  /\ LET command == Head(batch) IN
     applied' = IF command.key = Barrier THEN applied
                ELSE [applied EXCEPT ![command.key] = command.value]
  /\ RendererOnly
  /\ UNCHANGED <<commands, shared, mailbox, render, paused, saved, checkpoint, bench,
                 benchFinished, frames>>

Drained ==
  /\ render = "apply" /\ batch = <<>>
  /\ render' = "update"
  /\ RendererOnly
  /\ UNCHANGED <<commands, shared, mailbox, paused, batch, backend, frames>>

\* OnUpdate: a client starts a benchmark, which may fail for want of GPU
\* resources, or cancels it; ProcessMcpBenchmark then restores the checkpoint.
BenchmarkStarts ==
  /\ McpBenchmarks /\ bench = "none"
  /\ checkpoint' = applied
  /\ \/ bench' = "mcp" /\ benchFinished' = FALSE
     \/ bench' = bench /\ benchFinished' = TRUE
  /\ UNCHANGED applied

BenchmarkCancelled ==
  /\ bench = "mcp"
  /\ bench' = "ended" /\ benchFinished' = TRUE
  /\ applied' = checkpoint \/ UNCHANGED applied
  /\ UNCHANGED checkpoint

OnUpdate ==
  /\ render = "update" /\ render' = "render"
  /\ \/ UNCHANGED <<applied, checkpoint, bench, benchFinished>>
     \/ BenchmarkStarts
     \/ BenchmarkCancelled
  /\ RendererOnly
  /\ UNCHANGED <<commands, shared, mailbox, paused, batch, saved, frames>>

\* OnRender; the benchmark's last frame ends in FinalizeBenchmarkRun.
OnRender ==
  /\ render = "render" /\ render' = "publish"
  /\ IF paused
     THEN UNCHANGED <<frames, benchFinished>>
     ELSE /\ frames' = IF gate THEN frames + 1 ELSE frames
          /\ \/ UNCHANGED benchFinished
             \/ bench \in {"cli", "mcp"} /\ benchFinished' = TRUE
  /\ RendererOnly
  /\ UNCHANGED <<commands, shared, mailbox, paused, batch, applied, saved, checkpoint, bench>>

\* Every 100 ms.
PublishSnapshot ==
  /\ render = "publish" /\ render' = "top"
  /\ Publish("ready") \/ UNCHANGED mailbox
  /\ RendererOnly
  /\ UNCHANGED <<commands, shared, paused, batch, backend, frames>>

\* SaveSessionOnExit, which leaves the session alone while a benchmark's options
\* are set, and the terminal snapshot.
SaveSessionOnExit ==
  /\ render = "save" /\ render' = "stopping"
  /\ saved' = IF bench \in {"cli", "mcp"} THEN saved ELSE applied
  /\ Publish(IF benchFinished THEN "benchmark" ELSE "stopped")
  /\ RendererOnly
  /\ UNCHANGED <<commands, shared, paused, batch, applied, checkpoint, bench, benchFinished,
                 frames>>

RenderLoopStopped ==
  /\ render = "stopping" /\ render' = "waitDetach"
  /\ loopStopped' = TRUE
  /\ RendererOnly
  /\ UNCHANGED <<commands, swapChain, viewportDetached, threadFinished, mailbox, paused, batch,
                 backend, frames>>

DetachWaited ==
  /\ render = "waitDetach" /\ viewportDetached
  /\ render' = "destroy"
  /\ RendererOnly
  /\ UNCHANGED <<commands, shared, mailbox, paused, batch, backend, frames>>

\* StopMcpServer, called by it, cancels a benchmark that is still registered.
OnDestroy ==
  /\ render = "destroy" /\ render' = "finish"
  /\ \/ BenchmarkCancelled
     \/ bench # "mcp" /\ UNCHANGED <<applied, checkpoint, bench, benchFinished>>
  /\ RendererOnly
  /\ UNCHANGED <<commands, shared, mailbox, paused, batch, saved, frames>>

ThreadFinishes ==
  /\ render = "finish" /\ render' = "done"
  /\ swapChain' = FALSE /\ threadFinished' = TRUE
  /\ RendererOnly
  /\ UNCHANGED <<commands, loopStopped, viewportDetached, mailbox, paused, batch, backend, frames>>

\* An exception of the backend; the commands it had taken are lost.
Throws ==
  /\ render \in {"init", "apply", "update", "render", "publish", "save", "destroy"}
  /\ render' = "failed"
  /\ RendererOnly
  /\ UNCHANGED <<commands, shared, mailbox, paused, batch, backend, frames>>

PublishFailure ==
  /\ render = "failed" /\ render' = "failFlags"
  /\ Publish("failed")
  /\ RendererOnly
  /\ UNCHANGED <<commands, shared, paused, batch, backend, frames>>

\* Mutant: a failure only publishes its snapshot.
FailureSetsNoFlags ==
  /\ render = "failFlags" /\ render' = "done"
  /\ RendererOnly
  /\ UNCHANGED <<commands, shared, mailbox, paused, batch, backend, frames>>

FailureFlags ==
  /\ render = "failFlags" /\ render' = "done"
  /\ loopStopped' = TRUE /\ threadFinished' = TRUE
  /\ RendererOnly
  /\ UNCHANGED <<commands, swapChain, viewportDetached, mailbox, paused, batch, backend, frames>>

RenderMain ==
  \/ OnInit \/ LoopTests \/ ReadGate \/ TakeAll \/ ApplyEditorCommand \/ Drained \/ OnUpdate
  \/ OnRender \/ PublishSnapshot \/ SaveSessionOnExit \/ RenderLoopStopped \/ DetachWaited
  \/ OnDestroy \/ ThreadFinishes \/ PublishFailure \/ FailureFlags

\* What the UI thread does once OnClosed has begun, and its timer.
UiCalls ==
  AttachSets \/ AttachMarks \/ RefreshSnapshot \/ RenderStopWaited \/ DetachViewport \/ StopAndJoin

UiRequests ==
  \/ \E key \in Keys \cup {Barrier} : Enqueue(key)
  \/ \E active \in BOOLEAN : SetAssistantInferenceActive(active)
  \/ AttachCopies \/ OnClosed

Next == UiCalls \/ UiRequests \/ RenderMain \/ Throws

Spec == Init /\ [][Next]_vars

\* Both threads run.
Fairness == WF_vars(UiCalls) /\ WF_vars(RenderMain)

FairSpec == Spec /\ Fairness

-----------------------------------------------------------------------------
(* Properties. *)

Pending == batch \o commands

\* The first n pending commands lead to this value of key: the last of them that
\* sets it says so, or it has been applied.
LeadsTo(key, n, value) ==
  /\ (\A i \in 1..n : Pending[i].key # key) => applied[key] = value
  /\ \A i \in 1..n :
       Pending[i].key = key /\ (\A j \in (i + 1)..n : Pending[j].key # key) =>
         Pending[i].value = value

\* However the queue coalesced them, the pending commands lead to the values
\* the user set last, and every barrier among them (a save, an approval, a key,
\* a button) finds exactly the values the user had set before it, unless a
\* benchmark has put its checkpoint back.
EditsKeepTheirOrder ==
  bench # "ended" /\ render \notin {"failed", "failFlags", "done"} =>
    /\ \A key \in Keys : LeadsTo(key, Len(Pending), wanted[key])
    /\ \A n \in 1..Len(Pending) : Pending[n].key = Barrier =>
         \A key \in Keys : LeadsTo(key, n - 1, wantedAt[Pending[n].value][key])

\* The GPU works only for those who let it: after the assistant has closed the
\* gate at most the frame that was under way is submitted (a stale copy of the
\* gate), and once the UI thread detaches the swap chain nothing is presented.
PresentsAreAllowed ==
  /\ gate => frames <= 1
  /\ ui \in {"detach", "join", "gone"} => render \notin LoopSteps

\* The window closes: when the user closes it, whether the renderer runs, fails
\* or has ended, and by itself when a benchmark has ended the loop.
WindowCloses ==
  /\ ui = "stopWait" ~> ui = "gone"
  /\ benchFinished ~> (ui = "gone" \/ snapshot = "failed")

=============================================================================
