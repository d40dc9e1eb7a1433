--------------------------- MODULE AssistantWindow ---------------------------
(***************************************************************************)
(* MainWindow.Assistant.cpp: what the UI thread keeps about the assistant,  *)
(* together with the renderer's snapshots it follows, the bridge it owns    *)
(* and the ChatHost at the other end.                                       *)
(*                                                                         *)
(* The UI thread runs one handler at a time: a message of the bridge, a     *)
(* click, a timer tick.  StopAssistant blocks it, so the end of StopAndJoin *)
(* is a step of its own.  The bridge is here two FIFO queues and a status;  *)
(* ChatHost is what TurnLifecycle promises plus one pending tool call.      *)
(* Texts, cards, conversations, the model set-up and calls that need no     *)
(* approval are left out.  The buttons are enabled exactly when the state   *)
(* they were last refreshed from allows it, so a click is guarded by both.  *)
(***************************************************************************)
EXTENDS Integers, Sequences

CONSTANTS Turns,          \* turn identifiers the window may draw
          NoTurn,         \* activeTurnId is empty
          Projects,       \* project context keys
          MaxCalls,       \* bound: tool calls that need approval, per turn
          QueueLimit,     \* maximumQueuedFrames of the bridge (64 in the code)
          MaxEvents       \* bound: changes of the snapshot and clicks on Retry

ASSUME WindowAssumption ==
  /\ NoTurn \notin Turns /\ Projects # {}
  /\ MaxCalls \in Nat /\ QueueLimit \in Nat \ {0}
  /\ MaxEvents \in Nat

VARIABLES
  snapshot,      \* RendererController::LatestSnapshot: MCP and the project
  events,        \* how often the snapshot has changed or Retry was clicked
  at,            \* the UI thread: idle, join (in StopAndJoin) or closed
  after,         \* what follows the join, and the snapshot it was begun for
  session,       \* which AssistantUiState m_assistant is
  pane,          \* that AssistantUiState
  drawn,         \* turn identifiers drawn so far (NewIdentifier)
  approval,      \* its approvals with their cards
  gate,          \* SetAssistantInferenceActive
  bridge,        \* the bridge of this session; late: it failed before it connected
  toHost, toUi,  \* frames on the way, and the messages of the dispatcher queue
  host,          \* the ChatHost process of this session
  slot, phase, report,  \* its turns: TurnLifecycle
  cancelled,     \* the turn in the slot was told to stop
  call           \* the tool call its turn is waiting for

paneVars   == <<at, after, session, pane, drawn, approval, gate>>
hostVars == <<host, slot, phase, report, cancelled, call>>
windowVars == <<snapshot, events, paneVars, bridge, toHost, toUi, hostVars>>

Life == INSTANCE TurnLifecycle

-----------------------------------------------------------------------------
Approvals == Turns \X (1..MaxCalls)

Snapshots == [running: BOOLEAN, generation: Nat, project: Projects]

NoSnapshot == [running |-> FALSE, generation |-> 0, project |-> "none"]
NotStopping == [why |-> "none", seen |-> NoSnapshot]

Methods == {"initialize", "sendTurn", "cancelTurn", "respond", "shutdown"}
Request(m) == [method |-> m, turn |-> NoTurn, call |-> 0, allow |-> FALSE,
               generation |-> 0, project |-> "none"]

Kinds == {"Connected", "Failed", "Stopped", "initialized", "initializeError", "turnOk",
          "turnError", "approvalRequired", "toolStarted", "toolCompleted", "error",
          "completed"}
Message(k, t, n, s) ==
  [session |-> session, kind |-> k, turn |-> t, call |-> n, status |-> s]

NoCall == [at |-> "none", count |-> 0]
NoHost == [up |-> FALSE, initialized |-> FALSE, generation |-> 0, project |-> "none"]
NewHost == [NoHost EXCEPT !.up = TRUE]

NewUi(s) == [connected |-> FALSE, initialized |-> FALSE, initializing |-> FALSE,
             mcpReady |-> s.running, generation |-> 0, project |-> s.project,
             turn |-> NoTurn, cancelRequested |-> FALSE, stopButton |-> FALSE]

NoApprovals == [a \in Approvals |-> "none"]

WindowTypeOK ==
  /\ snapshot \in Snapshots /\ events \in 0..MaxEvents
  /\ at \in {"idle", "join", "closed"}
  /\ after.why \in {"none", "retry", "context", "close"}
  /\ after.seen \in Snapshots \cup {NoSnapshot}
  /\ session \in Nat
  /\ pane \in [connected: BOOLEAN, initialized: BOOLEAN, initializing: BOOLEAN,
             mcpReady: BOOLEAN, generation: Nat, project: Projects,
             turn: Turns \cup {NoTurn}, cancelRequested: BOOLEAN, stopButton: BOOLEAN]
  /\ drawn \subseteq Turns
  /\ approval \in [Approvals -> {"none", "pending", "closed", "allowed", "started", "ended"}]
  /\ gate \in BOOLEAN
  /\ bridge \in {"starting", "open", "late", "failed", "stopped"}
  /\ Len(toHost) <= QueueLimit
  /\ \A i \in DOMAIN toHost : toHost[i].method \in Methods
  /\ \A i \in DOMAIN toUi : toUi[i].kind \in Kinds /\ toUi[i].session <= session
  /\ host \in [up: BOOLEAN, initialized: BOOLEAN, generation: Nat,
               project: Projects \cup {"none"}]
  /\ Life!TypeOK
  /\ cancelled \in BOOLEAN
  /\ call \in [at: {"none", "asked", "allowed", "denied", "started", "failing"},
               count: 0..MaxCalls]

WindowInit ==
  /\ \E on \in BOOLEAN, p \in Projects :
       snapshot = [running |-> on, generation |-> IF on THEN 1 ELSE 0, project |-> p]
  /\ events = 0
  /\ at = "idle" /\ after = NotStopping
  /\ session = 1 /\ pane = NewUi(snapshot) /\ drawn = {}
  /\ approval = NoApprovals /\ gate = FALSE
  /\ bridge = "starting" /\ toHost = <<>> /\ toUi = <<>>
  /\ host = NewHost /\ Life!Init /\ cancelled = FALSE /\ call = NoCall

-----------------------------------------------------------------------------
(* The renderer publishes snapshots.                                        *)

McpStarts(s) == [s EXCEPT !.running = TRUE, !.generation = @ + 1]
McpStops(s)  == [s EXCEPT !.running = FALSE]

SnapshotChanges ==
  /\ events < MaxEvents
  /\ events' = events + 1
  /\ \/ ~snapshot.running /\ snapshot' = McpStarts(snapshot)
     \/ snapshot.running /\ snapshot' \in {McpStops(snapshot), McpStarts(snapshot)}
     \/ \E p \in Projects \ {snapshot.project} : snapshot' = [snapshot EXCEPT !.project = p]
  /\ UNCHANGED <<paneVars, bridge, toHost, toUi, hostVars>>

-----------------------------------------------------------------------------
(* Requests of the window.                                                  *)

\* AssistantHostBridge::Post takes the frame.
CanPost == bridge \in {"starting", "open"} /\ Len(toHost) < QueueLimit

Post(request) == toHost' = IF CanPost THEN Append(toHost, request) ELSE toHost

\* TryInitializeAssistant, called with the state its caller has left.
TryInitialize(u) ==
  IF /\ ~u.initialized /\ ~u.initializing /\ u.connected /\ u.mcpReady
     /\ snapshot.running
  THEN /\ pane' = [u EXCEPT !.generation = snapshot.generation, !.initializing = CanPost]
       /\ Post([Request("initialize") EXCEPT !.generation = snapshot.generation,
                                             !.project = u.project])
  ELSE pane' = u /\ UNCHANGED toHost

\* FinishAssistantTurnUi: opens the gate and forgets every approval.
Finished(u) == [u EXCEPT !.cancelRequested = FALSE]
FinishTurnUi == gate' = FALSE /\ approval' = NoApprovals

\* What surrounds it when a living session's turn is over.
TurnOver ==
  /\ pane' = [Finished(pane) EXCEPT !.turn = NoTurn, !.stopButton = FALSE]
  /\ FinishTurnUi

\* StopAssistant up to StopAndJoin.
BeginStop(why) ==
  /\ FinishTurnUi
  /\ pane' = Finished(pane)
  /\ IF pane.initialized /\ pane.connected THEN Post(Request("shutdown"))
     ELSE UNCHANGED toHost
  /\ at' = "join"
  /\ after' = [why |-> why, seen |-> IF why = "context" THEN snapshot ELSE NoSnapshot]
  /\ UNCHANGED <<snapshot, session, drawn, bridge, toUi, hostVars>>

\* The owned process is gone, with its turns and the frames for it; a new
\* bridge starts with a new process.
HostBecomes(h) ==
  /\ host' = h
  /\ slot' = NoTurn
  /\ phase' = [t \in Turns |-> IF phase[t] \in {"reserved", "running"} THEN "ended"
                               ELSE phase[t]]
  /\ cancelled' = FALSE /\ call' = NoCall
  /\ toHost' = <<>>
  /\ UNCHANGED report

\* StopAndJoin has returned; its last update, Stopped, is only queued.  Then
\* StartAssistant replaces m_assistant; a stop for a new context goes on in
\* UpdateAssistantContext, with the snapshot that was passed to it.
StopReturns ==
  /\ at = "join"
  /\ toUi' = Append(toUi, Message("Stopped", NoTurn, 0, ""))
  /\ IF after.why = "close"
     THEN /\ at' = "closed" /\ bridge' = "stopped" /\ HostBecomes(NoHost)
          /\ UNCHANGED <<session, pane>>
     ELSE /\ at' = "idle" /\ bridge' = "starting" /\ HostBecomes(NewHost)
          /\ session' = session + 1
          /\ pane' = NewUi(IF after.why = "context" THEN after.seen ELSE snapshot)
  /\ after' = NotStopping
  /\ UNCHANGED <<snapshot, events, drawn, approval, gate>>

-----------------------------------------------------------------------------
(* Messages that the bridge queued for the UI thread.  A sink only passes    *)
(* on what came from the bridge of the current session.                     *)

M == Head(toUi)

Handler == UNCHANGED <<snapshot, events, at, after, session, drawn, bridge, hostVars>>

\* Mutant: the sink does not compare m_assistant with its session.
ReceivesAny(k) ==
  /\ at = "idle" /\ toUi # <<>>
  /\ M.kind = k
  /\ toUi' = Tail(toUi)
  /\ Handler

Receives(k) ==
  /\ at = "idle" /\ toUi # <<>>
  /\ M.kind = k /\ M.session = session
  /\ toUi' = Tail(toUi)
  /\ Handler

SinkDrops ==
  /\ at = "idle" /\ toUi # <<>> /\ M.session # session
  /\ toUi' = Tail(toUi)
  /\ Handler /\ UNCHANGED <<pane, approval, gate, toHost>>

HandleConnected ==
  /\ Receives("Connected")
  /\ TryInitialize([pane EXCEPT !.connected = TRUE])
  /\ UNCHANGED <<approval, gate>>

HandleDown ==
  /\ Receives("Failed") \/ Receives("Stopped")
  /\ pane' = [Finished(pane) EXCEPT !.connected = FALSE, !.initializing = FALSE,
              !.initialized = FALSE, !.turn = NoTurn, !.stopButton = FALSE]
  /\ FinishTurnUi
  /\ UNCHANGED toHost

HandleInitialized ==
  /\ Receives("initialized")
  /\ pane' = [pane EXCEPT !.initializing = FALSE, !.initialized = TRUE]
  /\ UNCHANGED <<approval, gate, toHost>>

HandleInitializeError ==
  /\ Receives("initializeError")
  /\ pane' = [pane EXCEPT !.initializing = FALSE, !.initialized = FALSE]
  /\ UNCHANGED <<approval, gate, toHost>>

HandleTurnOk == Receives("turnOk") /\ UNCHANGED <<pane, approval, gate, toHost>>

\* The turn that is active is over, whichever the response was for.
HandleTurnError == Receives("turnError") /\ TurnOver /\ UNCHANGED toHost

Current == pane.turn # NoTurn /\ M.turn = pane.turn
Entry   == <<M.turn, M.call>>

HandleEnd ==
  /\ Receives("completed") \/ Receives("error")
  /\ IF Current THEN TurnOver ELSE UNCHANGED <<pane, approval, gate>>
  /\ UNCHANGED toHost

\* After a cancellation request the prompt is answered without the user.
HandleApprovalRequired ==
  /\ Receives("approvalRequired")
  /\ IF Current /\ approval[Entry] = "none"
     THEN /\ approval' = [approval EXCEPT
                            ![Entry] = IF pane.cancelRequested THEN "closed" ELSE "pending"]
          /\ IF pane.cancelRequested
             THEN Post([Request("respond") EXCEPT !.turn = M.turn, !.call = M.call])
             ELSE UNCHANGED toHost
     ELSE UNCHANGED <<approval, toHost>>
  /\ UNCHANGED <<pane, gate>>

\* Only a mutation that was allowed here is shown as running.
StartFits == approval[Entry] = "allowed"

HandleToolStarted ==
  /\ Receives("toolStarted")
  /\ approval' = IF Current /\ StartFits THEN [approval EXCEPT ![Entry] = "started"]
                 ELSE approval
  /\ UNCHANGED <<pane, gate, toHost>>

\* A result needs a card that shows the call as running.
ResultFits ==
  IF M.status \in {"succeeded", "unknown"} THEN approval[Entry] = "started"
  ELSE approval[Entry] \notin {"none", "ended"}

HandleToolCompleted ==
  /\ Receives("toolCompleted")
  /\ approval' = IF Current /\ ResultFits THEN [approval EXCEPT ![Entry] = "ended"]
                 ELSE approval
  /\ UNCHANGED <<pane, gate, toHost>>

UiHandles ==
  \/ SinkDrops \/ HandleConnected \/ HandleDown \/ HandleInitialized
  \/ HandleInitializeError \/ HandleTurnOk \/ HandleTurnError \/ HandleEnd
  \/ HandleApprovalRequired \/ HandleToolStarted \/ HandleToolCompleted

-----------------------------------------------------------------------------
(* Clicks and the timer.                                                    *)

\* SendAssistantTurn.  The gate closes right after Post has returned.
SendTurn(t) ==
  /\ at = "idle" /\ pane.connected /\ pane.initialized /\ pane.turn = NoTurn /\ CanPost
  /\ t \notin drawn
  /\ drawn' = drawn \cup {t}
  /\ Post([Request("sendTurn") EXCEPT !.turn = t])
  /\ pane' = [pane EXCEPT !.turn = t, !.cancelRequested = FALSE, !.stopButton = TRUE]
  /\ gate' = TRUE
  /\ UNCHANGED <<snapshot, events, at, after, session, approval, bridge, toUi,
                 hostVars>>

\* Allow once: the grant is issued and posted, or one of the two fails.
AllowClick(a) ==
  /\ at = "idle" /\ approval[a] = "pending" /\ ~pane.cancelRequested /\ pane.turn = a[1]
  /\ \/ /\ Post([Request("respond") EXCEPT !.turn = a[1], !.call = a[2], !.allow = TRUE])
        /\ approval' = [approval EXCEPT ![a] = IF CanPost THEN "allowed" ELSE "closed"]
     \/ approval' = [approval EXCEPT ![a] = "closed"] /\ UNCHANGED toHost
  /\ UNCHANGED <<pane, gate, toUi>> /\ Handler

DenyClick(a) ==
  /\ at = "idle" /\ approval[a] = "pending" /\ pane.turn = a[1]
  /\ Post([Request("respond") EXCEPT !.turn = a[1], !.call = a[2]])
  /\ approval' = [approval EXCEPT ![a] = "closed"]
  /\ UNCHANGED <<pane, gate, toUi>> /\ Handler

\* Mutant: the button is disabled even if the request was not queued.
StopClickForgets ==
  /\ at = "idle" /\ pane.turn # NoTurn /\ pane.stopButton
  /\ pane' = [pane EXCEPT !.cancelRequested = TRUE, !.stopButton = FALSE]
  /\ approval' = [a \in Approvals |-> IF approval[a] = "pending" THEN "closed"
                                      ELSE approval[a]]
  /\ Post([Request("cancelTurn") EXCEPT !.turn = pane.turn])
  /\ UNCHANGED <<gate, toUi>> /\ Handler

\* Mutant: stopping opens the gate at once.
StopClickResumes ==
  /\ at = "idle" /\ pane.turn # NoTurn /\ pane.stopButton
  /\ pane' = [pane EXCEPT !.cancelRequested = TRUE, !.stopButton = ~CanPost]
  /\ approval' = [a \in Approvals |-> IF approval[a] = "pending" THEN "closed"
                                      ELSE approval[a]]
  /\ Post([Request("cancelTurn") EXCEPT !.turn = pane.turn])
  /\ gate' = FALSE
  /\ UNCHANGED toUi /\ Handler

\* Mutant: every approval is closed for good, the allowed ones too.
StopClickClosesAll ==
  /\ at = "idle" /\ pane.turn # NoTurn /\ pane.stopButton
  /\ pane' = [pane EXCEPT !.cancelRequested = TRUE, !.stopButton = ~CanPost]
  /\ approval' = [a \in Approvals |-> IF approval[a] \in {"pending", "allowed"} THEN "closed"
                                      ELSE approval[a]]
  /\ Post([Request("cancelTurn") EXCEPT !.turn = pane.turn])
  /\ UNCHANGED <<gate, toUi>> /\ Handler

\* OnAiStopClick and MarkAssistantCancellationRequested; the gate stays closed.
StopClick ==
  /\ at = "idle" /\ pane.turn # NoTurn /\ pane.stopButton
  /\ pane' = [pane EXCEPT !.cancelRequested = TRUE, !.stopButton = ~CanPost]
  /\ approval' = [a \in Approvals |-> IF approval[a] = "pending" THEN "closed"
                                      ELSE approval[a]]
  /\ Post([Request("cancelTurn") EXCEPT !.turn = pane.turn])
  /\ UNCHANGED <<gate, toUi>> /\ Handler

\* Enabled after any request that could not be queued, among others.
RetryClick ==
  /\ at = "idle" /\ events < MaxEvents
  /\ events' = events + 1
  /\ BeginStop("retry")

CloseWindow == at = "idle" /\ BeginStop("close") /\ UNCHANGED events

\* Mutant: a server that is back on a new generation is not noticed.
McpWentAwayOnly ==
  (pane.initialized \/ pane.initializing) /\ pane.generation # 0 /\ ~snapshot.running

McpWentAway ==
  /\ pane.initialized \/ pane.initializing
  /\ pane.generation # 0
  /\ ~snapshot.running \/ pane.generation # snapshot.generation

ProjectWentAway == pane.initialized /\ pane.project # snapshot.project

UpdateAssistantContext ==
  /\ at = "idle"
  /\ IF McpWentAway \/ ProjectWentAway
     THEN BeginStop("context") /\ UNCHANGED events
     ELSE /\ TryInitialize([pane EXCEPT !.mcpReady = snapshot.running,
                                      !.project = snapshot.project])
          /\ UNCHANGED <<approval, gate, toUi>> /\ Handler

-----------------------------------------------------------------------------
(* The bridge.                                                              *)

Beyond == UNCHANGED <<snapshot, events, paneVars>>

BridgeConnects ==
  /\ bridge = "starting" /\ host.up
  /\ bridge' = "open"
  /\ toUi' = Append(toUi, Message("Connected", NoTurn, 0, ""))
  /\ Beyond /\ UNCHANGED <<toHost, hostVars>>

\* Fail kills the process.  The writer thread may report it while the reader
\* still passes on the frames it has read, so these may come behind Failed; a
\* writer that fails to start may even be ahead of Connected.
BridgeFails ==
  /\ bridge \in {"starting", "open"}
  /\ bridge' = "failed" \/ (bridge = "starting" /\ bridge' = "late")
  /\ HostBecomes(NoHost)
  /\ \E n \in 0..Len(toUi) :
       /\ \A i \in (n + 1)..Len(toUi) :
            toUi[i].session = session /\ toUi[i].kind # "Connected"
       /\ toUi' = SubSeq(toUi, 1, n) \o <<Message("Failed", NoTurn, 0, "")>>
                    \o SubSeq(toUi, n + 1, Len(toUi))
  /\ Beyond

\* The reader does not look at m_failed; by now every request is refused.
BridgeConnectsLate ==
  /\ bridge = "late"
  /\ bridge' = "failed"
  /\ toUi' = Append(toUi, Message("Connected", NoTurn, 0, ""))
  /\ Beyond /\ UNCHANGED <<toHost, hostVars>>

-----------------------------------------------------------------------------
(* ChatHost: the request loop, then the turn.                               *)

R == Head(toHost)

HostReads(m) ==
  /\ bridge = "open" /\ host.up /\ toHost # <<>> /\ R.method = m
  /\ \A t \in Turns : phase[t] # "reserved"
  /\ toHost' = Tail(toHost)
  /\ Beyond /\ UNCHANGED bridge

Sends(k, t, n, s) == toUi' = Append(toUi, Message(k, t, n, s))

HostInitializes ==
  /\ HostReads("initialize")
  /\ \/ /\ ~host.initialized
        /\ host' = [host EXCEPT !.initialized = TRUE, !.generation = R.generation,
                                !.project = R.project]
        /\ Sends("initialized", NoTurn, 0, "")
     \/ Sends("initializeError", NoTurn, 0, "") /\ UNCHANGED host
  /\ UNCHANGED <<slot, phase, report, cancelled, call>>

\* Reserved while the response is sent, or refused: busy, no such conversation.
HostPreparesTurn ==
  /\ HostReads("sendTurn")
  /\ \/ host.initialized /\ Life!Reserve(R.turn) /\ UNCHANGED toUi
     \/ Sends("turnError", R.turn, 0, "") /\ UNCHANGED <<slot, phase, report>>
  /\ UNCHANGED <<host, cancelled, call>>

HostAcceptsTurn ==
  /\ slot # NoTurn /\ Life!Accept(slot)
  /\ Sends("turnOk", slot, 0, "")
  /\ Beyond /\ UNCHANGED <<bridge, toHost, host, cancelled, call>>

HostCancelsTurn ==
  /\ HostReads("cancelTurn")
  /\ cancelled' = (cancelled \/ slot = R.turn)
  /\ UNCHANGED <<toUi, host, slot, phase, report, call>>

HostTakesDecision ==
  /\ HostReads("respond")
  /\ call' = IF slot = R.turn /\ call.at = "asked" /\ call.count = R.call
             THEN [call EXCEPT !.at = IF R.allow THEN "allowed" ELSE "denied"] ELSE call
  /\ UNCHANGED <<toUi, host, slot, phase, report, cancelled>>

HostShutsDown ==
  /\ bridge = "open" /\ host.up /\ toHost # <<>> /\ R.method = "shutdown"
  /\ \A t \in Turns : phase[t] # "reserved"
  /\ bridge' = "stopped" /\ HostBecomes(NoHost)
  /\ Beyond /\ UNCHANGED toUi

HostRouter == HostInitializes \/ HostPreparesTurn \/ HostAcceptsTurn \/ HostCancelsTurn
                \/ HostTakesDecision \/ HostShutsDown

Busy == slot # NoTurn /\ phase[slot] = "running" /\ report[slot] = "none"

TurnStep ==
  Busy /\ Beyond /\ UNCHANGED <<bridge, toHost, host, cancelled>>

HostAsks ==
  /\ TurnStep /\ ~cancelled
  /\ call.at = "none" /\ call.count < MaxCalls
  /\ call' = [at |-> "asked", count |-> call.count + 1]
  /\ Sends("approvalRequired", slot, call.count + 1, "")
  /\ UNCHANGED <<slot, phase, report>>

HostStartsTool ==
  /\ TurnStep /\ ~cancelled
  /\ call.at = "allowed" /\ call' = [call EXCEPT !.at = "started"]
  /\ Sends("toolStarted", slot, call.count, "")
  /\ UNCHANGED <<slot, phase, report>>

HostToolReturns ==
  /\ TurnStep /\ call.at = "started"
  /\ call' = [call EXCEPT !.at = "none"]
  /\ \E s \in IF cancelled THEN {"unknown"} ELSE {"succeeded", "failed"} :
       Sends("toolCompleted", slot, call.count, s)
  /\ UNCHANGED <<slot, phase, report>>

HostReportsDenial ==
  /\ TurnStep /\ ~cancelled
  /\ call.at = "denied" /\ call' = [call EXCEPT !.at = "none"]
  /\ Sends("toolCompleted", slot, call.count, "denied")
  /\ UNCHANGED <<slot, phase, report>>

\* Cancelled before the call started: nobody is told of it.
HostDropsCall ==
  /\ TurnStep /\ cancelled
  /\ call.at \in {"asked", "allowed", "denied"} /\ call' = [call EXCEPT !.at = "none"]
  /\ UNCHANGED <<slot, phase, report, toUi>>

\* An error event announces a failed turn, or a cancelled one whose partial
\* answer could not be stored.
HostReportsError ==
  /\ TurnStep /\ call.at = "none"
  /\ call' = [call EXCEPT !.at = "failing"]
  /\ Sends("error", slot, 0, "") \/ UNCHANGED toUi
  /\ UNCHANGED <<slot, phase, report>>

\* The window does not act on the status: "completed" stands for each of them.
HostReportsEnd ==
  /\ TurnStep /\ call.at \in {"none", "failing"}
  /\ Life!Report(slot)
  /\ report'[slot] \in {"completed", "lost"}
  /\ IF report'[slot] = "lost" THEN UNCHANGED toUi ELSE Sends("completed", slot, 0, "")
  /\ UNCHANGED call

HostEndsTurn ==
  /\ slot # NoTurn /\ Life!End(slot)
  /\ cancelled' = FALSE /\ call' = NoCall
  /\ Beyond /\ UNCHANGED <<bridge, toHost, toUi, host>>

HostTurn == HostAsks \/ HostStartsTool \/ HostToolReturns \/ HostReportsDenial
              \/ HostDropsCall \/ HostReportsError \/ HostReportsEnd \/ HostEndsTurn

-----------------------------------------------------------------------------
Clicks ==
  \/ \E t \in Turns : SendTurn(t)
  \/ \E a \in Approvals : AllowClick(a) \/ DenyClick(a)
  \/ StopClick \/ RetryClick \/ CloseWindow

WindowNext == SnapshotChanges \/ UiHandles \/ StopReturns \/ Clicks \/ UpdateAssistantContext
          \/ BridgeConnects \/ BridgeFails \/ BridgeConnectsLate \/ HostRouter \/ HostTurn

WindowSpec == WindowInit /\ [][WindowNext]_windowVars

\* The UI thread runs its queue, the timer ticks, ChatHost serves requests, and
\* a turn that was cancelled goes on; the model and the user owe nothing.
WindowFairness ==
  /\ WF_windowVars(UiHandles) /\ WF_windowVars(StopReturns)
  /\ WF_windowVars(UpdateAssistantContext)
  /\ WF_windowVars(HostRouter)
  /\ WF_windowVars(cancelled /\ HostTurn) /\ WF_windowVars(HostEndsTurn)

WindowFairSpec == WindowSpec /\ WindowFairness

-----------------------------------------------------------------------------
(* Properties. *)

\* Until ChatHost reports the end or the failure of a turn the renderer is gated,
\* whatever cancellations, failures, restarts and late messages the window has handled; only while
\* StopAssistant waits for the process may the two overlap.
GateCoversTurn == Busy /\ at = "idle" /\ call.at # "failing" => gate

\* The window never drops what ChatHost says of a mutation of the active turn:
\* the call it says is running was allowed here, and a result finds its call.
ToolMessagesFit ==
  at = "idle" /\ toUi # <<>> /\ M.session = session /\ Current =>
    /\ M.kind = "toolStarted" => StartFits
    /\ M.kind = "toolCompleted" => ResultFits

\* An assistant that shows itself as ready talks to a ChatHost that was
\* initialized for the MCP generation the window compares snapshots with.
HostServesGeneration ==
  at = "idle" /\ pane.initialized /\ bridge = "open" =>
    host.initialized /\ host.generation = pane.generation

\* ChatHost runs a mutation only while the card of this very call says that the user
\* allowed it, though prompt, click, decision and start are on the way in two queues
\* (the click on "Allow once", HandleAssistantEvent); while StopAssistant waits, the
\* cards are gone before the process is.
ConsentComesFirst ==
  [][HostStartsTool /\ at = "idle" => approval[<<slot, call.count>>] = "allowed"]_windowVars

\* A turn whose cancellation was queued lets the renderer go on, unless ChatHost
\* lost the report of its end.
StopOpensGate ==
  (pane.turn # NoTurn /\ ~pane.stopButton) ~> (~gate \/ \E t \in Turns : report[t] = "lost")

\* The window does not keep a ChatHost whose MCP session is gone.
WindowFollowsMcp ==
  []<>(at = "closed" \/ ~pane.initialized
         \/ (snapshot.running /\ pane.generation = snapshot.generation))

\* What ChatHost says fits what the window knows: messages of mutations their
\* turn and call, answers the ChatHost that was initialized
\* (HandleAssistantEvent).
MessagesFit == ToolMessagesFit /\ HostServesGeneration

\* The window settles: a cancelled turn lets the renderer go on, and an old
\* ChatHost is replaced (OnAiStopClick, UpdateAssistantContext).
WindowSettles == StopOpensGate /\ WindowFollowsMcp
=============================================================================
