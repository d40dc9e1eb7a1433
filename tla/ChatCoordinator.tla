-------------------------- MODULE ChatCoordinator --------------------------
(***************************************************************************)
(* ChatHost's chat turns: ChatCoordinator.cs with the part of               *)
(* PipeRequestRouter.cs and ChatHostWorker.cs that drives it.               *)
(*                                                                         *)
(* Actors:                                                                 *)
(*   - the router loop of ChatHostWorker, which handles one request of the  *)
(*     native window at a time and awaits in the middle of most of them;    *)
(*   - one task per started turn (RunInferenceTurnAsync);                   *)
(*   - two stoppers that both run StopAsync: the host's (IHostedService     *)
(*     StopAsync) and the worker's own, in the finally of its loop;         *)
(*   - the native side of the pipe, which may stall or go away.             *)
(* Every await is a step boundary.  Texts, identifiers, byte budgets and    *)
(* timings are left out: whatever they decide is a nondeterministic choice  *)
(* between the outcomes the code distinguishes.                             *)
(***************************************************************************)
EXTENDS Integers, Sequences, FiniteSets

CONSTANTS Turns,                   \* turn identifiers the native side may use
          NoTurn,                  \* no turn owns the coordinator
          Mutations,               \* fingerprints: tool name and argument hash
          Read,                    \* a call of a read-only tool
          MaxRounds,               \* MaximumToolRoundsPerTurn (4 in the code)
          MaxCallsPerRound,        \* MaximumToolCallsPerRound (4)
          MaxCallsPerTurn,         \* MaximumToolCallsPerTurn (8)
          MaxMutationApprovals,    \* MaximumMutationApprovalsPerTurn (4)
          PipeMayStall             \* may the native side stop reading?

ASSUME NamesAssumption ==
  /\ NoTurn \notin Turns
  /\ Read \notin Mutations

ASSUME LimitsAssumption ==
  /\ MaxRounds \in Nat \ {0}
  /\ MaxCallsPerRound \in Nat \ {0}
  /\ MaxCallsPerTurn \in Nat \ {0}
  /\ MaxMutationApprovals \in Nat
  /\ PipeMayStall \in BOOLEAN

\* The k-th mutation prompt of turn t stands for its approvalId.
Approvals == Turns \X (1..MaxMutationApprovals)
Stoppers  == {"host", "worker"}

VARIABLES
  pipe,          \* the native side of the named pipe: open, stalled, broken
  stopping,      \* IHostApplicationLifetime.StopApplication was called
  hostCancelled, \* the stoppingToken every turn's token is linked to
  initialized,   \* _instanceId is set and initialize has finished
  mcpClient,     \* _mcpClient: the coordinator's reference to the MCP client
  clientState,   \* that client: none (not created), live or disposed
  router,        \* what the request loop is awaiting
  activeTurn,    \* _activeTurn
  disposition,   \* ActiveTurn._disposition of each turn
  cancelled,     \* each turn's own CancellationTokenSource was cancelled
  completed,     \* ActiveTurn._completionSignaled
  pc,            \* where each turn's task is
  tools,         \* each turn's captured client and ToolTurnState
  text,          \* each turn's visible text: shown, stored, loss reported
  approvals,     \* keys of _approvals
  approvalState, \* PendingApproval._state
  resolution,    \* PendingApproval._completion
  stopper,       \* the two runs of StopAsync
  \* History, read only by properties and never by an action's guard:
  accepted,      \* turns whose sendTurn response was delivered
  terminals,     \* completed events delivered, per turn, in order
  lost,          \* turns whose terminal event was given up on
  toolOpen,      \* turns with a toolStarted delivered and not yet closed
  asked,         \* asked[a]: fingerprint approval a was requested for
  verdict,       \* verdict[a]: the user's first answer taken for a
  runs           \* runs[a]: MCP mutation calls submitted under a

turnVars     == <<disposition, cancelled, completed, pc, tools, text>>
approvalVars == <<approvals, approvalState, resolution>>
hostVars     == <<pipe, stopping, hostCancelled, initialized, mcpClient, clientState>>
history      == <<accepted, terminals, lost, toolOpen, asked, verdict, runs>>
vars == <<hostVars, router, activeTurn, turnVars, approvalVars, stopper, history>>

-----------------------------------------------------------------------------
(* Types. *)

TurnSteps ==
  {"off", "history", "userAdded", "status", "runtimeState", "infer", "stream", "emit",
   "exec", "report", "bind", "ask", "await", "toolStart", "submit", "calling",
   "reportStarted", "reportFailed", "unknown", "persist", "added", "terminal", "cancelled",
   "cancelError", "cancelTerminal", "failed", "failTerminal", "end"}

RouterSteps ==
  {"idle", "initialize", "sendLookup", "sendRespond", "sendStart",
   "cancelRespond", "approvalRespond", "resetStore", "respond",
   "shutdownRespond", "exited"}

Dispositions == {"none", "Prepared", "Started", "Aborted", "CancelledBeforeStart"}

NoCall == "none"
NoTools == [client |-> FALSE, rounds |-> 0, calls |-> 0, asks |-> 0, left |-> 0,
            allow |-> FALSE, denied |-> {}, call |-> NoCall]
NoText == [shown |-> FALSE, stored |-> FALSE, warned |-> FALSE]

RouterIdle == [at |-> "idle", turn |-> NoTurn, approval |-> <<>>, allow |-> FALSE,
               taken |-> FALSE]
Exited == [RouterIdle EXCEPT !.at = "exited"]

StopperIdle == [at |-> "idle", turn |-> NoTurn, client |-> FALSE, expired |-> FALSE]
StopSteps == {"idle", "take", "cancel", "approvals", "await", "dispose", "done"}

ToolStates == [client: BOOLEAN, rounds: 0..MaxRounds, calls: 0..MaxCallsPerTurn,
               asks: 0..MaxMutationApprovals, left: 0..MaxCallsPerRound,
               allow: BOOLEAN, denied: SUBSET Mutations,
               call: Mutations \cup {Read, NoCall}]

RouterStates == [at: RouterSteps, turn: Turns \cup {NoTurn}, allow: BOOLEAN, taken: BOOLEAN,
                 approval: Approvals \cup {<<>>}]

HostTypeOK ==
  /\ pipe \in {"open", "stalled", "broken"}
  /\ stopping \in BOOLEAN /\ hostCancelled \in BOOLEAN
  /\ initialized \in BOOLEAN /\ mcpClient \in BOOLEAN
  /\ clientState \in {"none", "live", "disposed"}
  /\ activeTurn \in Turns \cup {NoTurn}

RouterTypeOK == router \in RouterStates

TurnTypeOK ==
  /\ disposition \in [Turns -> Dispositions]
  /\ cancelled \in [Turns -> BOOLEAN]
  /\ completed \in [Turns -> BOOLEAN]

PcTypeOK == pc \in [Turns -> TurnSteps]

ToolsTypeOK ==
  /\ tools \in [Turns -> ToolStates]
  /\ text \in [Turns -> [shown: BOOLEAN, stored: BOOLEAN, warned: BOOLEAN]]

ApprovalTypeOK ==
  /\ approvals \subseteq Approvals
  /\ approvalState \in [Approvals -> {"none", "Pending", "Prepared", "Completed"}]
  /\ resolution \in [Approvals -> {"none", "allow", "deny"}]

StopperTypeOK ==
  stopper \in [Stoppers -> [at: StopSteps, turn: Turns \cup {NoTurn},
                           client: BOOLEAN, expired: BOOLEAN]]

HistoryTypeOK ==
  /\ accepted \subseteq Turns
  /\ terminals \in [Turns -> Seq({"completed", "cancelled", "failed"})]
  /\ lost \subseteq Turns
  /\ toolOpen \subseteq Turns
  /\ asked \in [Approvals -> Mutations \cup {NoCall}]
  /\ verdict \in [Approvals -> {"none", "allow", "deny"}]
  /\ runs \in [Approvals -> Nat]

TypeOK ==
  /\ HostTypeOK /\ RouterTypeOK /\ TurnTypeOK /\ PcTypeOK /\ ToolsTypeOK
  /\ ApprovalTypeOK /\ StopperTypeOK /\ HistoryTypeOK

Init ==
  /\ pipe = "open"
  /\ stopping = FALSE /\ hostCancelled = FALSE
  /\ initialized = FALSE /\ mcpClient = FALSE /\ clientState = "none"
  /\ router = RouterIdle
  /\ activeTurn = NoTurn
  /\ disposition = [t \in Turns |-> "none"]
  /\ cancelled = [t \in Turns |-> FALSE]
  /\ completed = [t \in Turns |-> FALSE]
  /\ pc = [t \in Turns |-> "off"]
  /\ tools = [t \in Turns |-> NoTools]
  /\ text = [t \in Turns |-> NoText]
  /\ approvals = {}
  /\ approvalState = [a \in Approvals |-> "none"]
  /\ resolution = [a \in Approvals |-> "none"]
  /\ stopper = [s \in Stoppers |-> StopperIdle]
  /\ accepted = {} /\ lost = {} /\ toolOpen = {}
  /\ terminals = [t \in Turns |-> <<>>]
  /\ asked = [a \in Approvals |-> NoCall]
  /\ verdict = [a \in Approvals |-> "none"]
  /\ runs = [a \in Approvals |-> 0]

-----------------------------------------------------------------------------
(* Cancellation and the pipe. *)

\* The turn's token: its own source, or the stoppingToken it is linked to.
TokenCancelled(t) == cancelled[t] \/ hostCancelled

\* ActiveTurn.TryCancel: Cancel() throws once the source is disposed, so a
\* finished turn is left alone.
TryCancel(t) ==
  IF t = NoTurn \/ completed[t]
  THEN UNCHANGED <<cancelled, disposition>>
  ELSE /\ cancelled' = [cancelled EXCEPT ![t] = TRUE]
       /\ disposition' = [disposition EXCEPT
            ![t] = IF @ = "Prepared" THEN "CancelledBeforeStart" ELSE @]

\* A send with the turn's token ends: delivered, cancelled, or failed.
SendEnds(t)  == TokenCancelled(t) \/ pipe # "stalled"
Delivered(t) == ~TokenCancelled(t) /\ pipe = "open"

\* Where the task continues when the awaited send meant to go on to "next".
After(t, next) ==
  IF TokenCancelled(t) THEN "cancelled"
  ELSE IF pipe = "broken" THEN "failed" ELSE next

Goto(t, next) == pc' = [pc EXCEPT ![t] = next]
At(t, step)   == pc[t] = step

-----------------------------------------------------------------------------
(* The native side and the host's lifetime. *)

PipeStalls ==
  /\ PipeMayStall /\ pipe = "open"
  /\ pipe' = "stalled"
  /\ UNCHANGED <<stopping, hostCancelled, initialized, mcpClient, clientState, router,
                 activeTurn, turnVars, approvalVars, stopper, history>>

PipeResumes ==
  /\ pipe = "stalled"
  /\ pipe' = "open"
  /\ UNCHANGED <<stopping, hostCancelled, initialized, mcpClient, clientState, router,
                 activeTurn, turnVars, approvalVars, stopper, history>>

PipeBreaks ==
  /\ pipe # "broken"
  /\ pipe' = "broken"
  /\ UNCHANGED <<stopping, hostCancelled, initialized, mcpClient, clientState, router,
                 activeTurn, turnVars, approvalVars, stopper, history>>

\* MonitorParentAsync: the native process has exited.
ParentExits ==
  /\ ~stopping
  /\ stopping' = TRUE
  /\ UNCHANGED <<pipe, hostCancelled, initialized, mcpClient, clientState, router,
                 activeTurn, turnVars, approvalVars, stopper, history>>

-----------------------------------------------------------------------------
(* The request loop.  A response is sent with the stoppingToken; when it     *)
(* cannot be sent the exception ends the loop.                              *)

ResponseEnds == hostCancelled \/ pipe # "stalled"
Responded    == ~hostCancelled /\ pipe = "open"
TurnBusy     == activeTurn # NoTurn

Receive(r) == router.at = "idle" /\ ~hostCancelled /\ pipe # "broken" /\ router' = r

RecvInitialize ==
  /\ Receive([RouterIdle EXCEPT !.at = IF initialized THEN "respond" ELSE "initialize"])
  /\ UNCHANGED <<hostVars, activeTurn, turnVars, approvalVars, stopper, history>>

\* The tool catalogue was read and the store listed: the client is published.
InitializeSucceeds ==
  /\ router.at = "initialize" /\ ~hostCancelled
  /\ initialized' = TRUE /\ mcpClient' = TRUE /\ clientState' = "live"
  /\ router' = [RouterIdle EXCEPT !.at = "respond"]
  /\ UNCHANGED <<pipe, stopping, hostCancelled, activeTurn, turnVars, approvalVars,
                 stopper, history>>

\* Any failure disposes the candidate client and forgets the instance.
InitializeFails ==
  /\ router.at = "initialize"
  /\ router' = IF hostCancelled THEN Exited ELSE [RouterIdle EXCEPT !.at = "respond"]
  /\ UNCHANGED <<hostVars, activeTurn, turnVars, approvalVars, stopper, history>>

\* PrepareTurnAsync up to its await; the native side uses a fresh turnId.
RecvSendTurn(t) ==
  /\ disposition[t] = "none"
  /\ Receive([RouterIdle EXCEPT
       !.at = IF initialized /\ ~TurnBusy THEN "sendLookup" ELSE "respond",
       !.turn = IF initialized /\ ~TurnBusy THEN t ELSE NoTurn])
  /\ UNCHANGED <<hostVars, activeTurn, turnVars, approvalVars, stopper, history>>

\* The conversation is missing, or its lookup failed.
SendTurnRefused ==
  /\ router.at = "sendLookup"
  /\ router' = IF hostCancelled THEN Exited ELSE [RouterIdle EXCEPT !.at = "respond"]
  /\ UNCHANGED <<hostVars, activeTurn, turnVars, approvalVars, stopper, history>>

\* The second half of PrepareTurnAsync: recheck, then reserve the slot.
SendTurnPrepared(t) ==
  /\ router.at = "sendLookup" /\ router.turn = t /\ ~hostCancelled
  /\ ~TurnBusy
  /\ activeTurn' = t
  /\ disposition' = [disposition EXCEPT ![t] = "Prepared"]
  /\ tools' = [tools EXCEPT ![t].client = mcpClient]
  /\ router' = [router EXCEPT !.at = "sendRespond"]
  /\ UNCHANGED <<hostVars, cancelled, completed, pc, text, approvalVars, stopper, history>>

SendTurnResponded(t) ==
  /\ router.at = "sendRespond" /\ router.turn = t /\ Responded
  /\ accepted' = accepted \cup {t}
  /\ router' = [router EXCEPT !.at = "sendStart"]
  /\ UNCHANGED <<hostVars, activeTurn, turnVars, approvalVars, stopper, terminals, lost,
                 toolOpen, asked, verdict, runs>>

\* PreparedTurn.Abort: free the slot, then ActiveTurn.Abort.
SendTurnAborted(t) ==
  /\ router.at = "sendRespond" /\ router.turn = t /\ ResponseEnds /\ ~Responded
  /\ activeTurn' = IF activeTurn = t THEN NoTurn ELSE activeTurn
  /\ disposition' = [disposition EXCEPT ![t] = "Aborted"]
  /\ cancelled' = [cancelled EXCEPT ![t] = TRUE]
  /\ completed' = [completed EXCEPT ![t] = TRUE]
  /\ router' = Exited
  /\ UNCHANGED <<hostVars, pc, tools, text, approvalVars, stopper, history>>

\* ActiveTurn.Start: a turn cancelled meanwhile only reports its end.
StartTurn(t) ==
  /\ router.at = "sendStart" /\ router.turn = t
  /\ disposition' = [disposition EXCEPT ![t] = "Started"]
  /\ Goto(t, IF disposition[t] = "CancelledBeforeStart" THEN "cancelTerminal" ELSE "history")
  /\ router' = RouterIdle
  /\ UNCHANGED <<hostVars, activeTurn, cancelled, completed, tools, text, approvalVars,
                 stopper, history>>

\* PrepareCancelTurn captures the turn; it is cancelled after the response.
RecvCancelTurn(t) ==
  /\ Receive([RouterIdle EXCEPT
       !.at = IF initialized /\ activeTurn = t THEN "cancelRespond" ELSE "respond",
       !.turn = IF initialized /\ activeTurn = t THEN t ELSE NoTurn])
  /\ UNCHANGED <<hostVars, activeTurn, turnVars, approvalVars, stopper, history>>

CancelTurnResponded ==
  /\ router.at = "cancelRespond" /\ ResponseEnds
  /\ IF Responded
     THEN TryCancel(router.turn) /\ router' = RouterIdle
     ELSE UNCHANGED <<cancelled, disposition>> /\ router' = Exited
  /\ UNCHANGED <<hostVars, activeTurn, completed, pc, tools, text, approvalVars,
                 stopper, history>>

\* The native side can only answer a prompt that was announced to it.
Announced(a) == approvalState[a] # "none" /\ ~(At(a[1], "ask") /\ a[2] = tools[a[1]].asks)

\* PrepareApprovalResponse: the first answer to a registered prompt takes it.
RecvApprovalRespond(a, allow) ==
  LET taken == a \in approvals /\ approvalState[a] = "Pending" IN
  /\ Announced(a)
  /\ Receive([RouterIdle EXCEPT !.at = "approvalRespond", !.approval = a,
                                !.allow = allow, !.taken = taken])
  /\ approvalState' = [approvalState EXCEPT ![a] = IF taken THEN "Prepared" ELSE @]
  /\ verdict' = [verdict EXCEPT ![a] = IF taken THEN (IF allow THEN "allow" ELSE "deny") ELSE @]
  /\ UNCHANGED <<hostVars, activeTurn, turnVars, approvals, resolution, stopper, accepted,
                 terminals, lost, toolOpen, asked, runs>>

\* PendingApproval.Commit after the response, Abort (deny) when it failed;
\* both lose against Stop.
ApprovalResponded ==
  LET a == router.approval
      settles == router.taken /\ approvalState[a] = "Prepared"
      answer == IF router.allow /\ Responded THEN "allow" ELSE "deny" IN
  /\ router.at = "approvalRespond" /\ ResponseEnds
  /\ approvalState' = [approvalState EXCEPT ![a] = IF settles THEN "Completed" ELSE @]
  /\ resolution' = [resolution EXCEPT ![a] = IF settles THEN answer ELSE @]
  /\ router' = IF Responded THEN RouterIdle ELSE Exited
  /\ UNCHANGED <<hostVars, activeTurn, turnVars, approvals, stopper, history>>

\* ResetConversationAsync: refused while a turn is active, else awaits the store.
RecvReset ==
  /\ Receive([RouterIdle EXCEPT
       !.at = IF initialized /\ ~TurnBusy THEN "resetStore" ELSE "respond"])
  /\ UNCHANGED <<hostVars, activeTurn, turnVars, approvalVars, stopper, history>>

ResetDone ==
  /\ router.at = "resetStore"
  /\ router' = IF hostCancelled THEN Exited ELSE [RouterIdle EXCEPT !.at = "respond"]
  /\ UNCHANGED <<hostVars, activeTurn, turnVars, approvalVars, stopper, history>>

\* A response that commits nothing: a result, or a refusal such as turn_busy.
PlainResponse ==
  /\ router.at = "respond" /\ ResponseEnds
  /\ router' = IF Responded THEN RouterIdle ELSE Exited
  /\ UNCHANGED <<hostVars, activeTurn, turnVars, approvalVars, stopper, history>>

RecvShutdown ==
  /\ initialized
  /\ Receive([RouterIdle EXCEPT !.at = "shutdownRespond"])
  /\ UNCHANGED <<hostVars, activeTurn, turnVars, approvalVars, stopper, history>>

ShutdownResponded ==
  /\ router.at = "shutdownRespond" /\ ResponseEnds
  /\ stopping' = (stopping \/ Responded)
  /\ router' = IF Responded THEN RouterIdle ELSE Exited
  /\ UNCHANGED <<pipe, hostCancelled, initialized, mcpClient, clientState, activeTurn,
                 turnVars, approvalVars, stopper, history>>

\* End of the pipe, a read that fails, or the stoppingToken ends the loop.
RouterExits ==
  /\ router.at = "idle" /\ (hostCancelled \/ pipe = "broken")
  /\ router' = Exited
  /\ UNCHANGED <<hostVars, activeTurn, turnVars, approvalVars, stopper, history>>

RouterReceives ==
  \/ RecvInitialize \/ RecvReset \/ RecvShutdown
  \/ \E t \in Turns : RecvSendTurn(t) \/ RecvCancelTurn(t)
  \/ \E a \in Approvals, allow \in BOOLEAN : RecvApprovalRespond(a, allow)

RouterContinues ==
  \/ InitializeSucceeds \/ InitializeFails \/ SendTurnRefused
  \/ \E t \in Turns : \/ SendTurnPrepared(t) \/ SendTurnResponded(t)
                      \/ SendTurnAborted(t) \/ StartTurn(t)
  \/ CancelTurnResponded \/ ApprovalResponded \/ ResetDone
  \/ PlainResponse \/ ShutdownResponded \/ RouterExits

-----------------------------------------------------------------------------
(* StopAsync, run by the host and by the worker.                            *)

\* Take the turn and the client under the gate.
StopTakes(s) ==
  /\ stopper[s].at = "idle"
  /\ IF s = "host" THEN stopping ELSE router.at = "exited"
  /\ stopper' = [stopper EXCEPT ![s] =
                   [at |-> "cancel", turn |-> activeTurn, client |-> mcpClient,
                    expired |-> FALSE]]
  /\ mcpClient' = FALSE
  /\ UNCHANGED <<pipe, stopping, hostCancelled, initialized, clientState, router,
                 activeTurn, turnVars, approvalVars, history>>

StopCancels(s) ==
  /\ stopper[s].at = "cancel"
  /\ TryCancel(stopper[s].turn)
  /\ stopper' = [stopper EXCEPT ![s].at = "approvals"]
  /\ UNCHANGED <<hostVars, router, activeTurn, completed, pc, tools, text, approvalVars, history>>

\* PendingApproval.Stop for every registered prompt.
StopDeniesApprovals(s) ==
  /\ stopper[s].at = "approvals"
  /\ approvalState' = [a \in Approvals |->
                        IF a \in approvals THEN "Completed" ELSE approvalState[a]]
  /\ resolution' = [a \in Approvals |->
                     IF a \in approvals /\ approvalState[a] \in {"Pending", "Prepared"}
                     THEN "deny" ELSE resolution[a]]
  /\ approvals' = {}
  /\ stopper' = [stopper EXCEPT ![s].at = "await"]
  /\ UNCHANGED <<hostVars, router, activeTurn, turnVars, history>>

\* Mutant: the turn is cancelled but not awaited.
StopAwaitsNothing(s) ==
  /\ stopper[s].at = "await"
  /\ stopper' = [stopper EXCEPT ![s].at = "dispose"]
  /\ UNCHANGED <<hostVars, router, activeTurn, turnVars, approvalVars, history>>

\* Wait for the turn, or for the shutdown budget to run out.
StopAwaits(s) ==
  LET t == stopper[s].turn IN
  /\ stopper[s].at = "await"
  /\ stopper' = [stopper EXCEPT ![s].at = "dispose",
                                ![s].expired = t # NoTurn /\ ~completed[t]]
  /\ UNCHANGED <<hostVars, router, activeTurn, turnVars, approvalVars, history>>

\* Mutant: the stoppingToken is never cancelled.
StopDisposesOnly(s) ==
  /\ stopper[s].at = "dispose"
  /\ clientState' = IF stopper[s].client THEN "disposed" ELSE clientState
  /\ stopper' = [stopper EXCEPT ![s].at = "done", ![s].client = FALSE]
  /\ stopping' = (stopping \/ s = "worker")
  /\ UNCHANGED <<pipe, hostCancelled, initialized, mcpClient, router, activeTurn, turnVars,
                 approvalVars, history>>

\* Dispose the client; then base.StopAsync cancels the stoppingToken, or the
\* worker asks the host to stop.
StopDisposes(s) ==
  /\ stopper[s].at = "dispose"
  /\ clientState' = IF stopper[s].client THEN "disposed" ELSE clientState
  /\ stopper' = [stopper EXCEPT ![s].at = "done", ![s].client = FALSE]
  /\ stopping' = (stopping \/ s = "worker")
  /\ hostCancelled' = (hostCancelled \/ s = "host")
  /\ UNCHANGED <<pipe, initialized, mcpClient, router, activeTurn, turnVars, approvalVars,
                 history>>

Stop(s) == \/ StopTakes(s) \/ StopCancels(s) \/ StopDeniesApprovals(s)
           \/ StopAwaits(s) \/ StopDisposes(s)

-----------------------------------------------------------------------------
(* The turn task.  A step that awaits with the turn's token either ends, or  *)
(* throws: cancellation goes to "cancelled", any other error to "failed".   *)

TaskOnly(t) ==
  UNCHANGED <<hostVars, router, activeTurn, disposition, cancelled, completed, approvalVars,
              stopper>>

\* Send an event and go on; nothing but the task's position depends on it.
SendThen(t, from, next) ==
  /\ At(t, from) /\ SendEnds(t)
  /\ Goto(t, After(t, next))
  /\ TaskOnly(t) /\ UNCHANGED <<tools, text, history>>

\* An awaited call of the store or of the runtime: it returns, throws, or is
\* cancelled.
AwaitThen(t, from, next) ==
  /\ At(t, from)
  /\ \/ TokenCancelled(t) /\ Goto(t, "cancelled")
     \/ ~TokenCancelled(t) /\ (Goto(t, next) \/ Goto(t, "failed"))
  /\ TaskOnly(t) /\ UNCHANGED <<tools, text, history>>

AppendUserMessage(t) == AwaitThen(t, "history", "userAdded")
SendUserAdded(t)     == SendThen(t, "userAdded", "status")
GetRuntimeStatus(t)  == AwaitThen(t, "status", "runtimeState")

\* runtimeState is sent; then either the first inference, or the direct
\* diagnostics call, which uses up the turn's tool calls.
SendRuntimeState(t) ==
  /\ At(t, "runtimeState") /\ SendEnds(t)
  /\ \E direct \in BOOLEAN :
       /\ direct => tools[t].client
       /\ Goto(t, After(t, IF direct THEN "exec" ELSE "infer"))
       /\ tools' = [tools EXCEPT ![t] =
                      IF ~Delivered(t) THEN @
                      ELSE IF direct
                      THEN [@ EXCEPT !.rounds = 1, !.calls = 1, !.left = 1]
                      ELSE [@ EXCEPT !.allow = tools[t].client]]
  /\ TaskOnly(t) /\ UNCHANGED <<text, history>>

\* The round ended with text.  With tools allowed it is only shown now; text is
\* part of the visible response from before its event is sent.
InferText(t) ==
  /\ At(t, "infer") /\ ~TokenCancelled(t)
  /\ tools[t].allow \/ text[t].shown
  /\ Goto(t, IF tools[t].allow THEN "emit" ELSE "persist")
  /\ text' = [text EXCEPT ![t].shown = TRUE]
  /\ TaskOnly(t) /\ UNCHANGED <<tools, history>>

\* With tools disallowed each chunk is shown as it streams in.
InferStreams(t) ==
  /\ At(t, "infer") /\ ~tools[t].allow /\ ~TokenCancelled(t)
  /\ Goto(t, "stream")
  /\ text' = [text EXCEPT ![t].shown = TRUE]
  /\ TaskOnly(t) /\ UNCHANGED <<tools, history>>

SendChunk(t) == SendThen(t, "stream", "infer")
EmitText(t)  == SendThen(t, "emit", "persist")

\* The round ended with n tool calls; a batch over a limit, or malformed,
\* fails the turn before any of its calls runs.
InferTools(t) ==
  /\ At(t, "infer") /\ tools[t].allow /\ ~TokenCancelled(t)
  /\ \E n \in 1..MaxCallsPerRound :
       /\ tools[t].rounds + 1 <= MaxRounds
       /\ tools[t].calls + n <= MaxCallsPerTurn
       /\ tools' = [tools EXCEPT ![t] = [@ EXCEPT
            !.rounds = tools[t].rounds + 1, !.calls = tools[t].calls + n, !.left = n]]
  /\ Goto(t, "exec")
  /\ TaskOnly(t) /\ UNCHANGED <<text, history>>

\* The runtime failed, exceeded a limit or returned an invalid batch.
InferFails(t) ==
  /\ At(t, "infer")
  /\ Goto(t, IF TokenCancelled(t) THEN "cancelled" ELSE "failed")
  /\ TaskOnly(t) /\ UNCHANGED <<tools, text, history>>

\* All calls of the batch are done: the next round, with the limits applied.
BatchDone(t) ==
  /\ At(t, "exec") /\ tools[t].left = 0
  /\ tools' = [tools EXCEPT ![t] = [@ EXCEPT
       !.call = NoCall,
       !.allow = tools[t].allow /\ tools[t].rounds < MaxRounds
                               /\ tools[t].calls < MaxCallsPerTurn]]
  /\ Goto(t, "infer")
  /\ TaskOnly(t) /\ UNCHANGED <<text, history>>

\* ExecuteToolCallAsync up to its first await.
RunReadOnly(t) ==
  /\ At(t, "exec") /\ tools[t].left > 0
  /\ tools' = [tools EXCEPT ![t] = [@ EXCEPT !.left = tools[t].left - 1, !.call = Read]]
  /\ Goto(t, "toolStart")
  /\ TaskOnly(t) /\ UNCHANGED <<text, history>>

\* Mutant: an approval given once in this turn is used again.
RunMutationRemembers(t, m) ==
  /\ At(t, "exec") /\ tools[t].left > 0 /\ tools[t].allow
  /\ tools' = [tools EXCEPT ![t] = [@ EXCEPT !.left = tools[t].left - 1, !.call = m]]
  /\ IF tools[t].asks > 0 /\ resolution[<<t, tools[t].asks>>] = "allow"
     THEN Goto(t, "toolStart")
     ELSE m \notin tools[t].denied /\ tools[t].asks < MaxMutationApprovals /\ Goto(t, "bind")
  /\ TaskOnly(t) /\ UNCHANGED <<text, history>>

\* A mutation is reported without a prompt when its arguments are too large,
\* when the user denied the same call before, or at the prompt limit.
RunMutation(t, m) ==
  /\ At(t, "exec") /\ tools[t].left > 0 /\ tools[t].allow
  /\ tools' = [tools EXCEPT ![t] = [@ EXCEPT !.left = tools[t].left - 1, !.call = m]]
  /\ \/ Goto(t, "report")
     \/ /\ m \notin tools[t].denied
        /\ tools[t].asks < MaxMutationApprovals
        /\ Goto(t, "bind")
  /\ TaskOnly(t) /\ UNCHANGED <<text, history>>

\* toolCompleted for a call that never started.
ReportUnstarted(t) == SendThen(t, "report", "exec")

Prompt(t) == <<t, tools[t].asks>>

\* CreateApprovalBindingAsync; then the prompt is registered, before it is sent.
BindApproval(t) ==
  LET a == <<t, tools[t].asks + 1>> IN
  /\ At(t, "bind") /\ clientState = "live"
  /\ tools' = [tools EXCEPT ![t].asks = @ + 1]
  /\ approvals' = approvals \cup {a}
  /\ approvalState' = [approvalState EXCEPT ![a] = "Pending"]
  /\ asked' = [asked EXCEPT ![a] = tools[t].call]
  /\ Goto(t, "ask")
  /\ UNCHANGED <<hostVars, router, activeTurn, disposition, cancelled, completed, text,
                 resolution, stopper, accepted, terminals, lost, toolOpen, verdict, runs>>

BindingFails(t) ==
  /\ At(t, "bind")
  /\ Goto(t, IF TokenCancelled(t) THEN "cancelled" ELSE "report")
  /\ TaskOnly(t) /\ UNCHANGED <<tools, text, history>>

\* toolApprovalRequired; when it cannot be sent the wait is cancelled, which
\* removes the prompt.
SendApprovalRequired(t) ==
  /\ At(t, "ask") /\ SendEnds(t)
  /\ Goto(t, After(t, "await"))
  /\ approvals' = IF Delivered(t) THEN approvals ELSE approvals \ {Prompt(t)}
  /\ UNCHANGED <<hostVars, router, activeTurn, disposition, cancelled, completed, tools, text,
                 approvalState, resolution, stopper, history>>

\* Mutant: a denial is not remembered.
ApprovalResolvedForgets(t) ==
  /\ At(t, "await") /\ resolution[Prompt(t)] # "none"
  /\ approvals' = approvals \ {Prompt(t)}
  /\ Goto(t, IF resolution[Prompt(t)] = "allow" THEN "toolStart" ELSE "report")
  /\ UNCHANGED <<hostVars, router, activeTurn, disposition, cancelled, completed, tools, text,
                 approvalState, resolution, stopper, history>>

\* WaitForApprovalAsync returns the resolution or is cancelled; either way its
\* finally removes the prompt.
ApprovalResolved(t) ==
  /\ At(t, "await") /\ resolution[Prompt(t)] # "none"
  /\ approvals' = approvals \ {Prompt(t)}
  /\ IF resolution[Prompt(t)] = "allow"
     THEN Goto(t, "toolStart") /\ UNCHANGED tools
     ELSE /\ Goto(t, "report")
          /\ tools' = [tools EXCEPT ![t].denied = @ \cup {tools[t].call}]
  /\ UNCHANGED <<hostVars, router, activeTurn, disposition, cancelled, completed, text,
                 approvalState, resolution, stopper, history>>

\* Mutant: the wait for the user does not listen to the turn's token.
ApprovalCancelledNever(t) == At(t, "await") /\ FALSE /\ UNCHANGED vars

ApprovalCancelled(t) ==
  /\ At(t, "await") /\ TokenCancelled(t)
  /\ approvals' = approvals \ {Prompt(t)}
  /\ Goto(t, "cancelled")
  /\ UNCHANGED <<hostVars, router, activeTurn, disposition, cancelled, completed, tools, text,
                 approvalState, resolution, stopper, history>>

\* CallMcpToolAsync: toolStarted, then the call itself.
SendToolStarted(t) ==
  /\ At(t, "toolStart") /\ SendEnds(t)
  /\ Goto(t, After(t, "submit"))
  /\ toolOpen' = IF Delivered(t) THEN toolOpen \cup {t} ELSE toolOpen
  /\ TaskOnly(t)
  /\ UNCHANGED <<tools, text, accepted, terminals, lost, asked, verdict, runs>>

\* A client that was disposed meanwhile throws before it looks at the token.
SubmitCall(t) ==
  /\ At(t, "submit")
  /\ \/ /\ clientState = "live" /\ ~TokenCancelled(t)
        /\ Goto(t, "calling")
        /\ runs' = IF tools[t].call = Read THEN runs
                   ELSE [runs EXCEPT ![Prompt(t)] = @ + 1]
     \/ clientState # "live" /\ Goto(t, "reportFailed") /\ UNCHANGED runs
  /\ TaskOnly(t)
  /\ UNCHANGED <<tools, text, accepted, terminals, lost, toolOpen, asked, verdict>>

\* Mutant: a call that throws is not reported.
CallReturnsOrThrows(t) ==
  /\ At(t, "calling")
  /\ Goto(t, "reportStarted") \/ Goto(t, "exec")
  /\ TaskOnly(t) /\ UNCHANGED <<tools, text, history>>

\* The call returns a result or throws anything but the turn's cancellation.
CallReturns(t) ==
  /\ At(t, "calling")
  /\ Goto(t, "reportStarted") \/ Goto(t, "reportFailed")
  /\ TaskOnly(t) /\ UNCHANGED <<tools, text, history>>

\* The cancellation handler covers the call and the report of its result.
CallCancelled(t) ==
  /\ pc[t] \in {"submit", "calling", "reportStarted"} /\ TokenCancelled(t)
  /\ Goto(t, "unknown")
  /\ TaskOnly(t) /\ UNCHANGED <<tools, text, history>>

\* toolCompleted with the result; a send that fails is reported once more.
ReportStarted(t) ==
  /\ At(t, "reportStarted") /\ SendEnds(t) /\ ~TokenCancelled(t)
  /\ Goto(t, IF Delivered(t) THEN "exec" ELSE "reportFailed")
  /\ toolOpen' = IF Delivered(t) THEN toolOpen \ {t} ELSE toolOpen
  /\ TaskOnly(t)
  /\ UNCHANGED <<tools, text, accepted, terminals, lost, asked, verdict, runs>>

\* toolCompleted from the handlers of an error.  It is sent with the turn's
\* token, and nothing handles its cancellation here.
ReportFailed(t) ==
  /\ At(t, "reportFailed") /\ SendEnds(t)
  /\ Goto(t, After(t, "exec"))
  /\ toolOpen' = IF Delivered(t) THEN toolOpen \ {t} ELSE toolOpen
  /\ TaskOnly(t)
  /\ UNCHANGED <<tools, text, accepted, terminals, lost, asked, verdict, runs>>

-----------------------------------------------------------------------------
(* The end of a turn.  SendWithoutTurnCancellationAsync gives an event 250 ms *)
(* and swallows its loss.                                                   *)

Arrives == pipe = "open"

\* "unknown": the outcome of a call cancelled after it started.
ReportUnknown(t) ==
  /\ At(t, "unknown")
  /\ Goto(t, "cancelled")
  /\ toolOpen' = IF Arrives THEN toolOpen \ {t} ELSE toolOpen
  /\ TaskOnly(t)
  /\ UNCHANGED <<tools, text, accepted, terminals, lost, asked, verdict, runs>>

PersistAnswer(t) ==
  /\ At(t, "persist")
  /\ \/ TokenCancelled(t) /\ Goto(t, "cancelled") /\ UNCHANGED text
     \/ ~TokenCancelled(t) /\ Goto(t, "failed") /\ UNCHANGED text
     \/ /\ ~TokenCancelled(t) /\ Goto(t, "added")
        /\ text' = [text EXCEPT ![t].stored = TRUE]
  /\ TaskOnly(t) /\ UNCHANGED <<tools, history>>

SendAnswerAdded(t) == SendThen(t, "added", "terminal")

\* Mutant: the success path falls into the failure report.
SendCompletedFalls(t) ==
  /\ At(t, "terminal") /\ SendEnds(t)
  /\ Goto(t, After(t, "failTerminal"))
  /\ terminals' = IF Delivered(t) THEN [terminals EXCEPT ![t] = Append(@, "completed")]
                  ELSE terminals
  /\ TaskOnly(t)
  /\ UNCHANGED <<tools, text, accepted, lost, toolOpen, asked, verdict, runs>>

SendCompleted(t) ==
  /\ At(t, "terminal") /\ SendEnds(t)
  /\ Goto(t, After(t, "end"))
  /\ terminals' = IF Delivered(t) THEN [terminals EXCEPT ![t] = Append(@, "completed")]
                  ELSE terminals
  /\ TaskOnly(t)
  /\ UNCHANGED <<tools, text, accepted, lost, toolOpen, asked, verdict, runs>>

\* Mutant: a failing store is ignored.
PersistPartialIgnoring(t) ==
  /\ At(t, "cancelled")
  /\ Goto(t, "cancelTerminal")
  /\ text' \in {text, [text EXCEPT ![t].stored = text[t].shown]}
  /\ TaskOnly(t) /\ UNCHANGED <<tools, history>>

\* The cancellation handler keeps the partial answer within its own budget.
PersistPartial(t) ==
  /\ At(t, "cancelled")
  /\ IF text[t].shown /\ ~text[t].stored
     THEN \/ /\ text' = [text EXCEPT ![t].stored = TRUE]
             /\ Goto(t, "cancelTerminal")
          \/ Goto(t, "cancelError") /\ UNCHANGED text
     ELSE Goto(t, "cancelTerminal") /\ UNCHANGED text
  /\ TaskOnly(t) /\ UNCHANGED <<tools, history>>

\* error: history_write_failed.
SendHistoryError(t) ==
  /\ At(t, "cancelError")
  /\ Goto(t, "cancelTerminal")
  /\ text' = [text EXCEPT ![t].warned = Arrives]
  /\ TaskOnly(t) /\ UNCHANGED <<tools, history>>

\* error: inference or turn failure.
SendFailure(t) ==
  /\ At(t, "failed")
  /\ Goto(t, "failTerminal")
  /\ TaskOnly(t) /\ UNCHANGED <<tools, text, history>>

SendTerminal(t, step, status) ==
  /\ At(t, step)
  /\ Goto(t, "end")
  /\ IF Arrives
     THEN terminals' = [terminals EXCEPT ![t] = Append(@, status)] /\ UNCHANGED lost
     ELSE lost' = lost \cup {t} /\ UNCHANGED terminals
  /\ TaskOnly(t)
  /\ UNCHANGED <<tools, text, accepted, toolOpen, asked, verdict, runs>>

SendCancelled(t) == SendTerminal(t, "cancelTerminal", "cancelled")
SendFailed(t)    == SendTerminal(t, "failTerminal", "failed")

\* Mutant: the slot is freed before the terminal event is sent.
CompleteTurnEarly(t) ==
  /\ pc[t] \in {"cancelTerminal", "end"} /\ ~completed[t]
  /\ completed' = [completed EXCEPT ![t] = TRUE]
  /\ activeTurn' = IF activeTurn = t THEN NoTurn ELSE activeTurn
  /\ UNCHANGED <<hostVars, router, disposition, cancelled, pc, tools, text, approvalVars,
                 stopper, history>>

\* ObserveOperationAsync and Complete: free the slot, then dispose the token.
CompleteTurn(t) ==
  /\ At(t, "end") /\ ~completed[t]
  /\ completed' = [completed EXCEPT ![t] = TRUE]
  /\ activeTurn' = IF activeTurn = t THEN NoTurn ELSE activeTurn
  /\ UNCHANGED <<hostVars, router, disposition, cancelled, pc, tools, text, approvalVars,
                 stopper, history>>

TurnTask(t) ==
  \/ AppendUserMessage(t) \/ SendUserAdded(t) \/ GetRuntimeStatus(t) \/ SendRuntimeState(t)
  \/ InferText(t) \/ InferStreams(t) \/ InferTools(t) \/ InferFails(t)
  \/ SendChunk(t) \/ EmitText(t) \/ BatchDone(t) \/ RunReadOnly(t)
  \/ \E m \in Mutations : RunMutation(t, m)
  \/ ReportUnstarted(t) \/ BindApproval(t) \/ BindingFails(t) \/ SendApprovalRequired(t)
  \/ ApprovalResolved(t) \/ ApprovalCancelled(t)
  \/ SendToolStarted(t) \/ SubmitCall(t) \/ CallReturns(t) \/ CallCancelled(t)
  \/ ReportStarted(t) \/ ReportFailed(t) \/ ReportUnknown(t)
  \/ PersistAnswer(t) \/ SendAnswerAdded(t) \/ SendCompleted(t)
  \/ PersistPartial(t) \/ SendHistoryError(t) \/ SendFailure(t)
  \/ SendCancelled(t) \/ SendFailed(t) \/ CompleteTurn(t)

-----------------------------------------------------------------------------
Native == PipeStalls \/ PipeResumes \/ PipeBreaks \/ ParentExits

Next ==
  \/ Native
  \/ RouterReceives
  \/ RouterContinues
  \/ \E s \in Stoppers : Stop(s)
  \/ \E t \in Turns : TurnTask(t)

Spec == Init /\ [][Next]_vars

\* The thread pool runs every task that can run; the native side owes nothing.
Fairness ==
  /\ WF_vars(RouterContinues)
  /\ \A s \in Stoppers : WF_vars(Stop(s))
  /\ \A t \in Turns : WF_vars(TurnTask(t))

FairSpec == Spec /\ Fairness

-----------------------------------------------------------------------------
(* Properties. *)

Running(t)  == disposition[t] = "Started" /\ ~completed[t]
Reserved(t) == disposition[t] \in {"Prepared", "CancelledBeforeStart"}

\* _activeTurn is exactly the turn that was prepared or is running, so no two
\* turns ever run side by side although the slot is tested before an await,
\* taken after it, and given back by another task.
OneTurnAtATime ==
  \A t \in Turns : (Reserved(t) \/ Running(t)) <=> activeTurn = t

\* Every turn whose sendTurn was answered with success reports its end once:
\* completed is delivered at most once, a finished turn has delivered it or
\* given up on a pipe that does not take it, and a turn that was never
\* accepted reports nothing.
OneTerminalPerTurn ==
  \A t \in Turns :
    /\ Len(terminals[t]) <= 1
    /\ completed[t] /\ t \in accepted => terminals[t] # <<>> \/ t \in lost
    /\ t \notin accepted => terminals[t] = <<>>

\* A mutation reaches MCP only under a prompt for which the first answer the
\* router took was allowOnce and for which that answer also won against
\* shutdown, and each prompt pays for one call.
MutationNeedsApproval ==
  \A a \in Approvals :
    runs[a] > 0 => runs[a] = 1 /\ verdict[a] = "allow" /\ resolution[a] = "allow"

\* Once the user denied a mutation the turn never prompts for it again.
DeniedStaysDenied ==
  \A a, b \in Approvals :
    /\ a[1] = b[1] /\ a[2] < b[2]
    /\ asked[a] # NoCall /\ asked[a] = asked[b]
    => resolution[a] = "allow"

\* A turn that completed reported the end of each of its tool calls, even one
\* that failed, threw or was answered by a disposed client.
CompletedClosesTools ==
  \A t \in Turns : terminals[t] = <<"completed">> => t \notin toolOpen

\* A cancelled turn whose text was shown has stored that text or has said that
\* it could not (the loss of the error event itself needs a stalled pipe).
VisibleTextIsKept ==
  \A t \in Turns :
    terminals[t] = <<"cancelled">> /\ text[t].shown /\ ~PipeMayStall =>
      text[t].stored \/ text[t].warned

\* History is only deleted while no turn is running that would append to it.
ResetExcludesTurns ==
  router.at = "resetStore" => \A t \in Turns : ~Running(t) /\ ~Reserved(t)

\* When the worker's StopAsync has returned within its budget, no turn runs, no
\* prompt is registered, and nobody but the host's own StopAsync still holds
\* the MCP client undisposed.
StopLeavesNothing ==
  stopper["worker"].at = "done" =>
    /\ ~mcpClient
    /\ clientState = "live" => stopper["host"].client
    /\ ~stopper["worker"].expired =>
         approvals = {} /\ \A t \in Turns : ~Running(t) /\ ~Reserved(t)

\* No cancelled or stopped turn is left running.
CancelledTurnsEnded == \A t \in Turns : ~(Running(t) /\ TokenCancelled(t))

\* A host that stops has left its request loop and both runs of StopAsync.
ShutdownComplete ==
  stopping => /\ router.at = "exited"
              /\ \A s \in Stoppers : stopper[s].at = "done"
              /\ activeTurn = NoTurn

\* What is told to end does, whatever it was waiting for (the store, the model,
\* the user, the MCP server or a native side that stopped reading): a turn the
\* user cancelled, and a host that stops, with its turn (HandleCancelTurn,
\* StopAsync).  Neither is ever taken back, so it is enough that time and again
\* nothing is left to end.
CancelledAndStoppedEnd == []<>(CancelledTurnsEnded /\ ShutdownComplete)

-----------------------------------------------------------------------------
(* The abstract view: the slot, the life of a turn and its terminal report.  *)

Phase(t) ==
  CASE disposition[t] = "none" -> "idle"
    [] Reserved(t)             -> "reserved"
    [] Running(t)              -> "running"
    [] disposition[t] = "Aborted" -> "refused"
    [] OTHER                   -> "ended"

ReportOf(t) ==
  IF terminals[t] # <<>> THEN terminals[t][Len(terminals[t])]
  ELSE IF t \in lost THEN "lost" ELSE "none"

Lifecycle == INSTANCE TurnLifecycle WITH
  slot   <- activeTurn,
  phase  <- [t \in Turns |-> Phase(t)],
  report <- [t \in Turns |-> ReportOf(t)]

\* The coordinator implements the turn life cycle.
ImplementsLifecycle == Lifecycle!Spec
=============================================================================
