----------------------------- MODULE ChatProofs -----------------------------
(***************************************************************************)
(* Theorems about ChatCoordinator for any number of turns, mutations and    *)
(* limits.  First its types: TypeOK alone is not inductive, BindApproval    *)
(* needs to know that a call being bound is a mutation under the prompt     *)
(* limit (CallInv).  Then safety: the turn slot, the terminal report, the   *)
(* approval of mutations and its denial, the end of tool calls, the text    *)
(* shown, and what a stop leaves.  Last the refinement of TurnLifecycle:    *)
(* every step of the coordinator is a step of a turn's life cycle or        *)
(* invisible to it.                                                         *)
(***************************************************************************)
EXTENDS ChatInvariant, TLAPS

-----------------------------------------------------------------------------
(* Types. *)

TypeInv == TypeOK /\ CallInv

\* A part of the type invariant survives a step that leaves its variables alone.
LEMMA Frames ==
  /\ HostTypeOK /\ UNCHANGED <<hostVars, activeTurn>> => HostTypeOK'
  /\ RouterTypeOK /\ UNCHANGED router => RouterTypeOK'
  /\ TurnTypeOK /\ UNCHANGED <<disposition, cancelled, completed>> => TurnTypeOK'
  /\ PcTypeOK /\ UNCHANGED pc => PcTypeOK'
  /\ ToolsTypeOK /\ UNCHANGED <<tools, text>> => ToolsTypeOK'
  /\ ApprovalTypeOK /\ UNCHANGED approvalVars => ApprovalTypeOK'
  /\ StopperTypeOK /\ UNCHANGED stopper => StopperTypeOK'
  /\ HistoryTypeOK /\ UNCHANGED history => HistoryTypeOK'
  <1>1. HostTypeOK /\ UNCHANGED <<hostVars, activeTurn>> => HostTypeOK' BY DEF HostTypeOK, hostVars
  <1>2. RouterTypeOK /\ UNCHANGED router => RouterTypeOK' BY DEF RouterTypeOK
  <1>3. TurnTypeOK /\ UNCHANGED <<disposition, cancelled, completed>> => TurnTypeOK'
    BY DEF TurnTypeOK
  <1>4. PcTypeOK /\ UNCHANGED pc => PcTypeOK' BY DEF PcTypeOK
  <1>5. ToolsTypeOK /\ UNCHANGED <<tools, text>> => ToolsTypeOK' BY DEF ToolsTypeOK
  <1>6. ApprovalTypeOK /\ UNCHANGED approvalVars => ApprovalTypeOK'
    BY DEF ApprovalTypeOK, approvalVars
  <1>7. StopperTypeOK /\ UNCHANGED stopper => StopperTypeOK' BY DEF StopperTypeOK
  <1>8. HistoryTypeOK /\ UNCHANGED history => HistoryTypeOK' BY DEF HistoryTypeOK, history
  <1> QED BY <1>1, <1>2, <1>3, <1>4, <1>5, <1>6, <1>7, <1>8

\* Sending a task to a known position.
LEMMA GotoType ==
  ASSUME PcTypeOK, NEW t \in Turns, NEW step \in TurnSteps, Goto(t, step)
  PROVE  PcTypeOK'
  BY DEF PcTypeOK, Goto

LEMMA RouterConstants ==
  /\ RouterIdle \in RouterStates
  /\ Exited \in RouterStates
  /\ \A step \in RouterSteps : [RouterIdle EXCEPT !.at = step] \in RouterStates
  <1>1. RouterIdle \in RouterStates BY DEF RouterIdle, RouterStates, RouterSteps
  <1>2. ASSUME NEW r \in RouterStates, NEW step \in RouterSteps
        PROVE  [r EXCEPT !.at = step] \in RouterStates
    BY DEF RouterStates
  <1> QED BY <1>1, <1>2 DEF Exited, RouterSteps

LEMMA InitType == Init => TypeInv
  <1> SUFFICES ASSUME Init PROVE TypeInv
    OBVIOUS
  <1>1. HostTypeOK BY DEF Init, HostTypeOK
  <1>2. RouterTypeOK BY RouterConstants DEF Init, RouterTypeOK
  <1>3. TurnTypeOK /\ PcTypeOK BY DEF Init, TurnTypeOK, PcTypeOK, Dispositions, TurnSteps
  <1>4. NoTools \in ToolStates
    BY LimitsAssumption DEF NoTools, ToolStates, NoCall
  <1>5. ToolsTypeOK BY <1>4 DEF Init, ToolsTypeOK, NoText
  <1>6. ApprovalTypeOK BY DEF Init, ApprovalTypeOK
  <1>7. StopperTypeOK BY DEF Init, StopperTypeOK, StopperIdle, StopSteps
  <1>8. HistoryTypeOK BY DEF Init, HistoryTypeOK
  <1>9. CallInv BY DEF Init, CallInv
  <1> QED BY <1>1, <1>2, <1>3, <1>5, <1>6, <1>7, <1>8, <1>9 DEF TypeInv, TypeOK

LEMMA NativeType == ASSUME TypeOK, Native PROVE TypeOK'
  <1>1. HostTypeOK'
    BY DEF Native, PipeStalls, PipeResumes, PipeBreaks, ParentExits, TypeOK, HostTypeOK
  <1>2. UNCHANGED <<router, turnVars, approvalVars, stopper, history>>
    BY DEF Native, PipeStalls, PipeResumes, PipeBreaks, ParentExits
  <1> QED BY <1>1, <1>2, Frames DEF TypeOK, turnVars

LEMMA StopType == ASSUME TypeOK, NEW s \in Stoppers, Stop(s) PROVE TypeOK'
  <1>1. CASE StopTakes(s)
    <2>1. HostTypeOK' BY <1>1 DEF StopTakes, TypeOK, HostTypeOK
    <2>2. StopperTypeOK' BY <1>1 DEF StopTakes, TypeOK, HostTypeOK, StopperTypeOK, StopSteps
    <2> QED BY <1>1, <2>1, <2>2, Frames DEF StopTakes, TypeOK, turnVars
  <1>2. CASE StopCancels(s)
    <2>1. TurnTypeOK'
      BY <1>2 DEF StopCancels, TryCancel, TypeOK, TurnTypeOK, StopperTypeOK, Dispositions
    <2>2. StopperTypeOK' BY <1>2 DEF StopCancels, TypeOK, StopperTypeOK, StopSteps
    <2> QED BY <1>2, <2>1, <2>2, Frames DEF StopCancels, TypeOK
  <1>3. CASE StopDeniesApprovals(s)
    <2>1. ApprovalTypeOK' BY <1>3 DEF StopDeniesApprovals, TypeOK, ApprovalTypeOK
    <2>2. StopperTypeOK' BY <1>3 DEF StopDeniesApprovals, TypeOK, StopperTypeOK, StopSteps
    <2> QED BY <1>3, <2>1, <2>2, Frames DEF StopDeniesApprovals, TypeOK, turnVars
  <1>4. CASE StopAwaits(s)
    <2>1. stopper' = [stopper EXCEPT ![s].at = "dispose",
              ![s].expired = stopper[s].turn # NoTurn /\ ~completed[stopper[s].turn]]
      BY <1>4 DEF StopAwaits
    <2>2. (stopper[s].turn # NoTurn /\ ~completed[stopper[s].turn]) \in BOOLEAN OBVIOUS
    <2>3. StopperTypeOK' BY <2>1, <2>2 DEF TypeOK, StopperTypeOK, StopSteps
    <2> QED BY <1>4, <2>3, Frames DEF StopAwaits, TypeOK, turnVars
  <1>5. CASE StopDisposes(s)
    <2>1. HostTypeOK' BY <1>5 DEF StopDisposes, TypeOK, HostTypeOK
    <2>2. StopperTypeOK' BY <1>5 DEF StopDisposes, TypeOK, StopperTypeOK, StopSteps
    <2> QED BY <1>5, <2>1, <2>2, Frames DEF StopDisposes, TypeOK, turnVars
  <1> QED BY <1>1, <1>2, <1>3, <1>4, <1>5 DEF Stop

\* The router's state while it answers approval.respond.
LEMMA AnswerType ==
  ASSUME NEW a \in Approvals, NEW allow \in BOOLEAN, NEW taken \in BOOLEAN,
         router' = [RouterIdle EXCEPT !.at = "approvalRespond", !.approval = a,
                                      !.allow = allow, !.taken = taken]
  PROVE  RouterTypeOK'
  <1>1. router' = [at |-> "approvalRespond", turn |-> NoTurn, approval |-> a,
                   allow |-> allow, taken |-> taken]
    BY DEF RouterIdle
  <1> QED BY <1>1 DEF RouterTypeOK, RouterStates, RouterSteps

\* Requests that only move the router.
LEMMA ReceiveType == ASSUME TypeOK, RouterReceives PROVE TypeOK'
  <1>1. CASE RecvInitialize \/ RecvReset \/ RecvShutdown
    <2>1. RouterTypeOK'
      BY <1>1, RouterConstants DEF RecvInitialize, RecvReset, RecvShutdown, Receive, RouterTypeOK,
                  RouterSteps
    <2> QED BY <1>1, <2>1, Frames DEF RecvInitialize, RecvReset, RecvShutdown, TypeOK, turnVars
  <1>2. ASSUME NEW t \in Turns, RecvSendTurn(t) \/ RecvCancelTurn(t) PROVE TypeOK'
    <2>1. RouterTypeOK'
      BY <1>2 DEF RecvSendTurn, RecvCancelTurn, Receive, RouterIdle, RouterTypeOK, RouterSteps,
                  RouterStates
    <2> QED BY <1>2, <2>1, Frames DEF RecvSendTurn, RecvCancelTurn, TypeOK, turnVars
  <1>3. ASSUME NEW a \in Approvals, NEW allow \in BOOLEAN, RecvApprovalRespond(a, allow)
        PROVE  TypeOK'
    <2> DEFINE taken == a \in approvals /\ approvalState[a] = "Pending"
    <2>1. router' = [RouterIdle EXCEPT !.at = "approvalRespond", !.approval = a,
                                       !.allow = allow, !.taken = taken]
      BY <1>3 DEF RecvApprovalRespond, Receive
    <2>5. taken \in BOOLEAN OBVIOUS
    <2> HIDE DEF taken
    <2>2. RouterTypeOK' BY <2>1, <2>5, AnswerType
    <2>3. ApprovalTypeOK' BY <1>3 DEF RecvApprovalRespond, TypeOK, ApprovalTypeOK, turnVars
    <2>4. HistoryTypeOK' BY <1>3 DEF RecvApprovalRespond, TypeOK, HistoryTypeOK
    <2> QED BY <1>3, <2>2, <2>3, <2>4, Frames DEF RecvApprovalRespond, TypeOK, turnVars
  <1> QED BY <1>1, <1>2, <1>3 DEF RouterReceives

LEMMA ContinueType == ASSUME TypeOK, RouterContinues PROVE TypeOK'
  <1>1. CASE InitializeSucceeds
    <2>1. HostTypeOK' /\ RouterTypeOK'
      BY <1>1, RouterConstants DEF InitializeSucceeds, TypeOK, HostTypeOK, RouterTypeOK, RouterSteps
    <2> QED BY <1>1, <2>1, Frames DEF InitializeSucceeds, TypeOK, turnVars
  <1>2. CASE InitializeFails \/ SendTurnRefused \/ ResetDone \/ PlainResponse \/ RouterExits
    <2>1. RouterTypeOK'
      BY <1>2, RouterConstants DEF InitializeFails, SendTurnRefused, ResetDone, PlainResponse, RouterExits,
                  RouterTypeOK, RouterSteps
    <2> QED BY <1>2, <2>1, Frames DEF InitializeFails, SendTurnRefused, ResetDone,
                  PlainResponse, RouterExits, TypeOK, turnVars
  <1>3. ASSUME NEW t \in Turns, SendTurnPrepared(t) PROVE TypeOK'
    <2>1. HostTypeOK' BY <1>3 DEF SendTurnPrepared, TypeOK, HostTypeOK, hostVars
    <2>2. RouterTypeOK' BY <1>3 DEF SendTurnPrepared, TypeOK, RouterTypeOK, RouterSteps, RouterStates
    <2>3. TurnTypeOK' BY <1>3 DEF SendTurnPrepared, TypeOK, TurnTypeOK, Dispositions
    <2>4. tools' = [tools EXCEPT ![t].client = mcpClient] /\ mcpClient \in BOOLEAN
      BY <1>3 DEF SendTurnPrepared, TypeOK, HostTypeOK
    <2>5. tools' \in [Turns -> ToolStates] BY <2>4 DEF TypeOK, ToolsTypeOK, ToolStates
    <2>6. ToolsTypeOK' BY <1>3, <2>5 DEF SendTurnPrepared, TypeOK, ToolsTypeOK
    <2> QED BY <1>3, <2>1, <2>2, <2>3, <2>6, Frames DEF SendTurnPrepared, TypeOK
  <1>4. ASSUME NEW t \in Turns, SendTurnResponded(t) PROVE TypeOK'
    <2>1. RouterTypeOK' BY <1>4 DEF SendTurnResponded, TypeOK, RouterTypeOK, RouterSteps, RouterStates
    <2>2. HistoryTypeOK' BY <1>4 DEF SendTurnResponded, TypeOK, HistoryTypeOK
    <2> QED BY <1>4, <2>1, <2>2, Frames DEF SendTurnResponded, TypeOK, turnVars
  <1>5. ASSUME NEW t \in Turns, SendTurnAborted(t) PROVE TypeOK'
    <2>1. HostTypeOK' BY <1>5 DEF SendTurnAborted, TypeOK, HostTypeOK, hostVars
    <2>2. RouterTypeOK' BY <1>5, RouterConstants DEF SendTurnAborted, RouterTypeOK
    <2>3. TurnTypeOK' BY <1>5 DEF SendTurnAborted, TypeOK, TurnTypeOK, Dispositions
    <2> QED BY <1>5, <2>1, <2>2, <2>3, Frames DEF SendTurnAborted, TypeOK
  <1>6. ASSUME NEW t \in Turns, StartTurn(t) PROVE TypeOK'
    <2>1. RouterTypeOK' BY <1>6, RouterConstants DEF StartTurn, RouterTypeOK
    <2>2. TurnTypeOK' BY <1>6 DEF StartTurn, TypeOK, TurnTypeOK, Dispositions
    <2>3. PcTypeOK' BY <1>6, GotoType DEF StartTurn, TypeOK, TurnSteps
    <2> QED BY <1>6, <2>1, <2>2, <2>3, Frames DEF StartTurn, TypeOK
  <1>7. CASE CancelTurnResponded
    <2>5. router' \in {RouterIdle, Exited} BY <1>7 DEF CancelTurnResponded
    <2>1. RouterTypeOK' BY <2>5, RouterConstants DEF RouterTypeOK
    <2>2. TurnTypeOK'
      BY <1>7 DEF CancelTurnResponded, TryCancel, TypeOK, TurnTypeOK, RouterTypeOK, Dispositions, RouterStates
    <2> QED BY <1>7, <2>1, <2>2, Frames DEF CancelTurnResponded, TypeOK
  <1>8. CASE ApprovalResponded
    <2>1. RouterTypeOK'
      BY <1>8, RouterConstants DEF ApprovalResponded, RouterTypeOK
    <2>2. ApprovalTypeOK' BY <1>8 DEF ApprovalResponded, TypeOK, ApprovalTypeOK
    <2> QED BY <1>8, <2>1, <2>2, Frames DEF ApprovalResponded, TypeOK, turnVars
  <1>9. CASE ShutdownResponded
    <2>1. HostTypeOK' BY <1>9 DEF ShutdownResponded, Responded, TypeOK, HostTypeOK
    <2>2. RouterTypeOK'
      BY <1>9, RouterConstants DEF ShutdownResponded, RouterTypeOK
    <2> QED BY <1>9, <2>1, <2>2, Frames DEF ShutdownResponded, TypeOK, turnVars
  <1> QED BY <1>1, <1>2, <1>3, <1>4, <1>5, <1>6, <1>7, <1>8, <1>9 DEF RouterContinues

-----------------------------------------------------------------------------
(* The turn task. *)

\* What most steps of a task leave alone keeps its type.
LEMMA TaskFrame ==
  ASSUME TypeOK, NEW t \in Turns, TaskOnly(t)
  PROVE  HostTypeOK' /\ RouterTypeOK' /\ TurnTypeOK' /\ ApprovalTypeOK' /\ StopperTypeOK'
  BY Frames DEF TaskOnly, TypeOK

LEMMA SendThenType ==
  ASSUME TypeOK, NEW t \in Turns, NEW from, NEW next \in TurnSteps, SendThen(t, from, next)
  PROVE  TypeOK'
  <1>1. After(t, next) \in TurnSteps BY DEF After, TurnSteps
  <1>2. PcTypeOK' BY <1>1, GotoType DEF SendThen, TypeOK
  <1> QED BY <1>2, TaskFrame, Frames DEF SendThen, TypeOK

LEMMA AwaitThenType ==
  ASSUME TypeOK, NEW t \in Turns, NEW from, NEW next \in TurnSteps, AwaitThen(t, from, next)
  PROVE  TypeOK'
  <1>1. {"cancelled", "failed", next} \subseteq TurnSteps BY DEF TurnSteps
  <1>2. PcTypeOK' BY <1>1, GotoType DEF AwaitThen, TypeOK
  <1> QED BY <1>2, TaskFrame, Frames DEF AwaitThen, TypeOK

\* Steps that only send, or only wait.
LEMMA PlainStepsType ==
  ASSUME TypeOK, NEW t \in Turns,
         \/ AppendUserMessage(t) \/ SendUserAdded(t) \/ GetRuntimeStatus(t) \/ SendChunk(t)
         \/ EmitText(t) \/ ReportUnstarted(t) \/ SendAnswerAdded(t)
  PROVE  TypeOK'
  <1>1. {"userAdded", "status", "runtimeState", "infer", "persist", "exec", "terminal"}
          \subseteq TurnSteps
    BY DEF TurnSteps
  <1>2. CASE AppendUserMessage(t) BY <1>1, <1>2, AwaitThenType DEF AppendUserMessage
  <1>3. CASE GetRuntimeStatus(t) BY <1>1, <1>3, AwaitThenType DEF GetRuntimeStatus
  <1>4. CASE SendUserAdded(t) BY <1>1, <1>4, SendThenType DEF SendUserAdded
  <1>5. CASE SendChunk(t) BY <1>1, <1>5, SendThenType DEF SendChunk
  <1>6. CASE EmitText(t) BY <1>1, <1>6, SendThenType DEF EmitText
  <1>7. CASE ReportUnstarted(t) BY <1>1, <1>7, SendThenType DEF ReportUnstarted
  <1>8. CASE SendAnswerAdded(t) BY <1>1, <1>8, SendThenType DEF SendAnswerAdded
  <1> QED BY <1>2, <1>3, <1>4, <1>5, <1>6, <1>7, <1>8

\* Updates of a turn's tool state that stay within the limits.
LEMMA ToolUpdates ==
  ASSUME NEW r \in ToolStates
  PROVE  /\ \A i \in 0..MaxRounds, c \in 0..MaxCallsPerTurn, l \in 0..MaxCallsPerRound :
              [r EXCEPT !.rounds = i, !.calls = c, !.left = l] \in ToolStates
         /\ \A l \in 0..MaxCallsPerRound, m \in Mutations \cup {Read, NoCall} :
              [r EXCEPT !.left = l, !.call = m] \in ToolStates
         /\ \A i \in 0..MaxMutationApprovals : [r EXCEPT !.asks = i] \in ToolStates
         /\ \A m \in Mutations :
              [r EXCEPT !.denied = r.denied \cup {m}] \in ToolStates
         /\ r.rounds \in Nat /\ r.calls \in Nat /\ r.left \in Nat
         /\ r.asks \in Nat /\ r.left <= MaxCallsPerRound
  <1>1. ASSUME NEW i \in 0..MaxRounds, NEW c \in 0..MaxCallsPerTurn, NEW l \in 0..MaxCallsPerRound
        PROVE  [r EXCEPT !.rounds = i, !.calls = c, !.left = l] \in ToolStates
    BY DEF ToolStates
  <1>2. ASSUME NEW l \in 0..MaxCallsPerRound, NEW m \in Mutations \cup {Read, NoCall}
        PROVE  [r EXCEPT !.left = l, !.call = m] \in ToolStates
    BY DEF ToolStates
  <1>3. ASSUME NEW i \in 0..MaxMutationApprovals PROVE [r EXCEPT !.asks = i] \in ToolStates
    BY DEF ToolStates
  <1>4. ASSUME NEW m \in Mutations
        PROVE  [r EXCEPT !.denied = r.denied \cup {m}] \in ToolStates
    BY DEF ToolStates
  <1>5. /\ r.rounds \in Nat /\ r.calls \in Nat /\ r.left \in Nat
        /\ r.asks \in Nat /\ r.left <= MaxCallsPerRound
    BY LimitsAssumption DEF ToolStates
  <1> QED BY <1>1, <1>2, <1>3, <1>4, <1>5

\* Steps of the inference loop that count rounds and calls.
LEMMA CountingType ==
  ASSUME TypeOK, NEW t \in Turns,
         \/ SendRuntimeState(t) \/ InferTools(t) \/ BatchDone(t) \/ RunReadOnly(t)
         \/ \E m \in Mutations : RunMutation(t, m)
  PROVE  TypeOK'
  <1>0. tools[t] \in ToolStates /\ text' = text
    BY DEF TypeOK, ToolsTypeOK, SendRuntimeState, InferTools, BatchDone, RunReadOnly, RunMutation
  <1>1. PcTypeOK'
    <2>1. CASE SendRuntimeState(t)
      <3>1. \A step \in {"exec", "infer"} : After(t, step) \in TurnSteps BY DEF After, TurnSteps
      <3> QED BY <2>1, <3>1, GotoType DEF SendRuntimeState, TypeOK
    <2>2. CASE InferTools(t) BY <2>2, GotoType DEF InferTools, TypeOK, TurnSteps
    <2>3. CASE BatchDone(t) BY <2>3, GotoType DEF BatchDone, TypeOK, TurnSteps
    <2>4. CASE RunReadOnly(t) BY <2>4, GotoType DEF RunReadOnly, TypeOK, TurnSteps
    <2>5. ASSUME NEW m \in Mutations, RunMutation(t, m) PROVE PcTypeOK'
      BY <2>5, GotoType DEF RunMutation, TypeOK, TurnSteps
    <2> QED BY <2>1, <2>2, <2>3, <2>4, <2>5
  <1>2. ASSUME NEW r \in ToolStates, tools' = [tools EXCEPT ![t] = r] PROVE ToolsTypeOK'
    BY <1>0, <1>2 DEF TypeOK, ToolsTypeOK
  <1>3. ToolsTypeOK'
    <2>1. CASE SendRuntimeState(t)
      <3>1. tools[t].client \in BOOLEAN BY <1>0 DEF ToolStates
      <3>5. 1 \in 0..MaxRounds /\ 1 \in 0..MaxCallsPerTurn /\ 1 \in 0..MaxCallsPerRound
        BY LimitsAssumption
      <3>2. [tools[t] EXCEPT !.rounds = 1, !.calls = 1, !.left = 1] \in ToolStates
        BY <1>0, <3>5, ToolUpdates
      <3>3. [tools[t] EXCEPT !.allow = tools[t].client] \in ToolStates
        BY <1>0, <3>1 DEF ToolStates
      <3>4. \/ tools' = [tools EXCEPT ![t] = tools[t]]
            \/ tools' = [tools EXCEPT ![t] = [tools[t] EXCEPT !.rounds = 1, !.calls = 1, !.left = 1]]
            \/ tools' = [tools EXCEPT ![t] = [tools[t] EXCEPT !.allow = tools[t].client]]
        BY <2>1 DEF SendRuntimeState
      <3> QED BY <1>0, <1>2, <3>2, <3>3, <3>4
    <2>2. CASE InferTools(t)
      <3>1. PICK n \in 1..MaxCallsPerRound :
              /\ tools[t].rounds + 1 <= MaxRounds /\ tools[t].calls + n <= MaxCallsPerTurn
              /\ tools' = [tools EXCEPT ![t] = [tools[t] EXCEPT
                   !.rounds = tools[t].rounds + 1, !.calls = tools[t].calls + n, !.left = n]]
        BY <2>2 DEF InferTools
      <3>2. tools[t].rounds \in Nat /\ tools[t].calls \in Nat BY <1>0, ToolUpdates
      <3>3. /\ tools[t].rounds + 1 \in 0..MaxRounds /\ tools[t].calls + n \in 0..MaxCallsPerTurn
            /\ n \in 0..MaxCallsPerRound
        BY <3>1, <3>2, LimitsAssumption
      <3>4. [tools[t] EXCEPT !.rounds = tools[t].rounds + 1, !.calls = tools[t].calls + n,
                             !.left = n] \in ToolStates
        BY <1>0, <3>3, ToolUpdates
      <3> QED BY <1>2, <3>1, <3>4
    <2>3. CASE BatchDone(t)
      <3> DEFINE allow == tools[t].allow /\ tools[t].rounds < MaxRounds
                                         /\ tools[t].calls < MaxCallsPerTurn
      <3>1. tools' = [tools EXCEPT ![t] = [tools[t] EXCEPT !.call = NoCall, !.allow = allow]]
        BY <2>3 DEF BatchDone
      <3>2. allow \in BOOLEAN OBVIOUS
      <3> HIDE DEF allow
      <3>3. [tools[t] EXCEPT !.call = NoCall, !.allow = allow] \in ToolStates
        BY <1>0, <3>2 DEF ToolStates
      <3> QED BY <1>2, <3>1, <3>3
    <2>4. CASE RunReadOnly(t)
      <3>1. tools[t].left - 1 \in 0..MaxCallsPerRound
        <4>1. tools[t].left \in Nat /\ tools[t].left <= MaxCallsPerRound BY <1>0, ToolUpdates
        <4>2. tools[t].left > 0 BY <2>4 DEF RunReadOnly
        <4> QED BY <4>1, <4>2, LimitsAssumption
      <3>2. [tools[t] EXCEPT !.left = tools[t].left - 1, !.call = Read] \in ToolStates
        BY <1>0, <3>1, ToolUpdates
      <3> QED BY <1>2, <2>4, <3>2 DEF RunReadOnly
    <2>5. ASSUME NEW m \in Mutations, RunMutation(t, m) PROVE ToolsTypeOK'
      <3>1. tools[t].left - 1 \in 0..MaxCallsPerRound
        <4>1. tools[t].left \in Nat /\ tools[t].left <= MaxCallsPerRound BY <1>0, ToolUpdates
        <4>2. tools[t].left > 0 BY <2>5 DEF RunMutation
        <4> QED BY <4>1, <4>2, LimitsAssumption
      <3>2. [tools[t] EXCEPT !.left = tools[t].left - 1, !.call = m] \in ToolStates
        BY <1>0, <3>1, ToolUpdates
      <3> QED BY <1>2, <2>5, <3>2 DEF RunMutation
    <2> QED BY <2>1, <2>2, <2>3, <2>4, <2>5
  <1>4. TaskOnly(t) /\ UNCHANGED history
    BY DEF SendRuntimeState, InferTools, BatchDone, RunReadOnly, RunMutation
  <1> QED BY <1>1, <1>3, <1>4, TaskFrame, Frames DEF TypeOK

\* Steps that show, keep or lose text.
LEMMA TextType ==
  ASSUME TypeOK, NEW t \in Turns,
         \/ InferText(t) \/ InferStreams(t) \/ PersistAnswer(t) \/ PersistPartial(t)
         \/ SendHistoryError(t)
  PROVE  TypeOK'
  <1>1. PcTypeOK'
    <2>1. {"emit", "persist", "stream", "cancelled", "failed", "added", "cancelTerminal",
           "cancelError"} \subseteq TurnSteps
      BY DEF TurnSteps
    <2>2. CASE InferText(t) BY <2>1, <2>2, GotoType DEF InferText, TypeOK
    <2>3. CASE InferStreams(t) BY <2>1, <2>3, GotoType DEF InferStreams, TypeOK
    <2>4. CASE PersistAnswer(t) BY <2>1, <2>4, GotoType DEF PersistAnswer, TypeOK
    <2>5. CASE PersistPartial(t) BY <2>1, <2>5, GotoType DEF PersistPartial, TypeOK
    <2>6. CASE SendHistoryError(t) BY <2>1, <2>6, GotoType DEF SendHistoryError, TypeOK
    <2> QED BY <2>2, <2>3, <2>4, <2>5, <2>6
  <1>2. UNCHANGED tools /\ UNCHANGED history /\ TaskOnly(t)
    BY DEF InferText, InferStreams, PersistAnswer, PersistPartial, SendHistoryError
  <1>3. Arrives \in BOOLEAN BY DEF Arrives
  <1>4. text' \in [Turns -> [shown: BOOLEAN, stored: BOOLEAN, warned: BOOLEAN]]
    BY <1>3 DEF InferText, InferStreams, PersistAnswer, PersistPartial, SendHistoryError, TypeOK,
                ToolsTypeOK
  <1>5. ToolsTypeOK' BY <1>2, <1>4 DEF TypeOK, ToolsTypeOK
  <1> QED BY <1>1, <1>2, <1>5, TaskFrame, Frames DEF TypeOK

\* Steps that only move the task, and those that also append to the history.
LEMMA HistoryStepsType ==
  ASSUME TypeOK, NEW t \in Turns,
         \/ InferFails(t) \/ BindingFails(t) \/ CallReturns(t) \/ CallCancelled(t) \/ SendFailure(t)
         \/ SendToolStarted(t) \/ SubmitCall(t) \/ ReportStarted(t) \/ ReportFailed(t) \/ ReportUnknown(t)
         \/ SendCompleted(t) \/ SendCancelled(t) \/ SendFailed(t)
  PROVE  TypeOK'
  <1>1. {"cancelled", "failed", "report", "reportStarted", "reportFailed", "unknown",
         "failTerminal", "submit", "calling", "exec", "end"} \subseteq TurnSteps
    BY DEF TurnSteps
  <1>2. \A step \in TurnSteps : After(t, step) \in TurnSteps BY DEF After, TurnSteps
  <1>3. PcTypeOK'
    <2>1. CASE InferFails(t) \/ BindingFails(t) \/ CallReturns(t) \/ CallCancelled(t) \/ SendFailure(t)
      BY <1>1, <2>1, GotoType
      DEF InferFails, BindingFails, CallReturns, CallCancelled, SendFailure, TypeOK
    <2>2. CASE SendToolStarted(t) \/ ReportStarted(t) \/ ReportFailed(t) \/ SendCompleted(t)
      BY <1>1, <1>2, <2>2, GotoType DEF SendToolStarted, ReportStarted, ReportFailed, SendCompleted, TypeOK
    <2>3. CASE SubmitCall(t) \/ ReportUnknown(t)
      BY <1>1, <2>3, GotoType DEF SubmitCall, ReportUnknown, TypeOK
    <2>4. CASE SendCancelled(t) \/ SendFailed(t)
      BY <1>1, <2>4, GotoType DEF SendCancelled, SendFailed, SendTerminal, TypeOK
    <2> QED BY <2>1, <2>2, <2>3, <2>4
  <1>4. UNCHANGED <<tools, text>> /\ TaskOnly(t)
    BY DEF InferFails, BindingFails, CallReturns, CallCancelled, SendFailure, SendToolStarted,
           SubmitCall, ReportStarted, ReportFailed, ReportUnknown, SendCompleted, SendCancelled, SendFailed,
           SendTerminal
  <1>5. HistoryTypeOK'
    <2>1. CASE InferFails(t) \/ BindingFails(t) \/ CallReturns(t) \/ CallCancelled(t) \/ SendFailure(t)
      BY <2>1, Frames DEF InferFails, BindingFails, CallReturns, CallCancelled, SendFailure, TypeOK
    <2>2. CASE SendToolStarted(t) \/ ReportStarted(t) \/ ReportFailed(t) \/ ReportUnknown(t)
      BY <2>2 DEF SendToolStarted, ReportStarted, ReportFailed, ReportUnknown, TypeOK, HistoryTypeOK
    <2>3. CASE SubmitCall(t)
      BY <2>3 DEF SubmitCall, TypeOK, HistoryTypeOK
    <2>4. CASE SendCompleted(t)
      BY <2>4 DEF SendCompleted, TypeOK, HistoryTypeOK
    <2>5. CASE SendCancelled(t) \/ SendFailed(t)
      <3>1. PICK status \in {"cancelled", "failed"} :
              \/ terminals' = [terminals EXCEPT ![t] = Append(@, status)] /\ lost' = lost
              \/ terminals' = terminals /\ lost' = lost \cup {t}
        BY <2>5 DEF SendCancelled, SendFailed, SendTerminal
      <3>2. UNCHANGED <<accepted, toolOpen, asked, verdict, runs>>
        BY <2>5 DEF SendCancelled, SendFailed, SendTerminal
      <3>3. Append(terminals[t], status) \in Seq({"completed", "cancelled", "failed"})
        BY <3>1 DEF TypeOK, HistoryTypeOK
      <3>4. terminals' \in [Turns -> Seq({"completed", "cancelled", "failed"})]
        BY <3>1, <3>3 DEF TypeOK, HistoryTypeOK
      <3>5. lost' \subseteq Turns BY <3>1 DEF TypeOK, HistoryTypeOK
      <3> QED BY <3>2, <3>4, <3>5 DEF TypeOK, HistoryTypeOK
    <2> QED BY <2>1, <2>2, <2>3, <2>4, <2>5
  <1> QED BY <1>3, <1>4, <1>5, TaskFrame, Frames DEF TypeOK

\* The prompt's steps.
LEMMA PromptStepsType ==
  ASSUME TypeInv, NEW t \in Turns,
         \/ BindApproval(t) \/ SendApprovalRequired(t) \/ ApprovalResolved(t) \/ ApprovalCancelled(t)
  PROVE  TypeOK'
  <1>0. tools[t] \in ToolStates BY DEF TypeInv, TypeOK, ToolsTypeOK
  <1>1. CASE BindApproval(t)
    <2> DEFINE a == <<t, tools[t].asks + 1>>
    <2>1. tools[t].asks < MaxMutationApprovals /\ tools[t].call \in Mutations
      BY <1>1 DEF BindApproval, At, TypeInv, CallInv
    <2>2. tools[t].asks + 1 \in 1..MaxMutationApprovals
      <3>1. tools[t].asks \in Nat BY <1>0, ToolUpdates
      <3> QED BY <2>1, <3>1, LimitsAssumption
    <2>3. a \in Approvals BY <2>2 DEF Approvals
    <2>4. [tools[t] EXCEPT !.asks = tools[t].asks + 1] \in ToolStates
      <3>1. tools[t].asks + 1 \in 0..MaxMutationApprovals BY <2>2, LimitsAssumption
      <3> QED BY <1>0, <3>1, ToolUpdates
    <2>5. ToolsTypeOK' BY <1>1, <2>4 DEF BindApproval, TypeInv, TypeOK, ToolsTypeOK
    <2>6. PcTypeOK'
      <3>1. "ask" \in TurnSteps BY DEF TurnSteps
      <3> QED BY <1>1, <3>1, GotoType DEF BindApproval, TypeInv, TypeOK
    <2>7. ApprovalTypeOK' BY <1>1, <2>3 DEF BindApproval, TypeInv, TypeOK, ApprovalTypeOK
    <2>8. HistoryTypeOK' BY <1>1, <2>1, <2>3 DEF BindApproval, TypeInv, TypeOK, HistoryTypeOK
    <2> QED BY <1>1, <2>5, <2>6, <2>7, <2>8, Frames DEF BindApproval, TypeInv, TypeOK
  <1>2. CASE SendApprovalRequired(t)
    <2>1. After(t, "await") \in TurnSteps BY DEF After, TurnSteps
    <2>2. PcTypeOK' BY <1>2, <2>1, GotoType DEF SendApprovalRequired, TypeInv, TypeOK
    <2>3. ApprovalTypeOK' BY <1>2 DEF SendApprovalRequired, TypeInv, TypeOK, ApprovalTypeOK
    <2> QED BY <1>2, <2>2, <2>3, Frames DEF SendApprovalRequired, TypeInv, TypeOK
  <1>3. CASE ApprovalResolved(t)
    <2>1. {"toolStart", "report"} \subseteq TurnSteps BY DEF TurnSteps
    <2>2. PcTypeOK' BY <1>3, <2>1, GotoType DEF ApprovalResolved, TypeInv, TypeOK
    <2>3. tools[t].call \in Mutations BY <1>3 DEF ApprovalResolved, At, TypeInv, CallInv
    <2>4. [tools[t] EXCEPT !.denied = tools[t].denied \cup {tools[t].call}] \in ToolStates
      BY <1>0, <2>3, ToolUpdates
    <2>5. ToolsTypeOK' BY <1>3, <2>4 DEF ApprovalResolved, TypeInv, TypeOK, ToolsTypeOK
    <2>6. ApprovalTypeOK' BY <1>3 DEF ApprovalResolved, TypeInv, TypeOK, ApprovalTypeOK
    <2> QED BY <1>3, <2>2, <2>5, <2>6, Frames DEF ApprovalResolved, TypeInv, TypeOK
  <1>4. CASE ApprovalCancelled(t)
    <2>1. "cancelled" \in TurnSteps BY DEF TurnSteps
    <2>2. PcTypeOK' BY <1>4, <2>1, GotoType DEF ApprovalCancelled, TypeInv, TypeOK
    <2>3. ApprovalTypeOK' BY <1>4 DEF ApprovalCancelled, TypeInv, TypeOK, ApprovalTypeOK
    <2> QED BY <1>4, <2>2, <2>3, Frames DEF ApprovalCancelled, TypeInv, TypeOK
  <1> QED BY <1>1, <1>2, <1>3, <1>4

LEMMA CompleteType == ASSUME TypeOK, NEW t \in Turns, CompleteTurn(t) PROVE TypeOK'
  <1>1. HostTypeOK' BY DEF CompleteTurn, TypeOK, HostTypeOK, hostVars
  <1>2. TurnTypeOK' BY DEF CompleteTurn, TypeOK, TurnTypeOK
  <1> QED BY <1>1, <1>2, Frames DEF CompleteTurn, TypeOK

LEMMA TaskType == ASSUME TypeInv, NEW t \in Turns, TurnTask(t) PROVE TypeOK'
  BY PlainStepsType, CountingType, TextType, HistoryStepsType, PromptStepsType, CompleteType
  DEF TurnTask, TypeInv

-----------------------------------------------------------------------------
(* CallInv. *)

\* Only a task's own steps move its call towards a prompt.
LEMMA CallStep ==
  ASSUME TypeInv, NEW t \in Turns, TurnTask(t)
  PROVE  /\ \A u \in Turns \ {t} : pc'[u] = pc[u] /\ tools'[u] = tools[u]
         /\ \/ pc'[t] \notin {"bind", "ask", "await"}
            \/ /\ pc'[t] = "bind" /\ tools'[t].call \in Mutations
               /\ tools'[t].asks < MaxMutationApprovals
            \/ /\ pc[t] \in {"bind", "ask", "await"} /\ pc'[t] \in {"ask", "await"}
               /\ tools'[t].call = tools[t].call
            \/ UNCHANGED <<pc, tools>>
  <1>0. pc \in [Turns -> TurnSteps] /\ tools \in [Turns -> ToolStates]
    BY DEF TypeInv, TypeOK, PcTypeOK, ToolsTypeOK
  <1>1. CASE AppendUserMessage(t) \/ SendUserAdded(t) \/ GetRuntimeStatus(t) \/ SendChunk(t)
             \/ EmitText(t) \/ ReportUnstarted(t) \/ SendAnswerAdded(t)
    BY <1>0, <1>1 DEF AppendUserMessage, SendUserAdded, GetRuntimeStatus, SendChunk, EmitText,
       ReportUnstarted, SendAnswerAdded, SendThen, AwaitThen, After, Goto
  <1>2. CASE SendRuntimeState(t) \/ InferTools(t) \/ BatchDone(t) \/ RunReadOnly(t)
    BY <1>0, <1>2 DEF SendRuntimeState, InferTools, BatchDone, RunReadOnly, After, Goto
  <1>3. ASSUME NEW m \in Mutations, RunMutation(t, m)
        PROVE  /\ \A u \in Turns \ {t} : pc'[u] = pc[u] /\ tools'[u] = tools[u]
               /\ \/ pc'[t] = "report"
                  \/ /\ pc'[t] = "bind" /\ tools'[t].call \in Mutations
                     /\ tools'[t].asks < MaxMutationApprovals
    BY <1>0, <1>3 DEF RunMutation, Goto, ToolStates
  <1>4. CASE InferText(t) \/ InferStreams(t) \/ PersistAnswer(t) \/ PersistPartial(t)
             \/ SendHistoryError(t)
    BY <1>0, <1>4 DEF InferText, InferStreams, PersistAnswer, PersistPartial, SendHistoryError, Goto
  <1>5. CASE InferFails(t) \/ BindingFails(t) \/ CallReturns(t) \/ CallCancelled(t) \/ SendFailure(t)
    BY <1>0, <1>5 DEF InferFails, BindingFails, CallReturns, CallCancelled, SendFailure, Goto
  <1>6. CASE SendToolStarted(t) \/ ReportStarted(t) \/ ReportFailed(t) \/ SendCompleted(t)
    BY <1>0, <1>6 DEF SendToolStarted, ReportStarted, ReportFailed, SendCompleted, After, Goto
  <1>7. CASE SubmitCall(t) \/ ReportUnknown(t) \/ SendCancelled(t) \/ SendFailed(t)
    BY <1>0, <1>7 DEF SubmitCall, ReportUnknown, SendCancelled, SendFailed, SendTerminal, Goto
  <1>8. CASE BindApproval(t)
    BY <1>0, <1>8 DEF BindApproval, At, Goto, ToolStates
  <1>9. CASE SendApprovalRequired(t) \/ ApprovalResolved(t) \/ ApprovalCancelled(t)
    BY <1>0, <1>9 DEF SendApprovalRequired, ApprovalResolved, ApprovalCancelled, At, After, Goto
  <1>10. CASE CompleteTurn(t) BY <1>10 DEF CompleteTurn
  <1> QED BY <1>1, <1>2, <1>3, <1>4, <1>5, <1>6, <1>7, <1>8, <1>9, <1>10 DEF TurnTask

\* Nothing but a task touches its call and its number of prompts, and the router
\* sends a task only to its first position.
LEMMA OtherCallStep ==
  ASSUME TypeInv, Native \/ RouterReceives \/ RouterContinues \/ \E s \in Stoppers : Stop(s)
  PROVE  \A t \in Turns : /\ tools'[t].call = tools[t].call /\ tools'[t].asks = tools[t].asks
                          /\ pc'[t] \in {pc[t], "cancelTerminal", "history"}
  <1>0. pc \in [Turns -> TurnSteps] /\ tools \in [Turns -> ToolStates]
    BY DEF TypeInv, TypeOK, PcTypeOK, ToolsTypeOK
  <1>1. CASE Native
    BY <1>1 DEF Native, PipeStalls, PipeResumes, PipeBreaks, ParentExits, turnVars
  <1>2. CASE RouterReceives
    BY <1>2 DEF RouterReceives, RecvInitialize, RecvReset, RecvShutdown, RecvSendTurn, RecvCancelTurn,
       RecvApprovalRespond, turnVars
  <1>3. ASSUME NEW s \in Stoppers, Stop(s)
        PROVE  UNCHANGED <<pc, tools>>
    BY <1>3 DEF Stop, StopTakes, StopCancels, StopDeniesApprovals, StopAwaits, StopDisposes, turnVars
  <1>4. ASSUME NEW t \in Turns, SendTurnPrepared(t)
        PROVE  /\ pc' = pc
               /\ \A u \in Turns : tools'[u].call = tools[u].call /\ tools'[u].asks = tools[u].asks
    BY <1>0, <1>4 DEF SendTurnPrepared, ToolStates
  <1>5. ASSUME NEW t \in Turns, StartTurn(t)
        PROVE  /\ tools' = tools
               /\ \A u \in Turns : pc'[u] \in {pc[u], "cancelTerminal", "history"}
    BY <1>0, <1>5 DEF StartTurn, Goto
  <1>6. CASE \/ InitializeSucceeds \/ InitializeFails \/ SendTurnRefused \/ CancelTurnResponded
             \/ ApprovalResponded \/ ResetDone \/ PlainResponse \/ ShutdownResponded \/ RouterExits
             \/ \E t \in Turns : SendTurnResponded(t) \/ SendTurnAborted(t)
    BY <1>6 DEF InitializeSucceeds, InitializeFails, SendTurnRefused, CancelTurnResponded,
       ApprovalResponded, ResetDone, PlainResponse, ShutdownResponded, RouterExits,
       SendTurnResponded, SendTurnAborted, turnVars
  <1> QED BY <1>1, <1>2, <1>3, <1>4, <1>5, <1>6 DEF RouterContinues

LEMMA TypeInvStep == TypeInv /\ [Next]_vars => TypeInv'
  <1> SUFFICES ASSUME TypeInv, [Next]_vars PROVE TypeInv'
    OBVIOUS
  <1>1. CASE UNCHANGED vars
    <2>1. TypeOK' BY <1>1, Frames DEF vars, turnVars, TypeInv, TypeOK
    <2>2. CallInv' BY <1>1 DEF vars, turnVars, TypeInv, CallInv
    <2> QED BY <2>1, <2>2 DEF TypeInv
  <1>2. ASSUME NEW t \in Turns, TurnTask(t) PROVE TypeInv'
    <2>1. TypeOK' BY <1>2, TaskType
    <2>2. CallInv' BY <1>2, CallStep DEF TypeInv, CallInv
    <2> QED BY <2>1, <2>2 DEF TypeInv
  <1>3. CASE Native \/ RouterReceives \/ RouterContinues \/ \E s \in Stoppers : Stop(s)
    <2>1. TypeOK' BY <1>3, NativeType, ReceiveType, ContinueType, StopType DEF TypeInv
    <2>2. CallInv' BY <1>3, OtherCallStep DEF TypeInv, CallInv
    <2> QED BY <2>1, <2>2 DEF TypeInv
  <1> QED BY <1>1, <1>2, <1>3 DEF Next

\* In every reachable state every variable of the coordinator has its type; in
\* particular no turn exceeds a limit on rounds, calls or prompts.
THEOREM TypeCorrect == Spec => []TypeOK
  <1>1. TypeInv => TypeOK BY DEF TypeInv
  <1> QED BY <1>1, InitType, TypeInvStep, PTL DEF Spec

\* The invariant the other proofs start from.
LEMMA TypeInvAlways == Spec => []TypeInv
  BY InitType, TypeInvStep, PTL DEF Spec

-----------------------------------------------------------------------------
(* The slot. *)

Others == Native \/ RouterReceives \/ RouterContinues \/ \E s \in Stoppers : Stop(s)

\* A task that runs never leaves its positions, and only its last step touches
\* the slot.
LEMMA TaskSlotStep ==
  ASSUME TypeInv, NEW t \in Turns, TurnTask(t)
  PROVE  /\ pc[t] # "off" /\ pc'[t] # "off"
         /\ \A u \in Turns \ {t} : pc'[u] = pc[u]
         /\ UNCHANGED <<router, disposition, cancelled, accepted>>
         /\ UNCHANGED <<activeTurn, completed>> \/ CompleteTurn(t)
  <1>0. pc \in [Turns -> TurnSteps] BY DEF TypeInv, TypeOK, PcTypeOK
  <1>1. CASE AppendUserMessage(t) \/ SendUserAdded(t) \/ GetRuntimeStatus(t) \/ SendChunk(t)
             \/ EmitText(t) \/ ReportUnstarted(t) \/ SendAnswerAdded(t)
    BY <1>0, <1>1 DEF AppendUserMessage, SendUserAdded, GetRuntimeStatus, SendChunk, EmitText,
       ReportUnstarted, SendAnswerAdded, SendThen, AwaitThen, After, Goto, At, TaskOnly, history
  <1>2. CASE SendRuntimeState(t) \/ InferTools(t) \/ BatchDone(t) \/ RunReadOnly(t)
             \/ \E m \in Mutations : RunMutation(t, m)
    BY <1>0, <1>2 DEF SendRuntimeState, InferTools, BatchDone, RunReadOnly, RunMutation, After, Goto,
       At, TaskOnly, history
  <1>3. CASE InferText(t) \/ InferStreams(t) \/ PersistAnswer(t) \/ PersistPartial(t)
             \/ SendHistoryError(t)
    BY <1>0, <1>3 DEF InferText, InferStreams, PersistAnswer, PersistPartial, SendHistoryError,
       Goto, At, TaskOnly, history
  <1>4. CASE InferFails(t) \/ BindingFails(t) \/ CallReturns(t) \/ CallCancelled(t) \/ SendFailure(t)
    BY <1>0, <1>4 DEF InferFails, BindingFails, CallReturns, CallCancelled, SendFailure, Goto, At,
       TaskOnly, history
  <1>5. CASE SendToolStarted(t) \/ ReportStarted(t) \/ ReportFailed(t) \/ SendCompleted(t)
    BY <1>0, <1>5 DEF SendToolStarted, ReportStarted, ReportFailed, SendCompleted, After, Goto, At, TaskOnly
  <1>6. CASE SubmitCall(t) \/ ReportUnknown(t) \/ SendCancelled(t) \/ SendFailed(t)
    BY <1>0, <1>6 DEF SubmitCall, ReportUnknown, SendCancelled, SendFailed, SendTerminal, Goto, At,
       TaskOnly
  <1>7. CASE BindApproval(t) \/ SendApprovalRequired(t) \/ ApprovalResolved(t) \/ ApprovalCancelled(t)
    BY <1>0, <1>7 DEF BindApproval, SendApprovalRequired, ApprovalResolved, ApprovalCancelled, At,
       After, Goto, history
  <1>8. CASE CompleteTurn(t) BY <1>8 DEF CompleteTurn, At, history
  <1> QED BY <1>1, <1>2, <1>3, <1>4, <1>5, <1>6, <1>7, <1>8 DEF TurnTask

LEMMA InitSlot == Init => SlotInv
  BY NamesAssumption DEF Init, SlotInv, OneTurnAtATime, Reserved, Running, RouterIdle

LEMMA TaskSlot == ASSUME TypeInv, SlotInv, NEW t \in Turns, TurnTask(t) PROVE SlotInv'
  <1>1. CASE UNCHANGED <<activeTurn, completed>>
    BY <1>1, TaskSlotStep DEF SlotInv, OneTurnAtATime, Reserved, Running
  <1>2. CASE CompleteTurn(t)
    <2>1. disposition[t] = "Started" BY <1>2 DEF CompleteTurn, At, SlotInv
    <2>2. activeTurn = t /\ activeTurn' = NoTurn
      BY <1>2, <2>1 DEF CompleteTurn, SlotInv, OneTurnAtATime, Running
    <2>3. completed' = [completed EXCEPT ![t] = TRUE] /\ UNCHANGED <<router, disposition, pc>>
      BY <1>2 DEF CompleteTurn
    <2>4. completed \in [Turns -> BOOLEAN] BY DEF TypeInv, TypeOK, TurnTypeOK
    <2> QED BY <2>1, <2>2, <2>3, <2>4, NamesAssumption
            DEF SlotInv, OneTurnAtATime, Reserved, Running
  <1> QED BY <1>1, <1>2, TaskSlotStep

\* A step that leaves the slot's variables alone keeps the invariant.
LEMMA SlotFrame ==
  ASSUME SlotInv, UNCHANGED <<router, activeTurn, disposition, completed, pc>>
  PROVE  SlotInv'
  BY DEF SlotInv, OneTurnAtATime, Reserved, Running

LEMMA ReceiveSlot == ASSUME TypeInv, SlotInv, RouterReceives PROVE SlotInv'
  <1> DEFINE Moved ==
        /\ router.at = "idle"
        /\ router'.at \notin {"sendRespond", "sendStart"}
        /\ router'.at = "sendLookup" => router'.turn \in Turns /\ disposition[router'.turn] = "none"
        /\ router'.at = "resetStore" => activeTurn = NoTurn
        /\ UNCHANGED <<activeTurn, disposition, completed, pc>>
  <1>1. Moved
    <2>1. CASE RecvInitialize \/ RecvReset \/ RecvShutdown
      BY <2>1 DEF RecvInitialize, RecvReset, RecvShutdown, Receive, RouterIdle, TurnBusy, turnVars
    <2>2. ASSUME NEW t \in Turns, RecvSendTurn(t) \/ RecvCancelTurn(t)
          PROVE  Moved
      BY <2>2 DEF RecvSendTurn, RecvCancelTurn, Receive, RouterIdle, turnVars
    <2>3. ASSUME NEW a \in Approvals, NEW allow \in BOOLEAN, RecvApprovalRespond(a, allow)
          PROVE  Moved
      BY <2>3 DEF RecvApprovalRespond, Receive, RouterIdle, turnVars
    <2> QED BY <2>1, <2>2, <2>3 DEF RouterReceives
  <1> QED BY <1>1 DEF SlotInv, OneTurnAtATime, Reserved, Running

LEMMA ContinueSlot == ASSUME TypeInv, SlotInv, RouterContinues PROVE SlotInv'
  <1>0. /\ disposition \in [Turns -> Dispositions] /\ completed \in [Turns -> BOOLEAN]
        /\ pc \in [Turns -> TurnSteps] /\ router \in RouterStates
    BY DEF TypeInv, TypeOK, TurnTypeOK, PcTypeOK, RouterTypeOK
  <1>1. CASE \/ InitializeSucceeds \/ InitializeFails \/ SendTurnRefused \/ ApprovalResponded
             \/ ResetDone \/ PlainResponse \/ ShutdownResponded \/ RouterExits
    <2>1. /\ router.at \notin {"sendRespond", "sendStart"}
          /\ router'.at \notin {"sendLookup", "sendRespond", "sendStart", "resetStore"}
          /\ UNCHANGED <<activeTurn, disposition, completed, pc>>
      BY <1>1 DEF InitializeSucceeds, InitializeFails, SendTurnRefused, ApprovalResponded,
         ResetDone, PlainResponse, ShutdownResponded, RouterExits, RouterIdle, Exited, turnVars
    <2> QED BY <2>1 DEF SlotInv, OneTurnAtATime, Reserved, Running
  <1>2. ASSUME NEW t \in Turns, SendTurnPrepared(t) PROVE SlotInv'
    <2>1. /\ router.at = "sendLookup" /\ router.turn = t /\ activeTurn = NoTurn /\ activeTurn' = t
          /\ disposition' = [disposition EXCEPT ![t] = "Prepared"]
          /\ router'.at = "sendRespond" /\ router'.turn = t
          /\ UNCHANGED <<completed, pc>>
      BY <1>0, <1>2 DEF SendTurnPrepared, TurnBusy, RouterStates
    <2> QED BY <1>0, <2>1, NamesAssumption DEF SlotInv, OneTurnAtATime, Reserved, Running
  <1>3. ASSUME NEW t \in Turns, SendTurnResponded(t) PROVE SlotInv'
    <2>1. /\ router.at = "sendRespond" /\ router.turn = t
          /\ router'.at = "sendStart" /\ router'.turn = t
          /\ UNCHANGED <<activeTurn, disposition, completed, pc>>
      BY <1>0, <1>3 DEF SendTurnResponded, RouterStates, turnVars
    <2> QED BY <2>1 DEF SlotInv, OneTurnAtATime, Reserved, Running
  <1>4. ASSUME NEW t \in Turns, SendTurnAborted(t) PROVE SlotInv'
    <2>1. router.at = "sendRespond" /\ router.turn = t BY <1>4 DEF SendTurnAborted
    <2>2. activeTurn = t BY <2>1 DEF SlotInv, OneTurnAtATime
    <2>3. /\ activeTurn' = NoTurn /\ router'.at = "exited" /\ pc' = pc
          /\ disposition' = [disposition EXCEPT ![t] = "Aborted"]
          /\ completed' = [completed EXCEPT ![t] = TRUE]
      BY <1>4, <2>2 DEF SendTurnAborted, Exited, RouterIdle
    <2> QED BY <1>0, <2>1, <2>2, <2>3, NamesAssumption DEF SlotInv, OneTurnAtATime, Reserved, Running
  <1>5. ASSUME NEW t \in Turns, StartTurn(t) PROVE SlotInv'
    <2>1. router.at = "sendStart" /\ router.turn = t BY <1>5 DEF StartTurn
    <2>2. activeTurn = t /\ ~completed[t] /\ disposition[t] # "Started"
      BY <2>1 DEF SlotInv, OneTurnAtATime, Reserved
    <2>3. PICK step \in {"cancelTerminal", "history"} :
            /\ pc' = [pc EXCEPT ![t] = step] /\ router'.at = "idle"
            /\ disposition' = [disposition EXCEPT ![t] = "Started"]
            /\ UNCHANGED <<activeTurn, completed>>
      BY <1>5 DEF StartTurn, Goto, RouterIdle
    <2> QED BY <1>0, <2>1, <2>2, <2>3 DEF SlotInv, OneTurnAtATime, Reserved, Running
  <1>6. CASE CancelTurnResponded
    <2>1. /\ router.at = "cancelRespond" /\ router'.at \in {"idle", "exited"}
          /\ UNCHANGED <<activeTurn, completed, pc>>
      BY <1>6 DEF CancelTurnResponded, RouterIdle, Exited
    <2>2. \A u \in Turns : \/ disposition'[u] = disposition[u]
                           \/ disposition[u] = "Prepared" /\ disposition'[u] = "CancelledBeforeStart"
      BY <1>0, <1>6 DEF CancelTurnResponded, TryCancel, RouterStates
    <2> QED BY <2>1, <2>2 DEF SlotInv, OneTurnAtATime, Reserved, Running
  <1> QED BY <1>1, <1>2, <1>3, <1>4, <1>5, <1>6 DEF RouterContinues

LEMMA StopSlot == ASSUME TypeInv, SlotInv, NEW s \in Stoppers, Stop(s) PROVE SlotInv'
  <1>1. CASE StopCancels(s)
    <2>1. UNCHANGED <<router, activeTurn, completed, pc>> BY <1>1 DEF StopCancels
    <2>2. \A u \in Turns : \/ disposition'[u] = disposition[u]
                           \/ disposition[u] = "Prepared" /\ disposition'[u] = "CancelledBeforeStart"
      BY <1>1 DEF StopCancels, TryCancel, TypeInv, TypeOK, TurnTypeOK, StopperTypeOK
    <2> QED BY <2>1, <2>2 DEF SlotInv, OneTurnAtATime, Reserved, Running
  <1>2. CASE StopTakes(s) \/ StopDeniesApprovals(s) \/ StopAwaits(s) \/ StopDisposes(s)
    BY <1>2, SlotFrame DEF StopTakes, StopDeniesApprovals, StopAwaits, StopDisposes, turnVars
  <1> QED BY <1>1, <1>2 DEF Stop

LEMMA SlotStep == TypeInv /\ SlotInv /\ [Next]_vars => SlotInv'
  <1> SUFFICES ASSUME TypeInv, SlotInv, [Next]_vars PROVE SlotInv'
    OBVIOUS
  <1>1. CASE UNCHANGED vars BY <1>1, SlotFrame DEF vars, turnVars
  <1>2. CASE Native
    BY <1>2, SlotFrame DEF Native, PipeStalls, PipeResumes, PipeBreaks, ParentExits, turnVars
  <1> QED BY <1>1, <1>2, TaskSlot, ReceiveSlot, ContinueSlot, StopSlot DEF Next

LEMMA SlotInvAlways == Spec => []SlotInv
  BY TypeInvAlways, InitSlot, SlotStep, PTL DEF Spec

\* _activeTurn is always exactly the prepared or running turn: the check before
\* the store lookup, the recheck after it and the release by the turn's own task
\* never let two turns share the coordinator, whatever the number of requests.
THEOREM OneTurnAlways == Spec => []OneTurnAtATime
  <1>1. SlotInv => OneTurnAtATime BY DEF SlotInv
  <1> QED BY <1>1, SlotInvAlways, PTL

\* History is never deleted under a prepared or running turn, although reset
\* tests the slot before it awaits the store.
THEOREM ResetAlwaysExcludesTurns == Spec => []ResetExcludesTurns
  <1>1. SlotInv => ResetExcludesTurns
    BY NamesAssumption DEF SlotInv, OneTurnAtATime, ResetExcludesTurns
  <1> QED BY <1>1, SlotInvAlways, PTL

-----------------------------------------------------------------------------
(* The terminal report. *)

\* A task reports its end exactly when it moves to its last position.
LEMMA TaskReports ==
  ASSUME TypeInv, NEW t \in Turns, TurnTask(t)
  PROVE  \/ pc[t] # "end" /\ pc'[t] # "end" /\ UNCHANGED <<terminals, lost>>
         \/ /\ pc[t] # "end" /\ pc'[t] = "end"
            /\ \/ /\ \E status \in {"completed", "cancelled", "failed"} :
                       terminals' = [terminals EXCEPT ![t] = Append(@, status)]
                  /\ UNCHANGED lost
               \/ lost' = lost \cup {t} /\ UNCHANGED terminals
         \/ CompleteTurn(t) /\ UNCHANGED <<pc, terminals, lost>>
  <1>0. pc \in [Turns -> TurnSteps] /\ pipe \in {"open", "stalled", "broken"}
    BY DEF TypeInv, TypeOK, PcTypeOK, HostTypeOK
  <1>1. CASE AppendUserMessage(t) \/ SendUserAdded(t) \/ GetRuntimeStatus(t) \/ SendChunk(t)
             \/ EmitText(t) \/ ReportUnstarted(t) \/ SendAnswerAdded(t)
    BY <1>0, <1>1 DEF AppendUserMessage, SendUserAdded, GetRuntimeStatus, SendChunk, EmitText,
       ReportUnstarted, SendAnswerAdded, SendThen, AwaitThen, After, Goto, At, history
  <1>2. CASE SendRuntimeState(t) \/ InferTools(t) \/ BatchDone(t) \/ RunReadOnly(t)
             \/ \E m \in Mutations : RunMutation(t, m)
    BY <1>0, <1>2 DEF SendRuntimeState, InferTools, BatchDone, RunReadOnly, RunMutation, After, Goto,
       At, history
  <1>3. CASE InferText(t) \/ InferStreams(t) \/ PersistAnswer(t) \/ PersistPartial(t)
             \/ SendHistoryError(t)
    BY <1>0, <1>3 DEF InferText, InferStreams, PersistAnswer, PersistPartial, SendHistoryError,
       Goto, At, history
  <1>4. CASE InferFails(t) \/ BindingFails(t) \/ CallReturns(t) \/ CallCancelled(t) \/ SendFailure(t)
    BY <1>0, <1>4 DEF InferFails, BindingFails, CallReturns, CallCancelled, SendFailure, Goto, At,
       history
  <1>5. CASE SendToolStarted(t) \/ ReportStarted(t) \/ ReportFailed(t)
    BY <1>0, <1>5 DEF SendToolStarted, ReportStarted, ReportFailed, After, Goto, At
  <1>6. CASE SubmitCall(t) \/ ReportUnknown(t)
    BY <1>0, <1>6 DEF SubmitCall, ReportUnknown, Goto, At
  <1>7. CASE BindApproval(t) \/ SendApprovalRequired(t) \/ ApprovalResolved(t) \/ ApprovalCancelled(t)
    BY <1>0, <1>7 DEF BindApproval, SendApprovalRequired, ApprovalResolved, ApprovalCancelled, At,
       After, Goto, history
  <1>8. CASE SendCompleted(t)
    BY <1>0, <1>8 DEF SendCompleted, SendEnds, Delivered, After, Goto, At
  <1>9. CASE SendCancelled(t) \/ SendFailed(t)
    BY <1>0, <1>9 DEF SendCancelled, SendFailed, SendTerminal, Goto, At
  <1>10. CASE CompleteTurn(t) BY <1>10 DEF CompleteTurn, history
  <1> QED BY <1>1, <1>2, <1>3, <1>4, <1>5, <1>6, <1>7, <1>8, <1>9, <1>10 DEF TurnTask

LEMMA InitTerminal == Init => TerminalInv
  BY DEF Init, TerminalInv, RouterIdle

LEMMA TaskTerminal ==
  ASSUME TypeInv, SlotInv, TerminalInv, NEW t \in Turns, TurnTask(t)
  PROVE  TerminalInv'
  <1>0. /\ pc[t] # "off" /\ pc'[t] # "off" /\ UNCHANGED <<router, disposition, accepted>>
        /\ \A u \in Turns \ {t} : pc'[u] = pc[u]
        /\ UNCHANGED <<activeTurn, completed>> \/ CompleteTurn(t)
    BY TaskSlotStep
  <1>1. terminals \in [Turns -> Seq({"completed", "cancelled", "failed"})]
    BY DEF TypeInv, TypeOK, HistoryTypeOK
  <1>2. CASE pc[t] # "end" /\ pc'[t] # "end" /\ UNCHANGED <<terminals, lost>>
    <2>1. UNCHANGED completed BY <1>0, <1>2 DEF CompleteTurn, At
    <2> QED BY <1>0, <1>2, <2>1 DEF TerminalInv
  <1>3. CASE /\ pc[t] # "end" /\ pc'[t] = "end"
             /\ \E status \in {"completed", "cancelled", "failed"} :
                   terminals' = [terminals EXCEPT ![t] = Append(@, status)]
             /\ UNCHANGED lost
    <2>1. UNCHANGED completed BY <1>0, <1>3 DEF CompleteTurn, At
    <2>2. terminals[t] = <<>> BY <1>3 DEF TerminalInv
    <2>3. Len(terminals'[t]) = 1 /\ terminals'[t] # <<>> BY <1>1, <1>3, <2>2
    <2>4. \A u \in Turns \ {t} : terminals'[u] = terminals[u] BY <1>1, <1>3
    <2> QED BY <1>0, <1>3, <2>1, <2>3, <2>4 DEF TerminalInv
  <1>4. CASE pc[t] # "end" /\ pc'[t] = "end" /\ lost' = lost \cup {t} /\ UNCHANGED terminals
    <2>1. UNCHANGED completed BY <1>0, <1>4 DEF CompleteTurn, At
    <2> QED BY <1>0, <1>4, <2>1 DEF TerminalInv
  <1>5. CASE CompleteTurn(t) /\ UNCHANGED <<pc, terminals, lost>>
    <2>1. pc[t] = "end" /\ completed' = [completed EXCEPT ![t] = TRUE]
      BY <1>5 DEF CompleteTurn, At
    <2>2. completed \in [Turns -> BOOLEAN] BY DEF TypeInv, TypeOK, TurnTypeOK
    <2> QED BY <1>0, <1>5, <2>1, <2>2 DEF TerminalInv
  <1> QED BY <1>2, <1>3, <1>4, <1>5, TaskReports

\* Everybody else leaves the reports and the last positions alone.
LEMMA TerminalFrame ==
  ASSUME TerminalInv, UNCHANGED <<disposition, completed, pc, terminals, lost, accepted>>,
         router'.at # "sendStart", router.at # "sendStart" \/ UNCHANGED router
  PROVE  TerminalInv'
  BY DEF TerminalInv

LEMMA RouterTerminal ==
  ASSUME TypeInv, SlotInv, TerminalInv, RouterReceives \/ RouterContinues
  PROVE  TerminalInv'
  <1>0. /\ disposition \in [Turns -> Dispositions] /\ completed \in [Turns -> BOOLEAN]
        /\ pc \in [Turns -> TurnSteps] /\ router \in RouterStates
    BY DEF TypeInv, TypeOK, TurnTypeOK, PcTypeOK, RouterTypeOK
  <1>1. CASE RouterReceives
    <2>1. /\ router.at = "idle" /\ router'.at # "sendStart"
          /\ UNCHANGED <<disposition, completed, pc, terminals, lost, accepted>>
      BY <1>1 DEF RouterReceives, RecvInitialize, RecvReset, RecvShutdown, RecvSendTurn,
         RecvCancelTurn, RecvApprovalRespond, Receive, RouterIdle, turnVars, history
    <2> QED BY <2>1, TerminalFrame
  <1>2. CASE \/ InitializeSucceeds \/ InitializeFails \/ SendTurnRefused \/ ApprovalResponded
             \/ ResetDone \/ PlainResponse \/ ShutdownResponded \/ RouterExits
    <2>1. /\ router.at # "sendStart" /\ router'.at # "sendStart"
          /\ UNCHANGED <<disposition, completed, pc, terminals, lost, accepted>>
      BY <1>2 DEF InitializeSucceeds, InitializeFails, SendTurnRefused, ApprovalResponded,
         ResetDone, PlainResponse, ShutdownResponded, RouterExits, RouterIdle, Exited, turnVars,
         history
    <2> QED BY <2>1, TerminalFrame
  <1>3. ASSUME NEW t \in Turns, SendTurnPrepared(t) PROVE TerminalInv'
    <2>1. /\ router.at = "sendLookup" /\ router.turn = t
          /\ router'.at = "sendRespond"
          /\ disposition' = [disposition EXCEPT ![t] = "Prepared"]
          /\ UNCHANGED <<completed, pc, terminals, lost, accepted>>
      BY <1>0, <1>3 DEF SendTurnPrepared, RouterStates, history
    <2>2. disposition[t] = "none" BY <2>1 DEF SlotInv
    <2> QED BY <1>0, <2>1, <2>2 DEF TerminalInv
  <1>4. ASSUME NEW t \in Turns, SendTurnResponded(t) PROVE TerminalInv'
    <2>1. /\ router.at = "sendRespond" /\ router.turn = t
          /\ router'.at = "sendStart" /\ router'.turn = t /\ accepted' = accepted \cup {t}
          /\ UNCHANGED <<disposition, completed, pc, terminals, lost>>
      BY <1>0, <1>4 DEF SendTurnResponded, RouterStates, turnVars
    <2> QED BY <2>1 DEF TerminalInv
  <1>5. ASSUME NEW t \in Turns, SendTurnAborted(t) PROVE TerminalInv'
    <2>1. /\ router.at = "sendRespond" /\ router.turn = t /\ router'.at = "exited"
          /\ disposition' = [disposition EXCEPT ![t] = "Aborted"]
          /\ completed' = [completed EXCEPT ![t] = TRUE]
          /\ UNCHANGED <<pc, terminals, lost, accepted>>
      BY <1>5 DEF SendTurnAborted, Exited, RouterIdle, history
    <2>2. disposition[t] # "Started" BY <2>1 DEF SlotInv, Reserved
    <2> QED BY <1>0, <2>1, <2>2 DEF TerminalInv
  <1>6. ASSUME NEW t \in Turns, StartTurn(t) PROVE TerminalInv'
    <2>1. router.at = "sendStart" /\ router.turn = t BY <1>6 DEF StartTurn
    <2>2. disposition[t] # "Started" /\ pc[t] = "off" /\ ~completed[t]
      BY <2>1 DEF SlotInv, Reserved
    <2>3. PICK step \in {"cancelTerminal", "history"} :
            /\ pc' = [pc EXCEPT ![t] = step] /\ router'.at = "idle"
            /\ disposition' = [disposition EXCEPT ![t] = "Started"]
            /\ UNCHANGED <<completed, terminals, lost, accepted>>
      BY <1>6 DEF StartTurn, Goto, RouterIdle, history
    <2> QED BY <1>0, <2>1, <2>2, <2>3 DEF TerminalInv
  <1>7. CASE CancelTurnResponded
    <2>1. /\ router.at = "cancelRespond" /\ router'.at \in {"idle", "exited"}
          /\ UNCHANGED <<completed, pc, terminals, lost, accepted>>
      BY <1>7 DEF CancelTurnResponded, RouterIdle, Exited, history
    <2>2. \A u \in Turns : \/ disposition'[u] = disposition[u]
                           \/ disposition[u] = "Prepared" /\ disposition'[u] = "CancelledBeforeStart"
      BY <1>0, <1>7 DEF CancelTurnResponded, TryCancel, RouterStates
    <2> QED BY <2>1, <2>2 DEF TerminalInv
  <1> QED BY <1>1, <1>2, <1>3, <1>4, <1>5, <1>6, <1>7 DEF RouterContinues

LEMMA StopTerminal ==
  ASSUME TypeInv, TerminalInv, NEW s \in Stoppers, Stop(s)
  PROVE  TerminalInv'
  <1>1. UNCHANGED <<router, completed, pc, terminals, lost, accepted>>
    BY DEF Stop, StopTakes, StopCancels, StopDeniesApprovals, StopAwaits, StopDisposes, turnVars, history
  <1>2. \A u \in Turns : \/ disposition'[u] = disposition[u]
                         \/ disposition[u] = "Prepared" /\ disposition'[u] = "CancelledBeforeStart"
    BY DEF Stop, StopTakes, StopCancels, StopDeniesApprovals, StopAwaits, StopDisposes, turnVars,
       TryCancel, TypeInv, TypeOK, TurnTypeOK, StopperTypeOK
  <1> QED BY <1>1, <1>2 DEF TerminalInv

LEMMA TerminalStep == TypeInv /\ SlotInv /\ TerminalInv /\ [Next]_vars => TerminalInv'
  <1> SUFFICES ASSUME TypeInv, SlotInv, TerminalInv, [Next]_vars PROVE TerminalInv'
    OBVIOUS
  <1>1. CASE UNCHANGED vars BY <1>1 DEF vars, turnVars, history, TerminalInv
  <1>2. CASE Native
    BY <1>2 DEF Native, PipeStalls, PipeResumes, PipeBreaks, ParentExits, turnVars, history,
       TerminalInv
  <1> QED BY <1>1, <1>2, TaskTerminal, RouterTerminal, StopTerminal DEF Next

LEMMA TerminalInvAlways == Spec => []TerminalInv
  BY TypeInvAlways, SlotInvAlways, InitTerminal, TerminalStep, PTL DEF Spec

\* Every accepted turn reports its end exactly once, or the transport lost that
\* one report; a turn that was never accepted reports nothing.
THEOREM OneTerminalAlways == Spec => []OneTerminalPerTurn
  <1>1. TypeInv /\ SlotInv /\ TerminalInv => OneTerminalPerTurn
    <2> SUFFICES ASSUME TypeInv, SlotInv, TerminalInv, NEW t \in Turns
                 PROVE  /\ Len(terminals[t]) <= 1
                        /\ completed[t] /\ t \in accepted => terminals[t] # <<>> \/ t \in lost
                        /\ t \notin accepted => terminals[t] = <<>>
      BY DEF OneTerminalPerTurn
    <2>1. t \in accepted /\ completed[t] => disposition[t] = "Started"
      BY DEF TerminalInv, SlotInv, Reserved
    <2> QED BY <2>1 DEF TerminalInv, SlotInv
  <1> QED BY <1>1, TypeInvAlways, SlotInvAlways, TerminalInvAlways, PTL

-----------------------------------------------------------------------------
(* The approval of mutations. *)

LEMMA InitPrompt == Init => PromptInv
  BY LimitsAssumption DEF Init, PromptInv, PromptStateInv, PromptUseInv, BeforeCall, Approvals, NoTools

\* What a task step other than the registration and the use of a prompt does.
LEMMA TaskPromptStep ==
  ASSUME TypeInv, NEW t \in Turns, TurnTask(t), ~BindApproval(t), ~SubmitCall(t)
  PROVE  /\ UNCHANGED <<router, approvalState, resolution, verdict, runs>>
         /\ approvals' \subseteq approvals
         /\ tools'[t].asks = tools[t].asks
         /\ \/ pc'[t] \notin {"ask", "await", "toolStart", "submit"}
            \/ pc'[t] = "await" /\ pc[t] = "ask"
            \/ pc'[t] = "toolStart" /\ tools'[t].call = Read
            \/ /\ pc'[t] = "toolStart" /\ pc[t] = "await" /\ tools'[t].call = tools[t].call
               /\ resolution[Prompt(t)] = "allow"
            \/ pc'[t] = "submit" /\ pc[t] = "toolStart" /\ tools'[t].call = tools[t].call
            \/ UNCHANGED <<pc, tools>>
  <1>0. pc \in [Turns -> TurnSteps] /\ tools \in [Turns -> ToolStates]
    BY DEF TypeInv, TypeOK, PcTypeOK, ToolsTypeOK
  <1>1. CASE AppendUserMessage(t) \/ SendUserAdded(t) \/ GetRuntimeStatus(t) \/ SendChunk(t)
             \/ EmitText(t) \/ ReportUnstarted(t) \/ SendAnswerAdded(t)
    BY <1>0, <1>1 DEF AppendUserMessage, SendUserAdded, GetRuntimeStatus, SendChunk, EmitText,
       ReportUnstarted, SendAnswerAdded, SendThen, AwaitThen, After, Goto, TaskOnly, history,
       approvalVars
  <1>2. CASE SendRuntimeState(t) \/ InferTools(t) \/ BatchDone(t) \/ RunReadOnly(t)
             \/ \E m \in Mutations : RunMutation(t, m)
    <2>1. UNCHANGED <<router, approvals, approvalState, resolution, verdict, runs>>
      BY <1>2 DEF SendRuntimeState, InferTools, BatchDone, RunReadOnly, RunMutation, TaskOnly,
         approvalVars, history
    <2>2. tools'[t].asks = tools[t].asks
      <3>1. CASE SendRuntimeState(t) BY <1>0, <3>1 DEF SendRuntimeState, ToolStates
      <3>2. CASE InferTools(t) BY <1>0, <3>2 DEF InferTools, ToolStates
      <3>3. CASE BatchDone(t) BY <1>0, <3>3 DEF BatchDone, ToolStates
      <3>4. CASE RunReadOnly(t) BY <1>0, <3>4 DEF RunReadOnly, ToolStates
      <3>5. ASSUME NEW m \in Mutations, RunMutation(t, m) PROVE tools'[t].asks = tools[t].asks
        BY <1>0, <3>5 DEF RunMutation, ToolStates
      <3> QED BY <1>2, <3>1, <3>2, <3>3, <3>4, <3>5
    <2>3. \/ pc'[t] \notin {"ask", "await", "toolStart", "submit"}
          \/ pc'[t] = "toolStart" /\ tools'[t].call = Read
      <3>1. CASE SendRuntimeState(t) \/ InferTools(t) \/ BatchDone(t)
        BY <1>0, <3>1 DEF SendRuntimeState, InferTools, BatchDone, After, Goto
      <3>2. CASE RunReadOnly(t) BY <1>0, <3>2 DEF RunReadOnly, Goto, ToolStates
      <3>3. ASSUME NEW m \in Mutations, RunMutation(t, m) PROVE pc'[t] \in {"report", "bind"}
        BY <1>0, <3>3 DEF RunMutation, Goto
      <3> QED BY <1>2, <3>1, <3>2, <3>3
    <2> QED BY <2>1, <2>2, <2>3
  <1>3. CASE InferText(t) \/ InferStreams(t) \/ PersistAnswer(t) \/ PersistPartial(t)
             \/ SendHistoryError(t)
    BY <1>0, <1>3 DEF InferText, InferStreams, PersistAnswer, PersistPartial, SendHistoryError,
       Goto, TaskOnly, history, approvalVars
  <1>4. CASE InferFails(t) \/ BindingFails(t) \/ CallReturns(t) \/ CallCancelled(t) \/ SendFailure(t)
    BY <1>0, <1>4 DEF InferFails, BindingFails, CallReturns, CallCancelled, SendFailure, Goto,
       TaskOnly, history, approvalVars
  <1>5. CASE SendToolStarted(t) \/ ReportStarted(t) \/ ReportFailed(t) \/ SendCompleted(t)
    BY <1>0, <1>5 DEF SendToolStarted, ReportStarted, ReportFailed, SendCompleted, After, Goto, At, TaskOnly,
       approvalVars
  <1>6. CASE ReportUnknown(t) \/ SendCancelled(t) \/ SendFailed(t)
    BY <1>0, <1>6 DEF ReportUnknown, SendCancelled, SendFailed, SendTerminal, Goto, TaskOnly,
       approvalVars
  <1>7. CASE SendApprovalRequired(t) \/ ApprovalCancelled(t)
    BY <1>0, <1>7 DEF SendApprovalRequired, ApprovalCancelled, At, After, Goto, history
  <1>8. CASE ApprovalResolved(t)
    BY <1>0, <1>8 DEF ApprovalResolved, At, Goto, history, ToolStates
  <1>9. CASE CompleteTurn(t) BY <1>9 DEF CompleteTurn, history, approvalVars
  <1> QED BY <1>1, <1>2, <1>3, <1>4, <1>5, <1>6, <1>7, <1>8, <1>9 DEF TurnTask

\* Facts about approval identifiers.
LEMMA PromptFacts ==
  ASSUME TypeInv, NEW t \in Turns, tools[t].asks > 0
  PROVE  /\ Prompt(t) \in Approvals
         /\ \A u \in Turns \ {t} : Prompt(u) # Prompt(t)
  <1>1. tools[t] \in ToolStates BY DEF TypeInv, TypeOK, ToolsTypeOK
  <1>2. tools[t].asks \in 1..MaxMutationApprovals
    BY <1>1, LimitsAssumption DEF ToolStates
  <1> QED BY <1>2 DEF Prompt, Approvals

LEMMA TaskPrompt == ASSUME TypeInv, PromptInv, NEW t \in Turns, TurnTask(t) PROVE PromptInv'
  <1>0. /\ pc \in [Turns -> TurnSteps] /\ tools \in [Turns -> ToolStates]
        /\ approvalState \in [Approvals -> {"none", "Pending", "Prepared", "Completed"}]
        /\ runs \in [Approvals -> Nat]
    BY DEF TypeInv, TypeOK, PcTypeOK, ToolsTypeOK, ApprovalTypeOK, HistoryTypeOK
  <1>1. \A u \in Turns \ {t} : pc'[u] = pc[u] /\ tools'[u] = tools[u] BY CallStep
  <1>2. CASE ~BindApproval(t) /\ ~SubmitCall(t)
    <2>1. \A u \in Turns : tools'[u].asks = tools[u].asks /\ Prompt(u)' = Prompt(u)
      BY <1>1, <1>2, TaskPromptStep DEF Prompt
    <2>2. UNCHANGED <<router, approvalState, resolution, verdict, runs>> /\ approvals' \subseteq approvals
      BY <1>2, TaskPromptStep
    <2>3. \A u \in Turns \ {t} : pc'[u] = pc[u] /\ tools'[u].call = tools[u].call BY <1>1
    <2>4. pc'[t] \in {"ask", "await"} => pc[t] \in {"ask", "await"}
      BY <1>2, TaskPromptStep
    <2>5. pc'[t] \in BeforeCall /\ tools'[t].call # Read =>
            \/ pc[t] \in BeforeCall /\ tools[t].call # Read
            \/ pc[t] = "await" /\ resolution[Prompt(t)] = "allow"
      BY <1>2, TaskPromptStep DEF BeforeCall
    <2> QED BY <2>1, <2>2, <2>3, <2>4, <2>5 DEF PromptInv, PromptStateInv, PromptUseInv, Approvals
  <1>3. CASE BindApproval(t)
    <2> DEFINE a == <<t, tools[t].asks + 1>>
    <2>1. tools[t].asks \in Nat /\ tools[t].asks < MaxMutationApprovals
      BY <1>0, <1>3, LimitsAssumption DEF BindApproval, At, TypeInv, CallInv, ToolStates
    <2>2. a \in Approvals BY <2>1, LimitsAssumption DEF Approvals
    <2>3. /\ approvals' = approvals \cup {a} /\ approvalState' = [approvalState EXCEPT ![a] = "Pending"]
          /\ UNCHANGED <<router, resolution, verdict, runs>>
          /\ pc'[t] = "ask" /\ tools'[t].asks = tools[t].asks + 1
      BY <1>0, <1>3 DEF BindApproval, Goto, ToolStates
    <2>4. a[1] = t /\ a[2] = tools[t].asks + 1 OBVIOUS
    <2>5. approvalState[a] = "none" /\ runs[a] = 0 /\ resolution[a] = "none" /\ verdict[a] = "none"
      BY <2>1, <2>2, <2>4 DEF PromptInv, PromptStateInv
    <2>6. \A b \in Approvals : b[1] \in Turns /\ b[2] \in Nat BY LimitsAssumption DEF Approvals
    <2>7. \A b \in Approvals : b[2] > tools'[b[1]].asks => b # a /\ b[2] > tools[b[1]].asks
      BY <1>1, <2>1, <2>3, <2>4, <2>6
    <2>8. Prompt(t)' = a BY <2>3 DEF Prompt
    <2>9. \A u \in Turns \ {t} : Prompt(u)' = Prompt(u) BY <1>1 DEF Prompt
    <2> HIDE DEF a
    <2>10. /\ \A b \in Approvals : b # a => approvalState'[b] = approvalState[b]
           /\ approvalState'[a] = "Pending"
      BY <1>0, <2>2, <2>3
    <2>11. PromptStateInv'
      BY <2>2, <2>3, <2>5, <2>7, <2>10 DEF PromptInv, PromptStateInv
    <2>12. PromptUseInv'
      BY <1>1, <2>1, <2>3, <2>5, <2>8, <2>9 DEF PromptInv, PromptStateInv, PromptUseInv, BeforeCall
    <2> QED BY <2>11, <2>12 DEF PromptInv
  <1>4. CASE SubmitCall(t)
    <2>1. /\ UNCHANGED <<router, tools, approvals, approvalState, resolution, verdict>>
          /\ pc[t] = "submit" /\ pc'[t] \notin {"ask", "await", "toolStart", "submit"}
      BY <1>0, <1>4 DEF SubmitCall, At, Goto, TaskOnly, approvalVars
    <2>2. \A u \in Turns : Prompt(u)' = Prompt(u) BY <2>1 DEF Prompt
    <2>3. CASE runs' = runs
      BY <1>1, <2>1, <2>2, <2>3 DEF PromptInv, PromptStateInv, PromptUseInv, BeforeCall
    <2>4. CASE tools[t].call # Read /\ runs' = [runs EXCEPT ![Prompt(t)] = @ + 1]
      <3> DEFINE a == Prompt(t)
      <3>1. tools[t].asks > 0 /\ runs[a] = 0 /\ resolution[a] = "allow"
        BY <2>1, <2>4 DEF PromptInv, PromptStateInv, PromptUseInv, BeforeCall
      <3>2. a \in Approvals /\ \A u \in Turns \ {t} : Prompt(u) # a BY <3>1, PromptFacts
      <3>3. a[1] = t /\ a[2] = tools[t].asks BY DEF Prompt
      <3>4. tools[t].asks \in Nat BY <1>0, LimitsAssumption DEF ToolStates
      <3> HIDE DEF a
      <3>5. runs'[a] = 1 /\ \A b : b # a => runs'[b] = runs[b] \/ b \notin Approvals
        BY <1>0, <2>4, <3>1, <3>2 DEF a
      <3>6. ~(a[2] > tools[a[1]].asks) BY <3>3, <3>4
      <3>7. PromptStateInv'
        BY <2>1, <3>1, <3>2, <3>5, <3>6 DEF PromptInv, PromptStateInv
      <3>8. PromptUseInv'
        <4> SUFFICES ASSUME NEW u \in Turns, u # t, tools[u].asks > 0
                     PROVE  runs'[Prompt(u)] = runs[Prompt(u)]
          BY <1>1, <2>1, <2>2 DEF PromptInv, PromptStateInv, PromptUseInv, BeforeCall
        <4> QED BY <3>2, <3>5, PromptFacts
      <3> QED BY <3>7, <3>8 DEF PromptInv
    <2> QED BY <1>4, <2>3, <2>4 DEF SubmitCall
  <1> QED BY <1>2, <1>3, <1>4

\* The router and the stoppers only settle prompts; they neither use them nor
\* bring a task before its call.
LEMMA OtherPrompt ==
  ASSUME TypeInv, PromptInv, Others,
         PromptStateInv'
         \/ /\ UNCHANGED <<approvals, approvalState, resolution, verdict, runs>>
            /\ UNCHANGED router \/ router.at # "approvalRespond",
         UNCHANGED runs,
         \A a \in Approvals : resolution[a] = "allow" => resolution'[a] = "allow"
  PROVE  PromptInv'
  <1>0. \A t \in Turns : /\ tools'[t].call = tools[t].call /\ tools'[t].asks = tools[t].asks
                          /\ pc'[t] \in {pc[t], "cancelTerminal", "history"}
    BY OtherCallStep DEF Others
  <1>1. PromptStateInv'
    <2> SUFFICES ASSUME UNCHANGED <<approvals, approvalState, resolution, verdict, runs>>,
                        UNCHANGED router \/ router.at # "approvalRespond"
                 PROVE  PromptStateInv'
      OBVIOUS
    <2>1. \A a \in Approvals : a[1] \in Turns BY DEF Approvals
    <2> QED BY <1>0, <2>1 DEF PromptInv, PromptStateInv
  <1>2. \A t \in Turns : Prompt(t)' = Prompt(t) BY <1>0 DEF Prompt
  <1>3. PromptUseInv'
    <2> SUFFICES ASSUME NEW t \in Turns
                 PROVE  /\ pc'[t] \in {"ask", "await"} => tools'[t].asks > 0 /\ runs'[Prompt(t)'] = 0
                        /\ pc'[t] \in BeforeCall /\ tools'[t].call # Read =>
                             /\ tools'[t].asks > 0 /\ runs'[Prompt(t)'] = 0
                             /\ resolution'[Prompt(t)'] = "allow"
      BY DEF PromptUseInv, BeforeCall
    <2>1. pc'[t] \in {"ask", "await"} => pc[t] \in {"ask", "await"} BY <1>0
    <2>2. pc'[t] \in BeforeCall => pc[t] \in BeforeCall BY <1>0 DEF BeforeCall
    <2>3. tools[t].asks > 0 => Prompt(t) \in Approvals BY PromptFacts
    <2> QED BY <1>0, <1>2, <2>1, <2>2, <2>3 DEF PromptInv, PromptUseInv
  <1> QED BY <1>1, <1>3 DEF PromptInv

LEMMA AnswerPrompt ==
  ASSUME TypeInv, PromptInv, NEW a \in Approvals, NEW allow \in BOOLEAN, RecvApprovalRespond(a, allow)
  PROVE  PromptInv'
  <1> DEFINE taken == a \in approvals /\ approvalState[a] = "Pending"
  <1>0. /\ approvalState \in [Approvals -> {"none", "Pending", "Prepared", "Completed"}]
        /\ verdict \in [Approvals -> {"none", "allow", "deny"}]
    BY DEF TypeInv, TypeOK, ApprovalTypeOK, HistoryTypeOK
  <1>1. /\ router.at = "idle" /\ UNCHANGED <<tools, approvals, resolution, runs>>
        /\ router'.at = "approvalRespond" /\ router'.approval = a /\ router'.allow = allow
        /\ router'.taken <=> taken
    BY DEF RecvApprovalRespond, Receive, RouterIdle, turnVars
  <1>2. CASE taken
    <2>1. /\ approvalState' = [approvalState EXCEPT ![a] = "Prepared"]
          /\ verdict' = [verdict EXCEPT ![a] = IF allow THEN "allow" ELSE "deny"]
      BY <1>2 DEF RecvApprovalRespond
    <2>2. resolution[a] = "none" /\ runs[a] = 0 /\ ~(a[2] > tools[a[1]].asks)
      <3>1. runs[a] \in Nat BY DEF TypeInv, TypeOK, HistoryTypeOK
      <3> QED BY <1>2, <3>1 DEF PromptInv, PromptStateInv
    <2>3. PromptStateInv' BY <1>0, <1>1, <1>2, <2>1, <2>2 DEF PromptInv, PromptStateInv
    <2> QED BY <1>1, <2>3, OtherPrompt DEF Others, RouterReceives
  <1>3. CASE ~taken
    <2>1. UNCHANGED <<approvalState, verdict>> BY <1>0, <1>3 DEF RecvApprovalRespond
    <2> QED BY <1>1, <2>1, OtherPrompt DEF Others, RouterReceives
  <1> QED BY <1>2, <1>3

LEMMA SettlePrompt == ASSUME TypeInv, PromptInv, ApprovalResponded PROVE PromptInv'
  <1> DEFINE a == router.approval
             settles == router.taken /\ approvalState[a] = "Prepared"
             answer == IF router.allow /\ Responded THEN "allow" ELSE "deny"
  <1>0. /\ approvalState \in [Approvals -> {"none", "Pending", "Prepared", "Completed"}]
        /\ resolution \in [Approvals -> {"none", "allow", "deny"}]
        /\ runs \in [Approvals -> Nat]
    BY DEF TypeInv, TypeOK, ApprovalTypeOK, HistoryTypeOK
  <1>1. /\ router.at = "approvalRespond" /\ router'.at \in {"idle", "exited"}
        /\ UNCHANGED <<tools, approvals, verdict, runs>>
        /\ approvalState' = [approvalState EXCEPT ![a] = IF settles THEN "Completed" ELSE @]
        /\ resolution' = [resolution EXCEPT ![a] = IF settles THEN answer ELSE @]
    BY DEF ApprovalResponded, RouterIdle, Exited, turnVars, history
  <1>2. \A b \in Approvals : approvalState[b] = "Prepared" => b = a /\ settles
    BY DEF PromptInv, PromptStateInv
  <1>3. CASE ~settles \/ a \notin Approvals
    <2>1. UNCHANGED <<approvalState, resolution>> BY <1>0, <1>1, <1>3
    <2>2. PromptStateInv' BY <1>1, <1>2, <1>3, <2>1 DEF PromptInv, PromptStateInv
    <2> QED BY <1>1, <2>1, <2>2, OtherPrompt DEF Others, RouterContinues
  <1>4. CASE settles /\ a \in Approvals
    <2>1. /\ resolution[a] = "none" /\ runs[a] = 0 /\ ~(a[2] > tools[a[1]].asks)
          /\ router.allow <=> verdict[a] = "allow"
      BY <1>0, <1>4 DEF PromptInv, PromptStateInv
    <2>2. answer = "allow" => verdict[a] = "allow" BY <2>1
    <2>3. /\ approvalState' = [approvalState EXCEPT ![a] = "Completed"]
          /\ resolution' = [resolution EXCEPT ![a] = answer]
      BY <1>1, <1>4
    <2> HIDE DEF a, answer, settles
    <2>4. PromptStateInv'
      BY <1>0, <1>1, <1>2, <1>4, <2>1, <2>2, <2>3 DEF PromptInv, PromptStateInv
    <2>5. \A b \in Approvals : resolution[b] = "allow" => resolution'[b] = "allow"
      BY <1>0, <2>1, <2>3
    <2> QED BY <1>1, <2>4, <2>5, OtherPrompt DEF Others, RouterContinues
  <1> QED BY <1>3, <1>4

LEMMA StopPrompt == ASSUME TypeInv, PromptInv, NEW s \in Stoppers, Stop(s) PROVE PromptInv'
  <1>1. CASE StopTakes(s) \/ StopCancels(s) \/ StopAwaits(s) \/ StopDisposes(s)
    <2>1. UNCHANGED <<router, approvals, approvalState, resolution, verdict, runs>>
      BY <1>1 DEF StopTakes, StopCancels, StopAwaits, StopDisposes, approvalVars, history
    <2> QED BY <1>1, <2>1, OtherPrompt DEF Others
  <1>2. CASE StopDeniesApprovals(s)
    <2>1. /\ approvalState' = [a \in Approvals |->
                               IF a \in approvals THEN "Completed" ELSE approvalState[a]]
          /\ resolution' = [a \in Approvals |->
                            IF a \in approvals /\ approvalState[a] \in {"Pending", "Prepared"}
                            THEN "deny" ELSE resolution[a]]
          /\ approvals' = {} /\ UNCHANGED <<router, tools, verdict, runs>>
      BY <1>2 DEF StopDeniesApprovals, turnVars, history
    <2>2. PromptStateInv' BY <2>1 DEF PromptInv, PromptStateInv
    <2>3. \A a \in Approvals : resolution[a] = "allow" => resolution'[a] = "allow"
      BY <2>1 DEF PromptInv, PromptStateInv
    <2> QED BY <1>2, <2>1, <2>2, <2>3, OtherPrompt DEF Others
  <1> QED BY <1>1, <1>2 DEF Stop

LEMMA PromptStep == TypeInv /\ PromptInv /\ [Next]_vars => PromptInv'
  <1> SUFFICES ASSUME TypeInv, PromptInv, [Next]_vars PROVE PromptInv'
    OBVIOUS
  <1>1. CASE UNCHANGED vars
    <2>1. \A t \in Turns : Prompt(t)' = Prompt(t) BY <1>1 DEF vars, turnVars, Prompt
    <2> QED BY <1>1, <2>1
        DEF vars, turnVars, approvalVars, history, PromptInv, PromptStateInv, PromptUseInv
  <1>2. CASE Native
    <2>1. UNCHANGED <<router, approvals, approvalState, resolution, verdict, runs>>
      BY <1>2 DEF Native, PipeStalls, PipeResumes, PipeBreaks, ParentExits, approvalVars, history
    <2> QED BY <1>2, <2>1, OtherPrompt DEF Others
  <1>3. CASE RouterReceives
    <2>1. CASE \E a \in Approvals, allow \in BOOLEAN : RecvApprovalRespond(a, allow)
      BY <2>1, AnswerPrompt
    <2>2. CASE \/ RecvInitialize \/ RecvReset \/ RecvShutdown
               \/ \E t \in Turns : RecvSendTurn(t) \/ RecvCancelTurn(t)
      <3>1. /\ router.at = "idle"
            /\ UNCHANGED <<approvals, approvalState, resolution, verdict, runs>>
        BY <2>2 DEF RecvInitialize, RecvReset, RecvShutdown, RecvSendTurn, RecvCancelTurn, Receive,
           approvalVars, history
      <3> QED BY <1>3, <3>1, OtherPrompt DEF Others
    <2> QED BY <1>3, <2>1, <2>2 DEF RouterReceives
  <1>4. CASE RouterContinues
    <2>1. CASE ApprovalResponded BY <2>1, SettlePrompt
    <2>2. CASE \/ InitializeSucceeds \/ InitializeFails \/ SendTurnRefused \/ CancelTurnResponded
               \/ ResetDone \/ PlainResponse \/ ShutdownResponded \/ RouterExits
               \/ \E t \in Turns : \/ SendTurnPrepared(t) \/ SendTurnResponded(t)
                                   \/ SendTurnAborted(t) \/ StartTurn(t)
      <3>1. /\ router.at # "approvalRespond"
            /\ UNCHANGED <<approvals, approvalState, resolution, verdict, runs>>
        BY <2>2 DEF InitializeSucceeds, InitializeFails, SendTurnRefused, CancelTurnResponded,
           ResetDone, PlainResponse, ShutdownResponded, RouterExits, SendTurnPrepared,
           SendTurnResponded, SendTurnAborted, StartTurn, approvalVars, history
      <3> QED BY <1>4, <3>1, OtherPrompt DEF Others
    <2> QED BY <1>4, <2>1, <2>2 DEF RouterContinues
  <1> QED BY <1>1, <1>2, <1>3, <1>4, TaskPrompt, StopPrompt DEF Next

LEMMA PromptInvAlways == Spec => []PromptInv
  BY TypeInvAlways, InitPrompt, PromptStep, PTL DEF Spec

\* A mutation is submitted to MCP at most once per prompt, and only when the
\* first answer the router took for that prompt was allowOnce and that answer
\* won against shutdown.
THEOREM MutationAlwaysNeedsApproval == Spec => []MutationNeedsApproval
  <1>1. PromptInv => MutationNeedsApproval BY DEF PromptInv, PromptStateInv, MutationNeedsApproval
  <1> QED BY <1>1, PromptInvAlways, PTL

-----------------------------------------------------------------------------
(* Tool calls, shown text, what a stop leaves, and denials. *)

\* What everybody but the tasks leaves alone; a turn is started from nothing.
LEMMA OthersLeave ==
  ASSUME TypeInv, SlotInv, Others
  PROVE  /\ UNCHANGED <<text, toolOpen, asked, terminals>>
         /\ approvals' \subseteq approvals
         /\ \A t \in Turns :
              /\ tools'[t].call = tools[t].call /\ tools'[t].asks = tools[t].asks
              /\ tools'[t].denied = tools[t].denied
              /\ \/ pc'[t] = pc[t]
                 \/ pc[t] = "off" /\ pc'[t] \in {"history", "cancelTerminal"}
  <1>0. pc \in [Turns -> TurnSteps] /\ tools \in [Turns -> ToolStates]
    BY DEF TypeInv, TypeOK, PcTypeOK, ToolsTypeOK
  <1>1. CASE Native
    BY <1>1 DEF Native, PipeStalls, PipeResumes, PipeBreaks, ParentExits, turnVars, approvalVars,
       history
  <1>2. CASE RouterReceives
    BY <1>2 DEF RouterReceives, RecvInitialize, RecvReset, RecvShutdown, RecvSendTurn, RecvCancelTurn,
       RecvApprovalRespond, turnVars, approvalVars, history
  <1>3. ASSUME NEW s \in Stoppers, Stop(s)
        PROVE  /\ UNCHANGED <<pc, tools, text, toolOpen, asked, terminals>>
               /\ approvals' \subseteq approvals
    BY <1>3 DEF Stop, StopTakes, StopCancels, StopDeniesApprovals, StopAwaits, StopDisposes, turnVars,
       approvalVars, history
  <1>4. ASSUME NEW t \in Turns, SendTurnPrepared(t)
        PROVE  /\ UNCHANGED <<pc, text, approvals, toolOpen, asked, terminals>>
               /\ \A u \in Turns : /\ tools'[u].call = tools[u].call /\ tools'[u].asks = tools[u].asks
                                   /\ tools'[u].denied = tools[u].denied
    BY <1>0, <1>4 DEF SendTurnPrepared, ToolStates, approvalVars, history
  <1>5. ASSUME NEW t \in Turns, StartTurn(t)
        PROVE  /\ UNCHANGED <<tools, text, approvals, toolOpen, asked, terminals>>
               /\ \A u \in Turns : \/ pc'[u] = pc[u]
                                   \/ pc[u] = "off" /\ pc'[u] \in {"history", "cancelTerminal"}
    <2>1. router.at = "sendStart" /\ router.turn = t BY <1>5 DEF StartTurn
    <2>2. pc[t] = "off" BY <2>1 DEF SlotInv, Reserved
    <2> QED BY <1>0, <1>5, <2>2 DEF StartTurn, Goto, approvalVars, history
  <1>6. CASE \/ InitializeSucceeds \/ InitializeFails \/ SendTurnRefused \/ CancelTurnResponded
             \/ ApprovalResponded \/ ResetDone \/ PlainResponse \/ ShutdownResponded \/ RouterExits
             \/ \E t \in Turns : SendTurnResponded(t) \/ SendTurnAborted(t)
    BY <1>6 DEF InitializeSucceeds, InitializeFails, SendTurnRefused, CancelTurnResponded,
       ApprovalResponded, ResetDone, PlainResponse, ShutdownResponded, RouterExits,
       SendTurnResponded, SendTurnAborted, turnVars, approvalVars, history
  <1> QED BY <1>1, <1>2, <1>3, <1>4, <1>5, <1>6 DEF Others, RouterContinues

\* Where a task's open tool call is, and what its report says then.
LEMMA TaskTools ==
  ASSUME TypeInv, ToolInv, NEW t \in Turns, TurnTask(t)
  PROVE  /\ toolOpen' \subseteq toolOpen \cup {t}
         /\ t \in toolOpen' => /\ pc'[t] \in ToolSteps
                               /\ \/ UNCHANGED terminals
                                  \/ \E status \in {"cancelled", "failed"} :
                                       terminals' = [terminals EXCEPT ![t] = Append(@, status)]
         /\ t \in toolOpen' \ toolOpen => pc[t] = "toolStart"
  <1>0. pc \in [Turns -> TurnSteps] /\ pipe \in {"open", "stalled", "broken"}
    BY DEF TypeInv, TypeOK, PcTypeOK, HostTypeOK
  <1>1. t \in toolOpen => pc[t] \in ToolSteps BY DEF ToolInv
  <1>2. CASE AppendUserMessage(t) \/ SendUserAdded(t) \/ GetRuntimeStatus(t) \/ SendChunk(t)
             \/ EmitText(t) \/ ReportUnstarted(t) \/ SendAnswerAdded(t)
    BY <1>0, <1>1, <1>2 DEF AppendUserMessage, SendUserAdded, GetRuntimeStatus, SendChunk, EmitText,
       ReportUnstarted, SendAnswerAdded, SendThen, AwaitThen, At, history, ToolSteps, EndSteps
  <1>3. CASE SendRuntimeState(t) \/ InferTools(t) \/ BatchDone(t) \/ RunReadOnly(t)
             \/ \E m \in Mutations : RunMutation(t, m)
    BY <1>0, <1>1, <1>3 DEF SendRuntimeState, InferTools, BatchDone, RunReadOnly, RunMutation, At,
       history, ToolSteps, EndSteps
  <1>4. CASE InferText(t) \/ InferStreams(t) \/ PersistAnswer(t) \/ InferFails(t) \/ BindingFails(t)
    BY <1>0, <1>1, <1>4 DEF InferText, InferStreams, PersistAnswer, InferFails, BindingFails, At,
       history, ToolSteps, EndSteps
  <1>5. CASE PersistPartial(t) \/ SendHistoryError(t) \/ SendFailure(t) \/ CallReturns(t)
             \/ CallCancelled(t)
    BY <1>0, <1>1, <1>5 DEF PersistPartial, SendHistoryError, SendFailure, CallReturns, CallCancelled,
       Goto, At, history, ToolSteps, EndSteps
  <1>6. CASE SendToolStarted(t) \/ ReportStarted(t) \/ ReportFailed(t)
    BY <1>0, <1>1, <1>6 DEF SendToolStarted, ReportStarted, ReportFailed, SendEnds, Delivered, After,
       Goto, At, ToolSteps, EndSteps
  <1>7. CASE SubmitCall(t) \/ ReportUnknown(t)
    BY <1>0, <1>1, <1>7 DEF SubmitCall, ReportUnknown, Goto, At, ToolSteps, EndSteps
  <1>8. CASE BindApproval(t) \/ SendApprovalRequired(t) \/ ApprovalResolved(t) \/ ApprovalCancelled(t)
    BY <1>0, <1>1, <1>8 DEF BindApproval, SendApprovalRequired, ApprovalResolved, ApprovalCancelled,
       At, history, ToolSteps, EndSteps
  <1>9. CASE SendCompleted(t)
    BY <1>0, <1>1, <1>9 DEF SendCompleted, At, ToolSteps, EndSteps
  <1>10. CASE SendCancelled(t) \/ SendFailed(t)
    BY <1>0, <1>1, <1>10 DEF SendCancelled, SendFailed, SendTerminal, Goto, At, ToolSteps, EndSteps
  <1>11. CASE CompleteTurn(t) BY <1>1, <1>11 DEF CompleteTurn, At, history
  <1> QED BY <1>2, <1>3, <1>4, <1>5, <1>6, <1>7, <1>8, <1>9, <1>10, <1>11 DEF TurnTask

LEMMA ToolStep ==
  TypeInv /\ SlotInv /\ TerminalInv /\ ToolInv /\ [Next]_vars => ToolInv'
  <1> SUFFICES ASSUME TypeInv, SlotInv, TerminalInv, ToolInv, [Next]_vars PROVE ToolInv'
    OBVIOUS
  <1>0. /\ terminals \in [Turns -> Seq({"completed", "cancelled", "failed"})]
        /\ pc \in [Turns -> TurnSteps] /\ toolOpen \subseteq Turns
    BY DEF TypeInv, TypeOK, HistoryTypeOK, PcTypeOK
  <1>1. CASE UNCHANGED vars BY <1>1 DEF vars, turnVars, history, ToolInv
  <1>2. CASE Others
    BY <1>0, <1>2, OthersLeave DEF ToolInv, ToolSteps, EndSteps
  <1>3. ASSUME NEW t \in Turns, TurnTask(t) PROVE ToolInv'
    <2>1. /\ \A u \in Turns \ {t} : pc'[u] = pc[u]
          /\ toolOpen' \subseteq toolOpen \cup {t}
      BY <1>3, TaskSlotStep, TaskTools
    <2>2. \A u \in Turns \ {t} : terminals'[u] = terminals[u]
      BY <1>0, <1>3, TaskReports
    <2>3. ASSUME t \in toolOpen' PROVE pc'[t] \in ToolSteps /\ terminals'[t] # <<"completed">>
      <3>1. pc'[t] \in ToolSteps BY <1>3, <2>3, TaskTools
      <3>2. CASE UNCHANGED terminals
        <4>1. CASE t \in toolOpen BY <3>1, <3>2, <4>1 DEF ToolInv
        <4>2. CASE t \notin toolOpen
          <5>1. pc[t] = "toolStart" BY <1>3, <2>3, <4>2, TaskTools
          <5>2. terminals[t] = <<>> BY <5>1 DEF TerminalInv
          <5> QED BY <3>1, <3>2, <5>2
        <4> QED BY <4>1, <4>2
      <3>3. ASSUME NEW status \in {"cancelled", "failed"},
                   terminals' = [terminals EXCEPT ![t] = Append(@, status)],
                   terminals' # terminals
            PROVE  terminals'[t] # <<"completed">>
        <4>1. pc[t] # "end" BY <1>3, <3>3, TaskReports
        <4>2. terminals[t] = <<>> BY <4>1 DEF TerminalInv
        <4>3. terminals'[t] = <<status>> BY <1>0, <3>3, <4>2
        <4> QED BY <4>3
      <3> QED BY <1>3, <2>3, <3>1, <3>2, <3>3, TaskTools
    <2> QED BY <1>0, <2>1, <2>2, <2>3 DEF ToolInv
  <1> QED BY <1>1, <1>2, <1>3 DEF Next, Others

LEMMA ToolInvAlways == Spec => []ToolInv
  <1>1. Init => ToolInv BY DEF Init, ToolInv
  <1> QED BY <1>1, TypeInvAlways, SlotInvAlways, TerminalInvAlways, ToolStep, PTL DEF Spec

\* A turn that completed has reported the end of each of its tool calls.
THEOREM CompletedAlwaysClosesTools == Spec => []CompletedClosesTools
  <1>1. ToolInv => CompletedClosesTools BY DEF ToolInv, CompletedClosesTools
  <1> QED BY <1>1, ToolInvAlways, PTL

\* The tasks' steps, seen from what was shown of the answer.
LEMMA TaskTexts ==
  ASSUME TypeInv, NEW t \in Turns, TurnTask(t)
  PROVE  /\ UNCHANGED pipe
         /\ \A u \in Turns \ {t} : text'[u] = text[u]
         /\ \/ pc'[t] \notin {"cancelTerminal", "end"} /\ pc[t] # "end"
            \/ /\ pc'[t] = "cancelTerminal" /\ pc[t] # "end"
               /\ text'[t].shown => text'[t].stored \/ text'[t].warned \/ ~Arrives
            \/ /\ pc[t] = "cancelTerminal" /\ UNCHANGED text
               /\ UNCHANGED terminals \/ Arrives
            \/ /\ pc[t] # "end" /\ pc'[t] = "end" /\ UNCHANGED text
               /\ \/ UNCHANGED terminals
                  \/ \E status \in {"completed", "failed"} :
                       terminals' = [terminals EXCEPT ![t] = Append(@, status)]
            \/ UNCHANGED <<pc, text, terminals>>
  <1>0. /\ pc \in [Turns -> TurnSteps] /\ pipe \in {"open", "stalled", "broken"}
        /\ text \in [Turns -> [shown: BOOLEAN, stored: BOOLEAN, warned: BOOLEAN]]
    BY DEF TypeInv, TypeOK, PcTypeOK, HostTypeOK, ToolsTypeOK
  <1>1. CASE AppendUserMessage(t) \/ SendUserAdded(t) \/ GetRuntimeStatus(t) \/ SendChunk(t)
             \/ EmitText(t) \/ ReportUnstarted(t) \/ SendAnswerAdded(t)
    BY <1>0, <1>1 DEF AppendUserMessage, SendUserAdded, GetRuntimeStatus, SendChunk, EmitText,
       ReportUnstarted, SendAnswerAdded, SendThen, AwaitThen, After, Goto, At, TaskOnly, hostVars
  <1>2. CASE SendRuntimeState(t) \/ InferTools(t) \/ BatchDone(t) \/ RunReadOnly(t)
             \/ \E m \in Mutations : RunMutation(t, m)
    BY <1>0, <1>2 DEF SendRuntimeState, InferTools, BatchDone, RunReadOnly, RunMutation, After, Goto,
       At, TaskOnly, hostVars
  <1>3. CASE InferText(t) \/ InferStreams(t) \/ PersistAnswer(t) \/ InferFails(t) \/ BindingFails(t)
    BY <1>0, <1>3 DEF InferText, InferStreams, PersistAnswer, InferFails, BindingFails, Goto, At,
       TaskOnly, hostVars
  <1>4. CASE PersistPartial(t) \/ SendHistoryError(t)
    BY <1>0, <1>4 DEF PersistPartial, SendHistoryError, Goto, At, Arrives, TaskOnly, hostVars
  <1>5. CASE SendFailure(t) \/ CallReturns(t) \/ CallCancelled(t)
    BY <1>0, <1>5 DEF SendFailure, CallReturns, CallCancelled, Goto, At, TaskOnly, hostVars
  <1>6. CASE SendToolStarted(t) \/ ReportStarted(t) \/ ReportFailed(t)
    BY <1>0, <1>6 DEF SendToolStarted, ReportStarted, ReportFailed, After, Goto, At, TaskOnly, hostVars
  <1>7. CASE SubmitCall(t) \/ ReportUnknown(t)
    BY <1>0, <1>7 DEF SubmitCall, ReportUnknown, Goto, At, TaskOnly, hostVars
  <1>8. CASE BindApproval(t) \/ SendApprovalRequired(t) \/ ApprovalResolved(t) \/ ApprovalCancelled(t)
    BY <1>0, <1>8 DEF BindApproval, SendApprovalRequired, ApprovalResolved, ApprovalCancelled, After,
       Goto, At, hostVars
  <1>9. CASE SendCompleted(t) BY <1>0, <1>9 DEF SendCompleted, After, Goto, At, TaskOnly, hostVars
  <1>10. CASE SendCancelled(t)
    BY <1>0, <1>10 DEF SendCancelled, SendTerminal, Goto, At, TaskOnly, hostVars
  <1>11. CASE SendFailed(t)
    BY <1>0, <1>11 DEF SendFailed, SendTerminal, Goto, At, TaskOnly, hostVars
  <1>12. CASE CompleteTurn(t) BY <1>12 DEF CompleteTurn, hostVars, history
  <1> QED BY <1>1, <1>2, <1>3, <1>4, <1>5, <1>6, <1>7, <1>8, <1>9, <1>10, <1>11, <1>12 DEF TurnTask

LEMMA TextStep ==
  TypeInv /\ SlotInv /\ TerminalInv /\ TextInv /\ [Next]_vars => TextInv'
  <1> SUFFICES ASSUME TypeInv, SlotInv, TerminalInv, TextInv, [Next]_vars, ~PipeMayStall
               PROVE  TextInv'
    BY DEF TextInv
  <1>0. /\ terminals \in [Turns -> Seq({"completed", "cancelled", "failed"})]
        /\ pc \in [Turns -> TurnSteps] /\ pipe \in {"open", "broken"}
    BY DEF TypeInv, TypeOK, HistoryTypeOK, PcTypeOK, HostTypeOK, TextInv
  <1>1. CASE UNCHANGED vars BY <1>1 DEF vars, hostVars, turnVars, history, TextInv
  <1>2. CASE Others
    <2>1. pipe' \in {pipe, "broken"}
      <3>1. CASE Native
        BY <1>0, <3>1 DEF Native, PipeStalls, PipeResumes, PipeBreaks, ParentExits
      <3>2. CASE RouterReceives
        BY <3>2 DEF RouterReceives, RecvInitialize, RecvReset, RecvShutdown, RecvSendTurn,
           RecvCancelTurn, RecvApprovalRespond, hostVars
      <3>3. CASE RouterContinues
        BY <3>3 DEF RouterContinues, InitializeSucceeds, InitializeFails, SendTurnRefused,
           SendTurnPrepared, SendTurnResponded, SendTurnAborted, StartTurn, CancelTurnResponded,
           ApprovalResponded, ResetDone, PlainResponse, ShutdownResponded, RouterExits, hostVars
      <3>4. ASSUME NEW s \in Stoppers, Stop(s) PROVE UNCHANGED pipe
        BY <3>4 DEF Stop, StopTakes, StopCancels, StopDeniesApprovals, StopAwaits, StopDisposes,
           hostVars
      <3> QED BY <1>2, <3>1, <3>2, <3>3, <3>4 DEF Others
    <2>2. UNCHANGED <<text, terminals>> BY <1>2, OthersLeave
    <2>3. \A t \in Turns : pc'[t] = pc[t] \/ pc[t] = "off" BY <1>2, OthersLeave
    <2>4. \A t \in Turns : pc'[t] = "off" => pc[t] = "off" BY <1>2, OthersLeave
    <2> QED BY <1>0, <2>1, <2>2, <2>3, <2>4 DEF TextInv
  <1>3. ASSUME NEW t \in Turns, TurnTask(t) PROVE TextInv'
    <2>1. /\ \A u \in Turns \ {t} : pc'[u] = pc[u] /\ text'[u] = text[u]
          /\ pc'[t] # "off" /\ UNCHANGED pipe
      BY <1>3, TaskSlotStep, TaskTexts
    <2>2. \A u \in Turns \ {t} : terminals'[u] = terminals[u] BY <1>0, <1>3, TaskReports
    <2>3. pc[t] # "end" => terminals[t] = <<>> BY DEF TerminalInv
    <2> DEFINE Kept == text'[t].stored \/ text'[t].warned
               Good == /\ pc'[t] = "cancelTerminal" /\ text'[t].shown => Kept \/ pipe = "broken"
                       /\ terminals'[t] = <<"cancelled">> /\ text'[t].shown => Kept
    <2>4. Good
      <3>1. CASE pc'[t] \notin {"cancelTerminal", "end"} /\ pc[t] # "end"
        <4>1. UNCHANGED terminals BY <1>3, <3>1, TaskReports
        <4> QED BY <2>3, <3>1, <4>1
      <3>2. CASE /\ pc'[t] = "cancelTerminal" /\ pc[t] # "end"
                 /\ text'[t].shown => Kept \/ ~Arrives
        <4>1. UNCHANGED terminals BY <1>3, <3>2, TaskReports
        <4> QED BY <1>0, <2>3, <3>2, <4>1 DEF Arrives
      <3>3. CASE pc[t] = "cancelTerminal" /\ UNCHANGED text /\ (UNCHANGED terminals \/ Arrives)
        <4>1. text[t].shown => text[t].stored \/ text[t].warned \/ pipe = "broken"
          BY <3>3 DEF TextInv
        <4> QED BY <2>3, <3>3, <4>1 DEF Arrives
      <3>4. CASE /\ pc[t] # "end" /\ pc'[t] = "end" /\ UNCHANGED text
                 /\ \/ UNCHANGED terminals
                    \/ \E status \in {"completed", "failed"} :
                         terminals' = [terminals EXCEPT ![t] = Append(@, status)]
        <4>1. CASE UNCHANGED terminals BY <2>3, <3>4, <4>1
        <4>2. ASSUME NEW status \in {"completed", "failed"},
                     terminals' = [terminals EXCEPT ![t] = Append(@, status)]
              PROVE  Good
          <5>1. terminals'[t] = <<status>> BY <1>0, <2>3, <3>4, <4>2
          <5> QED BY <3>4, <5>1
        <4> QED BY <3>4, <4>1, <4>2
      <3>5. CASE UNCHANGED <<pc, text, terminals>> BY <3>5 DEF TextInv
      <3> HIDE DEF Good
      <3> QED
        <4>1. \/ pc'[t] \notin {"cancelTerminal", "end"} /\ pc[t] # "end"
              \/ /\ pc'[t] = "cancelTerminal" /\ pc[t] # "end"
                 /\ text'[t].shown => Kept \/ ~Arrives
              \/ pc[t] = "cancelTerminal" /\ UNCHANGED text /\ (UNCHANGED terminals \/ Arrives)
              \/ /\ pc[t] # "end" /\ pc'[t] = "end" /\ UNCHANGED text
                 /\ \/ UNCHANGED terminals
                    \/ \E status \in {"completed", "failed"} :
                         terminals' = [terminals EXCEPT ![t] = Append(@, status)]
              \/ UNCHANGED <<pc, text, terminals>>
          BY <1>3, TaskTexts
        <4> QED BY <3>1, <3>2, <3>3, <3>4, <3>5, <4>1
    <2> QED BY <1>0, <2>1, <2>2, <2>4 DEF TextInv
  <1> QED BY <1>1, <1>2, <1>3 DEF Next, Others

LEMMA TextInvAlways == Spec => []TextInv
  <1>1. Init => TextInv BY DEF Init, TextInv, NoText
  <1> QED BY <1>1, TypeInvAlways, SlotInvAlways, TerminalInvAlways, TextStep, PTL DEF Spec

\* A cancelled turn has stored the text it has shown, or has said that it could
\* not, if the pipe is not left unread.
THEOREM VisibleTextAlwaysKept == Spec => []VisibleTextIsKept
  <1>1. TextInv => VisibleTextIsKept BY DEF TextInv, VisibleTextIsKept
  <1> QED BY <1>1, TextInvAlways, PTL

\* A task's registered prompt is the one it asks about.
LEMMA TaskRegisters ==
  ASSUME TypeInv, RegisteredInv, NEW t \in Turns, TurnTask(t)
  PROVE  \A a \in approvals' :
           \/ a \in approvals /\ a[1] # t
           \/ a = Prompt(t)' /\ pc'[t] \in {"ask", "await"}
  <1>0. /\ pc \in [Turns -> TurnSteps] /\ pipe \in {"open", "stalled", "broken"}
        /\ tools \in [Turns -> ToolStates]
    BY DEF TypeInv, TypeOK, PcTypeOK, HostTypeOK, ToolsTypeOK
  <1>1. \A a \in approvals : a[1] # t \/ (a = Prompt(t) /\ pc[t] \in {"ask", "await"})
    BY DEF RegisteredInv
  <1>2. CASE pc[t] \notin {"ask", "await"} /\ ~BindApproval(t)
    <2>1. approvals' \subseteq approvals
      <3>1. CASE SubmitCall(t) BY <3>1 DEF SubmitCall, TaskOnly, approvalVars
      <3> QED BY <1>2, <3>1, TaskPromptStep
    <2> QED BY <1>1, <1>2, <2>1
  <1>3. CASE BindApproval(t)
    <2>1. approvals' = approvals \cup {Prompt(t)'} /\ pc[t] = "bind" /\ pc'[t] = "ask"
      BY <1>0, <1>3 DEF BindApproval, At, Goto, Prompt, ToolStates
    <2> QED BY <1>1, <2>1
  <1>4. CASE pc[t] \in {"ask", "await"}
    <2>1. SendApprovalRequired(t) \/ ApprovalResolved(t) \/ ApprovalCancelled(t)
      <3>1. ~(AppendUserMessage(t) \/ SendUserAdded(t) \/ GetRuntimeStatus(t) \/ SendRuntimeState(t))
        BY <1>4 DEF AppendUserMessage, SendUserAdded, GetRuntimeStatus, SendRuntimeState, SendThen,
           AwaitThen, At
      <3>2. ~(InferText(t) \/ InferStreams(t) \/ InferTools(t) \/ InferFails(t) \/ SendChunk(t)
              \/ EmitText(t) \/ BatchDone(t) \/ RunReadOnly(t)
              \/ \E m \in Mutations : RunMutation(t, m))
        BY <1>4 DEF InferText, InferStreams, InferTools, InferFails, SendChunk, EmitText, BatchDone,
           RunReadOnly, RunMutation, SendThen, At
      <3>3. ~(ReportUnstarted(t) \/ BindApproval(t) \/ BindingFails(t) \/ SendToolStarted(t)
              \/ SubmitCall(t) \/ CallReturns(t) \/ CallCancelled(t) \/ ReportStarted(t)
              \/ ReportFailed(t) \/ ReportUnknown(t))
        BY <1>4 DEF ReportUnstarted, BindApproval, BindingFails, SendToolStarted, SubmitCall,
           CallReturns, CallCancelled, ReportStarted, ReportFailed, ReportUnknown, SendThen, At
      <3>4. ~(PersistAnswer(t) \/ SendAnswerAdded(t) \/ SendCompleted(t) \/ PersistPartial(t)
              \/ SendHistoryError(t) \/ SendFailure(t) \/ SendCancelled(t) \/ SendFailed(t)
              \/ CompleteTurn(t))
        BY <1>4 DEF PersistAnswer, SendAnswerAdded, SendCompleted, PersistPartial, SendHistoryError,
           SendFailure, SendCancelled, SendFailed, SendTerminal, CompleteTurn, SendThen, At
      <3> QED BY <3>1, <3>2, <3>3, <3>4 DEF TurnTask
    <2>2. CASE SendApprovalRequired(t) /\ Delivered(t)
      <3>1. approvals' = approvals /\ UNCHANGED tools /\ pc'[t] = "await"
        BY <1>0, <2>2 DEF SendApprovalRequired, Delivered, After, Goto
      <3> QED BY <1>1, <3>1 DEF Prompt
    <2>3. CASE \/ SendApprovalRequired(t) /\ ~Delivered(t)
               \/ ApprovalResolved(t) \/ ApprovalCancelled(t)
      <3>1. approvals' = approvals \ {Prompt(t)}
        BY <2>3 DEF SendApprovalRequired, ApprovalResolved, ApprovalCancelled
      <3> QED BY <1>1, <3>1
    <2> QED BY <2>1, <2>2, <2>3
  <1> QED BY <1>2, <1>3, <1>4

LEMMA RegisteredStep == TypeInv /\ SlotInv /\ RegisteredInv /\ [Next]_vars => RegisteredInv'
  <1> SUFFICES ASSUME TypeInv, SlotInv, RegisteredInv, [Next]_vars PROVE RegisteredInv'
    OBVIOUS
  <1>0. \A a \in approvals : a[1] \in Turns BY DEF TypeInv, TypeOK, ApprovalTypeOK, Approvals
  <1>1. CASE UNCHANGED vars
    BY <1>1 DEF vars, turnVars, approvalVars, RegisteredInv, Prompt
  <1>2. CASE Others
    <2>1. ASSUME NEW a \in approvals' PROVE pc'[a[1]] \in {"ask", "await"} /\ a = Prompt(a[1])'
      <3>1. a \in approvals /\ a[1] \in Turns BY <1>0, <1>2, OthersLeave
      <3>2. pc[a[1]] \in {"ask", "await"} /\ a = Prompt(a[1]) BY <3>1 DEF RegisteredInv
      <3>3. pc'[a[1]] = pc[a[1]] /\ tools'[a[1]].asks = tools[a[1]].asks
        BY <1>2, <3>1, <3>2, OthersLeave
      <3> QED BY <3>2, <3>3 DEF Prompt
    <2> QED BY <2>1 DEF RegisteredInv
  <1>3. ASSUME NEW t \in Turns, TurnTask(t) PROVE RegisteredInv'
    <2>1. ASSUME NEW a \in approvals' PROVE pc'[a[1]] \in {"ask", "await"} /\ a = Prompt(a[1])'
      <3>1. CASE a \in approvals /\ a[1] # t
        <4>1. pc'[a[1]] = pc[a[1]] /\ tools'[a[1]] = tools[a[1]] BY <1>0, <1>3, <3>1, CallStep
        <4> QED BY <3>1, <4>1 DEF RegisteredInv, Prompt
      <3>2. CASE a = Prompt(t)' /\ pc'[t] \in {"ask", "await"}
        <4>1. a[1] = t BY <3>2 DEF Prompt
        <4> QED BY <3>2, <4>1
      <3> QED BY <1>3, <3>1, <3>2, TaskRegisters
    <2> QED BY <2>1 DEF RegisteredInv
  <1> QED BY <1>1, <1>2, <1>3 DEF Next, Others

LEMMA RegisteredInvAlways == Spec => []RegisteredInv
  <1>1. Init => RegisteredInv BY DEF Init, RegisteredInv
  <1> QED BY <1>1, TypeInvAlways, SlotInvAlways, RegisteredStep, PTL DEF Spec

LEMMA TaskLeavesHost ==
  ASSUME NEW t \in Turns, TurnTask(t)
  PROVE  UNCHANGED <<mcpClient, clientState, stopper, router>>
  <1>1. CASE AppendUserMessage(t) \/ SendUserAdded(t) \/ GetRuntimeStatus(t) \/ SendRuntimeState(t)
             \/ InferText(t) \/ InferStreams(t) \/ InferTools(t) \/ InferFails(t) \/ SendChunk(t)
             \/ EmitText(t) \/ BatchDone(t) \/ RunReadOnly(t)
             \/ \E m \in Mutations : RunMutation(t, m)
    BY <1>1 DEF AppendUserMessage, SendUserAdded, GetRuntimeStatus, SendRuntimeState, InferText,
       InferStreams, InferTools, InferFails, SendChunk, EmitText, BatchDone, RunReadOnly, RunMutation,
       SendThen, AwaitThen, TaskOnly, hostVars
  <1>2. CASE ReportUnstarted(t) \/ BindApproval(t) \/ BindingFails(t) \/ SendApprovalRequired(t)
             \/ ApprovalResolved(t) \/ ApprovalCancelled(t) \/ SendToolStarted(t) \/ SubmitCall(t)
             \/ CallReturns(t) \/ CallCancelled(t) \/ ReportStarted(t) \/ ReportFailed(t)
             \/ ReportUnknown(t)
    BY <1>2 DEF ReportUnstarted, BindApproval, BindingFails, SendApprovalRequired, ApprovalResolved,
       ApprovalCancelled, SendToolStarted, SubmitCall, CallReturns, CallCancelled, ReportStarted,
       ReportFailed, ReportUnknown, SendThen, TaskOnly, hostVars
  <1>3. CASE PersistAnswer(t) \/ SendAnswerAdded(t) \/ SendCompleted(t) \/ PersistPartial(t)
             \/ SendHistoryError(t) \/ SendFailure(t) \/ SendCancelled(t) \/ SendFailed(t)
             \/ CompleteTurn(t)
    BY <1>3 DEF PersistAnswer, SendAnswerAdded, SendCompleted, PersistPartial, SendHistoryError,
       SendFailure, SendCancelled, SendFailed, SendTerminal, CompleteTurn, SendThen, TaskOnly, hostVars
  <1> QED BY <1>1, <1>2, <1>3 DEF TurnTask

LEMMA StopStep == TypeInv /\ SlotInv /\ StopInv /\ [Next]_vars => StopInv'
  <1> SUFFICES ASSUME TypeInv, SlotInv, StopInv, [Next]_vars PROVE StopInv'
    OBVIOUS
  <1>0. /\ stopper \in [Stoppers -> [at: StopSteps, turn: Turns \cup {NoTurn},
                                     client: BOOLEAN, expired: BOOLEAN]]
        /\ activeTurn \in Turns \cup {NoTurn}
    BY DEF TypeInv, TypeOK, StopperTypeOK, HostTypeOK
  <1>1. CASE UNCHANGED vars \/ Native
    BY <1>1 DEF vars, hostVars, Native, PipeStalls, PipeResumes, PipeBreaks, ParentExits, StopInv
  <1>2. CASE RouterReceives
    <2>1. router.at = "idle" /\ UNCHANGED <<hostVars, stopper>>
      BY <1>2 DEF RouterReceives, RecvInitialize, RecvReset, RecvShutdown, RecvSendTurn,
         RecvCancelTurn, RecvApprovalRespond, Receive
    <2> QED BY <2>1 DEF StopInv, hostVars
  <1>3. CASE RouterContinues
    <2>1. /\ router.at # "exited" /\ UNCHANGED stopper
          /\ UNCHANGED <<clientState, mcpClient>> \/ mcpClient'
      BY <1>3 DEF RouterContinues, InitializeSucceeds, InitializeFails, SendTurnRefused,
         SendTurnPrepared, SendTurnResponded, SendTurnAborted, StartTurn, CancelTurnResponded,
         ApprovalResponded, ResetDone, PlainResponse, ShutdownResponded, RouterExits, hostVars
    <2>2. stopper["worker"].at = "idle" BY <2>1 DEF StopInv
    <2> QED BY <2>1, <2>2 DEF StopInv
  <1>4. ASSUME NEW t \in Turns, TurnTask(t) PROVE StopInv'
    <2>1. UNCHANGED <<mcpClient, clientState, stopper, router>> BY <1>4, TaskLeavesHost
    <2>2. activeTurn' \in {activeTurn, NoTurn}
      BY <1>4, TaskSlotStep DEF CompleteTurn
    <2> QED BY <2>1, <2>2 DEF StopInv
  <1>5. ASSUME NEW s \in Stoppers, Stop(s) PROVE StopInv'
    <2>1. CASE StopTakes(s)
      <3>1. /\ stopper[s].at = "idle"
            /\ s = "worker" => router.at = "exited"
            /\ stopper'[s] = [at |-> "cancel", turn |-> activeTurn, client |-> mcpClient,
                              expired |-> FALSE]
            /\ \A r \in Stoppers \ {s} : stopper'[r] = stopper[r]
            /\ mcpClient' = FALSE /\ UNCHANGED <<clientState, router, activeTurn>>
        BY <1>0, <2>1 DEF StopTakes, Stoppers
      <3>2. ~stopper[s].client BY <1>0, <3>1 DEF StopInv
      <3>3. clientState' = "live" => mcpClient' \/ \E r \in Stoppers : stopper'[r].client
        BY <3>1, <3>2 DEF StopInv
      <3> QED BY <3>1, <3>3 DEF StopInv, Stoppers
    <2>2. CASE StopCancels(s) \/ StopDeniesApprovals(s)
      <3>1. /\ stopper[s].at \in {"cancel", "approvals"} /\ stopper'[s].at \in {"approvals", "await"}
            /\ stopper'[s].turn = stopper[s].turn /\ stopper'[s].client = stopper[s].client
            /\ \A r \in Stoppers \ {s} : stopper'[r] = stopper[r]
            /\ UNCHANGED <<clientState, mcpClient, router, activeTurn>>
        BY <1>0, <2>2 DEF StopCancels, StopDeniesApprovals, hostVars
      <3> QED BY <3>1 DEF StopInv, Stoppers
    <2>3. CASE StopAwaits(s)
      <3>1. /\ stopper[s].at = "await" /\ stopper'[s].at = "dispose"
            /\ stopper'[s].turn = stopper[s].turn /\ stopper'[s].client = stopper[s].client
            /\ stopper'[s].expired <=> stopper[s].turn # NoTurn /\ ~completed[stopper[s].turn]
            /\ \A r \in Stoppers \ {s} : stopper'[r] = stopper[r]
            /\ UNCHANGED <<clientState, mcpClient, router, activeTurn>>
        BY <1>0, <2>3 DEF StopAwaits, hostVars
      <3>2. activeTurn # NoTurn => ~completed[activeTurn]
        BY <1>0 DEF SlotInv, OneTurnAtATime, Running
      <3>3. s = "worker" /\ ~stopper'[s].expired => activeTurn = NoTurn
        BY <3>1, <3>2 DEF StopInv
      <3> QED BY <3>1, <3>3 DEF StopInv, Stoppers
    <2>4. CASE StopDisposes(s)
      <3>1. /\ stopper[s].at = "dispose" /\ stopper'[s].at = "done"
            /\ stopper'[s].turn = stopper[s].turn /\ ~stopper'[s].client
            /\ stopper'[s].expired = stopper[s].expired
            /\ clientState' = IF stopper[s].client THEN "disposed" ELSE clientState
            /\ \A r \in Stoppers \ {s} : stopper'[r] = stopper[r]
            /\ UNCHANGED <<mcpClient, router, activeTurn>>
        BY <1>0, <2>4 DEF StopDisposes
      <3> QED BY <3>1 DEF StopInv, Stoppers
    <2> QED BY <1>5, <2>1, <2>2, <2>3, <2>4 DEF Stop
  <1> QED BY <1>1, <1>2, <1>3, <1>4, <1>5 DEF Next

LEMMA StopInvAlways == Spec => []StopInv
  <1>1. Init => StopInv BY DEF Init, StopInv, StopperIdle, Stoppers
  <1> QED BY <1>1, TypeInvAlways, SlotInvAlways, StopStep, PTL DEF Spec

\* When the worker's StopAsync has returned within its budget nothing runs, no
\* prompt waits, and only the host's own StopAsync may still hold the client.
THEOREM StopAlwaysLeavesNothing == Spec => []StopLeavesNothing
  <1>1. TypeInv /\ SlotInv /\ TerminalInv /\ RegisteredInv /\ StopInv => StopLeavesNothing
    <2> SUFFICES ASSUME TypeInv, SlotInv, TerminalInv, RegisteredInv, StopInv,
                        stopper["worker"].at = "done"
                 PROVE  /\ ~mcpClient
                        /\ clientState = "live" => stopper["host"].client
                        /\ ~stopper["worker"].expired =>
                             approvals = {} /\ \A t \in Turns : ~Running(t) /\ ~Reserved(t)
      BY DEF StopLeavesNothing
    <2>1. ~mcpClient /\ (clientState = "live" => stopper["host"].client)
      BY DEF StopInv, Stoppers
    <2>2. ASSUME ~stopper["worker"].expired PROVE \A t \in Turns : ~Running(t) /\ ~Reserved(t)
      BY <2>2, NamesAssumption DEF StopInv, SlotInv, OneTurnAtATime
    <2>3. ASSUME ~stopper["worker"].expired, NEW a \in approvals PROVE FALSE
      <3>1. a[1] \in Turns /\ pc[a[1]] \in {"ask", "await"}
        BY DEF TypeInv, TypeOK, ApprovalTypeOK, Approvals, RegisteredInv
      <3>2. Running(a[1]) BY <3>1 DEF SlotInv, TerminalInv, Running
      <3> QED BY <2>2, <2>3, <3>1, <3>2
    <2> QED BY <2>1, <2>2, <2>3
  <1> QED BY <1>1, TypeInvAlways, SlotInvAlways, TerminalInvAlways, RegisteredInvAlways,
          StopInvAlways, PTL

\* Everybody but the tasks leaves an allowed prompt allowed.
LEMMA AllowedStays ==
  ASSUME TypeInv, PromptInv, Others
  PROVE  \A a \in Approvals : resolution[a] = "allow" => resolution'[a] = "allow"
  <1>0. /\ resolution \in [Approvals -> {"none", "allow", "deny"}]
        /\ \A a \in Approvals : resolution[a] = "allow" =>
             approvalState[a] \notin {"Pending", "Prepared"}
    BY DEF TypeInv, TypeOK, ApprovalTypeOK, PromptInv, PromptStateInv
  <1>1. CASE Native
    BY <1>1 DEF Native, PipeStalls, PipeResumes, PipeBreaks, ParentExits, approvalVars
  <1>2. CASE RouterReceives
    BY <1>2 DEF RouterReceives, RecvInitialize, RecvReset, RecvShutdown, RecvSendTurn, RecvCancelTurn,
       RecvApprovalRespond, approvalVars
  <1>3. CASE ApprovalResponded
    <2>1. resolution' = [resolution EXCEPT ![router.approval] =
             IF router.taken /\ approvalState[router.approval] = "Prepared"
             THEN (IF router.allow /\ Responded THEN "allow" ELSE "deny") ELSE @]
      BY <1>3 DEF ApprovalResponded
    <2> QED BY <1>0, <2>1
  <1>4. CASE \/ InitializeSucceeds \/ InitializeFails \/ SendTurnRefused \/ CancelTurnResponded
             \/ ResetDone \/ PlainResponse \/ ShutdownResponded \/ RouterExits
             \/ \E t \in Turns : \/ SendTurnPrepared(t) \/ SendTurnResponded(t)
                                 \/ SendTurnAborted(t) \/ StartTurn(t)
    BY <1>4 DEF InitializeSucceeds, InitializeFails, SendTurnRefused, CancelTurnResponded,
       ResetDone, PlainResponse, ShutdownResponded, RouterExits, SendTurnPrepared,
       SendTurnResponded, SendTurnAborted, StartTurn, approvalVars
  <1>5. ASSUME NEW s \in Stoppers, StopDeniesApprovals(s)
        PROVE  \A a \in Approvals : resolution[a] = "allow" => resolution'[a] = "allow"
    BY <1>0, <1>5 DEF StopDeniesApprovals
  <1>6. ASSUME NEW s \in Stoppers, StopTakes(s) \/ StopCancels(s) \/ StopAwaits(s) \/ StopDisposes(s)
        PROVE  UNCHANGED resolution
    BY <1>6 DEF StopTakes, StopCancels, StopAwaits, StopDisposes, approvalVars
  <1> QED BY <1>1, <1>2, <1>3, <1>4, <1>5, <1>6 DEF Others, RouterContinues, Stop

\* A denial is remembered, and a prompt is only left with its answer.
KeepsDenials(t) ==
  /\ tools'[t].asks = tools[t].asks /\ tools[t].denied \subseteq tools'[t].denied
  /\ pc[t] \in EndSteps => pc'[t] \in EndSteps
  /\ pc[t] \in {"ask", "await"} =>
       \/ pc'[t] \in {"ask", "await"} \cup EndSteps
       \/ tools[t].call \in tools'[t].denied
       \/ resolution[Prompt(t)] = "allow"
  /\ pc'[t] \in {"ask", "await"} =>
       pc[t] \in {"ask", "await"} /\ tools'[t].call = tools[t].call
  /\ pc'[t] = "bind" => tools'[t].call \notin tools'[t].denied

LEMMA TaskDenials ==
  ASSUME TypeInv, NEW t \in Turns, TurnTask(t), ~BindApproval(t)
  PROVE  UNCHANGED <<asked, resolution>> /\ KeepsDenials(t)
  <1>0. /\ pc \in [Turns -> TurnSteps] /\ tools \in [Turns -> ToolStates]
        /\ resolution \in [Approvals -> {"none", "allow", "deny"}]
    BY DEF TypeInv, TypeOK, PcTypeOK, ToolsTypeOK, ApprovalTypeOK
  <1>1. UNCHANGED resolution /\ tools'[t].asks = tools[t].asks
    <2>1. CASE SubmitCall(t) BY <2>1 DEF SubmitCall, TaskOnly, approvalVars
    <2> QED BY <2>1, TaskPromptStep
  <1>2. CASE AppendUserMessage(t) \/ SendUserAdded(t) \/ GetRuntimeStatus(t) \/ SendChunk(t)
             \/ EmitText(t) \/ ReportUnstarted(t) \/ SendAnswerAdded(t)
    BY <1>0, <1>1, <1>2 DEF AppendUserMessage, SendUserAdded, GetRuntimeStatus, SendChunk, EmitText,
       ReportUnstarted, SendAnswerAdded, SendThen, AwaitThen, After, Goto, At, history, KeepsDenials,
       EndSteps
  <1>3. CASE SendRuntimeState(t) \/ InferTools(t)
    <2>1. tools'[t].denied = tools[t].denied
      <3>1. CASE SendRuntimeState(t) BY <1>0, <3>1 DEF SendRuntimeState, ToolStates
      <3>2. CASE InferTools(t) BY <1>0, <3>2 DEF InferTools, ToolStates
      <3> QED BY <1>3, <3>1, <3>2
    <2>2. /\ pc[t] \in {"runtimeState", "infer"}
          /\ pc'[t] \in {"exec", "infer", "cancelled", "failed"} /\ UNCHANGED asked
      BY <1>0, <1>3 DEF SendRuntimeState, InferTools, After, Goto, At, history
    <2> QED BY <1>1, <2>1, <2>2 DEF KeepsDenials, EndSteps
  <1>4. CASE BatchDone(t) \/ RunReadOnly(t)
    <2>1. tools'[t].denied = tools[t].denied
      <3>1. CASE BatchDone(t) BY <1>0, <3>1 DEF BatchDone, ToolStates
      <3>2. CASE RunReadOnly(t) BY <1>0, <3>2 DEF RunReadOnly, ToolStates
      <3> QED BY <1>4, <3>1, <3>2
    <2>2. pc[t] = "exec" /\ pc'[t] \in {"infer", "toolStart"} /\ UNCHANGED asked
      BY <1>0, <1>4 DEF BatchDone, RunReadOnly, Goto, At, history
    <2> QED BY <1>1, <2>1, <2>2 DEF KeepsDenials, EndSteps
  <1>5. ASSUME NEW m \in Mutations, RunMutation(t, m)
        PROVE  /\ pc[t] = "exec" /\ pc'[t] \in {"report", "bind"} /\ UNCHANGED asked
               /\ tools'[t].denied = tools[t].denied
               /\ pc'[t] = "bind" => tools'[t].call \notin tools'[t].denied
    BY <1>0, <1>5 DEF RunMutation, Goto, At, history, ToolStates
  <1>6. CASE InferText(t) \/ InferStreams(t) \/ PersistAnswer(t) \/ PersistPartial(t)
             \/ SendHistoryError(t)
    BY <1>0, <1>1, <1>6 DEF InferText, InferStreams, PersistAnswer, PersistPartial, SendHistoryError,
       Goto, At, history, KeepsDenials, EndSteps
  <1>7. CASE InferFails(t) \/ BindingFails(t) \/ CallReturns(t) \/ CallCancelled(t) \/ SendFailure(t)
    BY <1>0, <1>1, <1>7 DEF InferFails, BindingFails, CallReturns, CallCancelled, SendFailure, Goto,
       At, history, KeepsDenials, EndSteps
  <1>8. CASE SendToolStarted(t) \/ ReportStarted(t) \/ ReportFailed(t) \/ SendCompleted(t)
    BY <1>0, <1>1, <1>8 DEF SendToolStarted, ReportStarted, ReportFailed, SendCompleted, After, Goto,
       At, KeepsDenials, EndSteps
  <1>9. CASE SubmitCall(t) \/ ReportUnknown(t) \/ SendCancelled(t) \/ SendFailed(t)
    BY <1>0, <1>1, <1>9 DEF SubmitCall, ReportUnknown, SendCancelled, SendFailed, SendTerminal, Goto,
       At, KeepsDenials, EndSteps
  <1>10. CASE SendApprovalRequired(t) \/ ApprovalCancelled(t)
    BY <1>0, <1>1, <1>10 DEF SendApprovalRequired, ApprovalCancelled, After, Goto, At, history,
       KeepsDenials, EndSteps
  <1>11. CASE ApprovalResolved(t)
    <2>1. CASE resolution[Prompt(t)] = "allow"
      BY <1>0, <1>1, <1>11, <2>1 DEF ApprovalResolved, Goto, At, history, KeepsDenials, EndSteps
    <2>2. CASE resolution[Prompt(t)] # "allow"
      <3>1. /\ pc[t] = "await" /\ pc'[t] = "report" /\ UNCHANGED asked
            /\ tools' = [tools EXCEPT ![t].denied = @ \cup {tools[t].call}]
        BY <1>0, <1>11, <2>2 DEF ApprovalResolved, Goto, At, history
      <3>2. tools'[t].denied = tools[t].denied \cup {tools[t].call} BY <1>0, <3>1 DEF ToolStates
      <3> QED BY <1>1, <3>1, <3>2 DEF KeepsDenials, EndSteps
    <2> QED BY <2>1, <2>2
  <1>12. CASE CompleteTurn(t) BY <1>12 DEF CompleteTurn, At, history, KeepsDenials, EndSteps, approvalVars
  <1> QED
    <2>1. CASE \E m \in Mutations : RunMutation(t, m) BY <1>1, <1>5, <2>1 DEF KeepsDenials, EndSteps
    <2> QED BY <1>2, <1>3, <1>4, <1>6, <1>7, <1>8, <1>9, <1>10, <1>11, <1>12, <2>1 DEF TurnTask

LEMMA BindDenied ==
  ASSUME TypeInv, DeniedInv, NEW t \in Turns, BindApproval(t)
  PROVE  DeniedInv'
  <1> DEFINE new == <<t, tools[t].asks + 1>>
  <1>0. /\ pc \in [Turns -> TurnSteps] /\ tools \in [Turns -> ToolStates]
        /\ asked \in [Approvals -> Mutations \cup {NoCall}]
    BY DEF TypeInv, TypeOK, PcTypeOK, ToolsTypeOK, HistoryTypeOK
  <1>1. tools[t].asks \in Nat /\ tools[t].asks < MaxMutationApprovals
    BY <1>0, LimitsAssumption DEF BindApproval, At, TypeInv, CallInv, ToolStates
  <1>2. new \in Approvals BY <1>1, LimitsAssumption DEF Approvals
  <1>3. /\ pc[t] = "bind" /\ pc'[t] = "ask" /\ UNCHANGED resolution
        /\ asked' = [asked EXCEPT ![new] = tools[t].call]
        /\ tools'[t].asks = tools[t].asks + 1
        /\ tools'[t].call = tools[t].call /\ tools'[t].denied = tools[t].denied
        /\ \A u \in Turns \ {t} : pc'[u] = pc[u] /\ tools'[u] = tools[u]
    BY <1>0 DEF BindApproval, At, Goto, ToolStates
  <1>4. new[1] = t /\ new[2] = tools[t].asks + 1 /\ new = Prompt(t)' BY <1>3 DEF Prompt
  <1>5. \A a \in Approvals : a[1] \in Turns /\ a[2] \in Nat BY LimitsAssumption DEF Approvals
  <1>6. \A u \in Turns \ {t} : Prompt(u)' = Prompt(u) /\ Prompt(u) # new
    BY <1>3 DEF Prompt
  <1> HIDE DEF new
  <1>7. asked'[new] = tools[t].call /\ \A a \in Approvals \ {new} : asked'[a] = asked[a]
    BY <1>0, <1>2, <1>3
  <1>8. \A a \in Approvals \ {new} : asked[a] # NoCall =>
          /\ a[2] <= tools[a[1]].asks
          /\ a[1] = t => resolution[a] = "allow" \/ asked[a] \in tools[t].denied
    <2> SUFFICES ASSUME NEW a \in Approvals \ {new}, asked[a] # NoCall
                 PROVE  /\ a[2] <= tools[a[1]].asks
                        /\ a[1] = t => resolution[a] = "allow" \/ asked[a] \in tools[t].denied
      OBVIOUS
    <2> QED BY <1>3 DEF DeniedInv, EndSteps
  <1>9. DeniedStaysDenied'
    <2> SUFFICES ASSUME NEW a \in Approvals, NEW b \in Approvals, a[1] = b[1], a[2] < b[2],
                        asked'[a] # NoCall, asked'[a] = asked'[b]
                 PROVE  resolution[a] = "allow"
      BY <1>3 DEF DeniedStaysDenied
    <2>1. CASE b = new
      <3>1. a # new /\ a[1] = t BY <1>4, <1>5, <2>1
      <3>2. asked[a] = tools[t].call BY <1>7, <2>1, <3>1
      <3>3. tools[t].call \notin tools[t].denied BY <1>3 DEF DeniedInv
      <3> QED BY <1>7, <1>8, <3>1, <3>2, <3>3
    <2>2. CASE a = new /\ b # new
      <3>1. asked[b] # NoCall /\ b[1] = t /\ b[2] > tools[t].asks + 1 BY <1>4, <1>7, <2>2
      <3>2. b[2] <= tools[t].asks BY <1>8, <2>2, <3>1
      <3> QED BY <1>1, <1>5, <3>1, <3>2
    <2>3. CASE a # new /\ b # new
      BY <1>7, <2>3 DEF DeniedInv, DeniedStaysDenied
    <2> QED BY <2>1, <2>2, <2>3
  <1>10. \A u \in Turns :
           /\ pc'[u] = "bind" => tools'[u].call \notin tools'[u].denied
           /\ pc'[u] \in {"ask", "await"} => asked'[Prompt(u)'] = tools'[u].call
    <2>1. ASSUME NEW u \in Turns \ {t}, pc[u] \in {"ask", "await"}
          PROVE  asked'[Prompt(u)'] = tools[u].call
      <3>1. asked[Prompt(u)] = tools[u].call BY <2>1 DEF DeniedInv
      <3>2. asked'[Prompt(u)] = asked[Prompt(u)] BY <1>0, <1>3, <1>6
      <3> QED BY <1>6, <3>1, <3>2
    <2>2. \A u \in Turns \ {t} : pc[u] = "bind" => tools[u].call \notin tools[u].denied
      BY DEF DeniedInv
    <2> QED BY <1>3, <1>4, <1>7, <2>1, <2>2
  <1>11. ASSUME NEW a \in Approvals, asked'[a] # NoCall
         PROVE  /\ a[2] <= tools'[a[1]].asks
                /\ \/ resolution'[a] = "allow"
                   \/ asked'[a] \in tools'[a[1]].denied
                   \/ pc'[a[1]] \in {"ask", "await"} /\ a = Prompt(a[1])'
                   \/ pc'[a[1]] \in EndSteps
    <2>1. CASE a = new BY <1>1, <1>3, <1>4, <2>1
    <2>2. CASE a # new /\ a[1] = t
      <3>1. a[2] <= tools[t].asks /\ (resolution[a] = "allow" \/ asked[a] \in tools[t].denied)
        BY <1>7, <1>8, <1>11, <2>2
      <3> QED BY <1>1, <1>3, <1>5, <1>7, <2>2, <3>1
    <2>3. CASE a[1] # t
      <3>1. a # new /\ a[1] \in Turns \ {t} BY <1>4, <1>5, <2>3
      <3>2. /\ a[2] <= tools[a[1]].asks
            /\ \/ resolution[a] = "allow"
               \/ asked[a] \in tools[a[1]].denied
               \/ pc[a[1]] \in {"ask", "await"} /\ a = Prompt(a[1])
               \/ pc[a[1]] \in EndSteps
        BY <1>7, <1>11, <3>1 DEF DeniedInv
      <3> QED BY <1>3, <1>6, <1>7, <3>1, <3>2
    <2> QED BY <2>1, <2>2, <2>3
  <1> QED BY <1>9, <1>10, <1>11 DEF DeniedInv

\* A step that binds nothing keeps what was asked and answered.
LEMMA DeniedKept ==
  ASSUME TypeInv, DeniedInv, UNCHANGED asked,
         \A a \in Approvals : resolution[a] = "allow" => resolution'[a] = "allow",
         \A t \in Turns : KeepsDenials(t)
  PROVE  DeniedInv'
  <1>1. \A a \in Approvals : a[1] \in Turns BY DEF Approvals
  <1>2. \A t \in Turns : Prompt(t)' = Prompt(t) BY DEF KeepsDenials, Prompt
  <1>3. DeniedStaysDenied' BY DEF DeniedInv, DeniedStaysDenied
  <1>4. \A t \in Turns : pc'[t] \in {"ask", "await"} => asked'[Prompt(t)'] = tools'[t].call
    BY <1>2 DEF DeniedInv, KeepsDenials
  <1>5. ASSUME NEW a \in Approvals, asked[a] # NoCall
        PROVE  /\ a[2] <= tools'[a[1]].asks
               /\ \/ resolution'[a] = "allow"
                  \/ asked[a] \in tools'[a[1]].denied
                  \/ pc'[a[1]] \in {"ask", "await"} /\ a = Prompt(a[1])'
                  \/ pc'[a[1]] \in EndSteps
    <2> DEFINE t == a[1]
    <2>1. t \in Turns BY <1>1
    <2>2. /\ a[2] <= tools[t].asks
          /\ \/ resolution[a] = "allow"
             \/ asked[a] \in tools[t].denied
             \/ pc[t] \in {"ask", "await"} /\ a = Prompt(t)
             \/ pc[t] \in EndSteps
      BY <1>5 DEF DeniedInv
    <2> HIDE DEF t
    <2>3. CASE pc[t] \in {"ask", "await"} /\ a = Prompt(t)
      <3>1. asked[a] = tools[t].call BY <2>1, <2>3 DEF DeniedInv
      <3>2. \/ resolution'[a] = "allow" \/ asked[a] \in tools'[t].denied
            \/ pc'[t] \in {"ask", "await"} \/ pc'[t] \in EndSteps
        BY <1>5, <2>1, <2>3, <3>1 DEF KeepsDenials
      <3>3. a[2] <= tools'[t].asks /\ a = Prompt(t)' BY <1>2, <2>1, <2>2, <2>3 DEF KeepsDenials
      <3> QED BY <3>2, <3>3 DEF t
    <2>4. CASE \/ resolution[a] = "allow" \/ asked[a] \in tools[t].denied \/ pc[t] \in EndSteps
      <3>1. a[2] <= tools'[t].asks BY <2>1, <2>2 DEF KeepsDenials
      <3>2. resolution'[a] = "allow" \/ asked[a] \in tools'[t].denied \/ pc'[t] \in EndSteps
        BY <1>5, <2>1, <2>4 DEF KeepsDenials
      <3> QED BY <3>1, <3>2 DEF t
    <2> QED BY <2>2, <2>3, <2>4
  <1> QED BY <1>3, <1>4, <1>5 DEF DeniedInv, KeepsDenials

LEMMA DeniedStep ==
  TypeInv /\ SlotInv /\ PromptInv /\ DeniedInv /\ [Next]_vars => DeniedInv'
  <1> SUFFICES ASSUME TypeInv, SlotInv, PromptInv, DeniedInv, [Next]_vars PROVE DeniedInv'
    OBVIOUS
  <1>0. \A t \in Turns : pc[t] = "bind" => tools[t].call \notin tools[t].denied BY DEF DeniedInv
  <1>1. CASE UNCHANGED vars
    <2>1. UNCHANGED <<asked, resolution, tools, pc>>
      BY <1>1 DEF vars, turnVars, approvalVars, history
    <2> QED BY <1>0, <2>1, DeniedKept DEF KeepsDenials
  <1>2. CASE Others
    <2>1. UNCHANGED asked BY <1>2, OthersLeave
    <2>2. \A a \in Approvals : resolution[a] = "allow" => resolution'[a] = "allow"
      BY <1>2, AllowedStays
    <2>3. \A t \in Turns : KeepsDenials(t)
      <3> SUFFICES ASSUME NEW t \in Turns
                   PROVE  /\ tools'[t].asks = tools[t].asks
                          /\ tools'[t].denied = tools[t].denied /\ tools'[t].call = tools[t].call
                          /\ \/ pc'[t] = pc[t]
                             \/ pc[t] = "off" /\ pc'[t] \in {"history", "cancelTerminal"}
        BY <1>0 DEF KeepsDenials, EndSteps
      <3> QED BY <1>2, OthersLeave
    <2> QED BY <2>1, <2>2, <2>3, DeniedKept
  <1>3. ASSUME NEW u \in Turns, TurnTask(u), ~BindApproval(u) PROVE DeniedInv'
    <2>1. UNCHANGED <<asked, resolution>> BY <1>3, TaskDenials
    <2>2. \A t \in Turns : KeepsDenials(t)
      <3> TAKE t \in Turns
      <3>1. CASE t = u BY <1>3, <3>1, TaskDenials
      <3>2. CASE t # u
        <4>1. pc'[t] = pc[t] /\ tools'[t] = tools[t] BY <1>3, <3>2, CallStep
        <4> QED BY <1>0, <4>1 DEF KeepsDenials
      <3> QED BY <3>1, <3>2
    <2> QED BY <2>1, <2>2, DeniedKept
  <1> QED BY <1>1, <1>2, <1>3, BindDenied DEF Next, Others

LEMMA DeniedInvAlways == Spec => []DeniedInv
  <1>1. Init => DeniedInv BY DEF Init, DeniedInv, DeniedStaysDenied
  <1> QED BY <1>1, TypeInvAlways, SlotInvAlways, PromptInvAlways, DeniedStep, PTL DEF Spec

\* A mutation the user has denied is never prompted for again in its turn.
THEOREM DeniedAlwaysStays == Spec => []DeniedStaysDenied
  <1>1. DeniedInv => DeniedStaysDenied BY DEF DeniedInv
  <1> QED BY <1>1, DeniedInvAlways, PTL

\* The invariant as a whole.
THEOREM Invariant == Spec => []IInv
  <1>1. /\ TypeInv /\ SlotInv /\ TerminalInv /\ PromptInv
        /\ ToolInv /\ DeniedInv /\ TextInv /\ RegisteredInv /\ StopInv
        => IInv
    BY DEF TypeInv, IInv
  <1> QED BY <1>1, TypeInvAlways, SlotInvAlways, TerminalInvAlways, PromptInvAlways, ToolInvAlways,
          DeniedInvAlways, TextInvAlways, RegisteredInvAlways, StopInvAlways, PTL

-----------------------------------------------------------------------------
(* The refinement. *)

SafeInv == TypeInv /\ SlotInv /\ TerminalInv

\* The life cycle only looks at these variables.
LEMMA Invisible ==
  ASSUME \A t \in Turns : Phase(t)' = Phase(t) /\ ReportOf(t)' = ReportOf(t),
         UNCHANGED activeTurn
  PROVE  UNCHANGED Lifecycle!vars
  BY DEF Lifecycle!vars

LEMMA SamePhase ==
  ASSUME NEW t \in Turns, disposition'[t] = disposition[t], completed'[t] = completed[t]
  PROVE  Phase(t)' = Phase(t)
  BY DEF Phase, Reserved, Running

LEMMA SameReport ==
  ASSUME NEW t \in Turns, UNCHANGED <<terminals, lost>>
  PROVE  ReportOf(t)' = ReportOf(t)
  BY DEF ReportOf

\* A turn that is cancelled before its start stays reserved.
LEMMA CancelKeepsPhase ==
  ASSUME NEW t \in Turns, UNCHANGED completed,
         \/ disposition'[t] = disposition[t]
         \/ disposition[t] = "Prepared" /\ disposition'[t] = "CancelledBeforeStart"
  PROVE  Phase(t)' = Phase(t)
  BY DEF Phase, Reserved, Running

LEMMA InitRefines == Init => Lifecycle!Init
  <1> SUFFICES ASSUME Init PROVE Lifecycle!Init
    OBVIOUS
  <1>1. \A t \in Turns : Phase(t) = "idle" /\ ReportOf(t) = "none"
    BY DEF Init, Phase, Reserved, Running, ReportOf
  <1>2. activeTurn = NoTurn BY DEF Init
  <1>3. [t \in Turns |-> Phase(t)] = [t \in Turns |-> "idle"] BY <1>1
  <1>4. [t \in Turns |-> ReportOf(t)] = [t \in Turns |-> "none"] BY <1>1
  <1> QED BY <1>2, <1>3, <1>4 DEF Lifecycle!Init

LEMMA PrepareRefines ==
  ASSUME SafeInv, NEW t \in Turns, SendTurnPrepared(t)
  PROVE  Lifecycle!Reserve(t)
  <1>1. /\ activeTurn = NoTurn /\ activeTurn' = t
        /\ disposition' = [disposition EXCEPT ![t] = "Prepared"]
        /\ UNCHANGED <<completed, terminals, lost>>
    BY DEF SendTurnPrepared, TurnBusy, history
  <1>2. disposition[t] = "none" BY DEF SendTurnPrepared, SafeInv, SlotInv
  <1>3. disposition \in [Turns -> Dispositions] BY DEF SafeInv, TypeInv, TypeOK, TurnTypeOK
  <1>4. Phase(t) = "idle" BY <1>2 DEF Phase, Reserved, Running
  <1>5. Phase(t)' = "reserved"
    <2>1. disposition'[t] = "Prepared" BY <1>1, <1>3
    <2> QED BY <2>1 DEF Phase, Reserved, Running
  <1>6. \A u \in Turns \ {t} : Phase(u)' = Phase(u)
    <2>1. \A u \in Turns \ {t} : disposition'[u] = disposition[u] BY <1>1, <1>3
    <2> QED BY <1>1, <2>1, SamePhase
  <1>7. \A u \in Turns : ReportOf(u)' = ReportOf(u) BY <1>1, SameReport
  <1> QED BY <1>1, <1>4, <1>5, <1>6, <1>7 DEF Lifecycle!Reserve

LEMMA StartRefines ==
  ASSUME SafeInv, NEW t \in Turns, StartTurn(t)
  PROVE  Lifecycle!Accept(t)
  <1>1. /\ disposition' = [disposition EXCEPT ![t] = "Started"]
        /\ UNCHANGED <<activeTurn, completed, terminals, lost>>
    BY DEF StartTurn, history
  <1>2. Reserved(t) /\ ~completed[t] BY DEF StartTurn, SafeInv, SlotInv
  <1>3. disposition \in [Turns -> Dispositions] BY DEF SafeInv, TypeInv, TypeOK, TurnTypeOK
  <1>4. Phase(t) = "reserved" BY <1>2 DEF Phase, Reserved, Running
  <1>5. Phase(t)' = "running"
    <2>1. disposition'[t] = "Started" /\ ~completed'[t] BY <1>1, <1>2, <1>3
    <2> QED BY <2>1 DEF Phase, Reserved, Running
  <1>6. \A u \in Turns \ {t} : Phase(u)' = Phase(u)
    <2>1. \A u \in Turns \ {t} : disposition'[u] = disposition[u] BY <1>1, <1>3
    <2> QED BY <1>1, <2>1, SamePhase
  <1>7. \A u \in Turns : ReportOf(u)' = ReportOf(u) BY <1>1, SameReport
  <1> QED BY <1>1, <1>4, <1>5, <1>6, <1>7 DEF Lifecycle!Accept

LEMMA AbortRefines ==
  ASSUME SafeInv, NEW t \in Turns, SendTurnAborted(t)
  PROVE  Lifecycle!Refuse(t)
  <1>1. router.at = "sendRespond" /\ router.turn = t BY DEF SendTurnAborted
  <1>2. Reserved(t) /\ activeTurn = t BY <1>1 DEF SafeInv, SlotInv, OneTurnAtATime
  <1>3. /\ activeTurn' = NoTurn
        /\ disposition' = [disposition EXCEPT ![t] = "Aborted"]
        /\ completed' = [completed EXCEPT ![t] = TRUE]
        /\ UNCHANGED <<terminals, lost>>
    BY <1>2 DEF SendTurnAborted, history
  <1>4. disposition \in [Turns -> Dispositions] /\ completed \in [Turns -> BOOLEAN]
    BY DEF SafeInv, TypeInv, TypeOK, TurnTypeOK
  <1>5. Phase(t) = "reserved" BY <1>2 DEF Phase, Reserved, Running
  <1>6. Phase(t)' = "refused"
    <2>1. disposition'[t] = "Aborted" BY <1>3, <1>4
    <2> QED BY <2>1 DEF Phase, Reserved, Running
  <1>7. \A u \in Turns \ {t} : Phase(u)' = Phase(u)
    <2>1. \A u \in Turns \ {t} : disposition'[u] = disposition[u] /\ completed'[u] = completed[u]
      BY <1>3, <1>4
    <2> QED BY <2>1, SamePhase
  <1>8. \A u \in Turns : ReportOf(u)' = ReportOf(u) BY <1>3, SameReport
  <1> QED BY <1>3, <1>5, <1>6, <1>7, <1>8 DEF Lifecycle!Refuse

LEMMA TaskRefines ==
  ASSUME SafeInv, NEW t \in Turns, TurnTask(t)
  PROVE  Lifecycle!Report(t) \/ Lifecycle!End(t) \/ UNCHANGED Lifecycle!vars
  <1>0. /\ pc[t] # "off" /\ UNCHANGED disposition
        /\ UNCHANGED <<activeTurn, completed>> \/ CompleteTurn(t)
    BY TaskSlotStep DEF SafeInv
  <1>1. /\ terminals \in [Turns -> Seq({"completed", "cancelled", "failed"})]
        /\ completed \in [Turns -> BOOLEAN]
    BY DEF SafeInv, TypeInv, TypeOK, HistoryTypeOK, TurnTypeOK
  <1>2. disposition[t] = "Started" BY <1>0 DEF SafeInv, SlotInv
  <1>3. CASE pc[t] # "end" /\ pc'[t] # "end" /\ UNCHANGED <<terminals, lost>>
    <2>1. UNCHANGED <<activeTurn, completed>> BY <1>0, <1>3 DEF CompleteTurn, At
    <2> QED BY <1>0, <1>3, <2>1, SamePhase, SameReport, Invisible
  <1>4. CASE /\ pc[t] # "end" /\ pc'[t] = "end"
             /\ \/ /\ \E status \in {"completed", "cancelled", "failed"} :
                        terminals' = [terminals EXCEPT ![t] = Append(@, status)]
                   /\ UNCHANGED lost
                \/ lost' = lost \cup {t} /\ UNCHANGED terminals
    <2>1. UNCHANGED <<activeTurn, completed>> BY <1>0, <1>4 DEF CompleteTurn, At
    <2>2. \A u \in Turns : Phase(u)' = Phase(u) BY <1>0, <2>1, SamePhase
    <2>3. ~completed[t] BY <1>2, <1>4 DEF SafeInv, TerminalInv
    <2>4. Phase(t) = "running" BY <1>2, <2>3 DEF Phase, Reserved, Running
    <2>5. terminals[t] = <<>> /\ t \notin lost BY <1>4 DEF SafeInv, TerminalInv
    <2>6. ReportOf(t) = "none" BY <2>5 DEF ReportOf
    <2>7. \A u \in Turns \ {t} : ReportOf(u)' = ReportOf(u)
      BY <1>1, <1>4 DEF ReportOf
    <2>8. ReportOf(t)' \in {"completed", "cancelled", "failed", "lost"}
      <3>1. CASE lost' = lost \cup {t} /\ UNCHANGED terminals
        BY <2>5, <3>1 DEF ReportOf
      <3>2. ASSUME NEW status \in {"completed", "cancelled", "failed"},
                   terminals' = [terminals EXCEPT ![t] = Append(@, status)]
            PROVE  ReportOf(t)' = status
        <4>1. terminals'[t] = <<status>> BY <1>1, <2>5, <3>2
        <4> QED BY <4>1 DEF ReportOf
      <3> QED BY <1>4, <3>1, <3>2
    <2>9. Lifecycle!Report(t)
      <3>1. ReportOf(t)' \in Lifecycle!Reports \ {"none"}
        BY <2>8 DEF Lifecycle!Reports, Lifecycle!Statuses
      <3>2. [u \in Turns |-> ReportOf(u)]' =
              [[u \in Turns |-> ReportOf(u)] EXCEPT ![t] = ReportOf(t)']
        BY <2>7
      <3>3. [u \in Turns |-> Phase(u)]' = [u \in Turns |-> Phase(u)] BY <2>2
      <3> QED BY <2>1, <2>4, <2>6, <3>1, <3>2, <3>3 DEF Lifecycle!Report
    <2> QED BY <2>9
  <1>5. CASE CompleteTurn(t) /\ UNCHANGED <<pc, terminals, lost>>
    <2>1. /\ pc[t] = "end" /\ ~completed[t] /\ completed' = [completed EXCEPT ![t] = TRUE]
      BY <1>5 DEF CompleteTurn, At
    <2>2. activeTurn = t BY <1>2, <2>1 DEF SafeInv, SlotInv, OneTurnAtATime, Running
    <2>3. activeTurn' = NoTurn BY <1>5, <2>2 DEF CompleteTurn
    <2>4. Phase(t) = "running" BY <1>2, <2>1 DEF Phase, Reserved, Running
    <2>5. Phase(t)' = "ended"
      <3>1. disposition'[t] = "Started" /\ completed'[t] BY <1>0, <1>1, <1>2, <2>1
      <3> QED BY <3>1 DEF Phase, Reserved, Running
    <2>6. \A u \in Turns \ {t} : Phase(u)' = Phase(u)
      <3>1. \A u \in Turns \ {t} : completed'[u] = completed[u] BY <1>1, <2>1
      <3> QED BY <1>0, <3>1, SamePhase
    <2>7. \A u \in Turns : ReportOf(u)' = ReportOf(u) BY <1>5, SameReport
    <2>8. ReportOf(t) # "none"
      <3>1. terminals[t] # <<>> \/ t \in lost BY <2>1 DEF SafeInv, TerminalInv
      <3>2. CASE terminals[t] # <<>>
        <4>1. terminals[t] \in Seq({"completed", "cancelled", "failed"}) BY <1>1
        <4>2. terminals[t][Len(terminals[t])] \in {"completed", "cancelled", "failed"}
          BY <3>2, <4>1
        <4> QED BY <3>2, <4>2 DEF ReportOf
      <3>3. CASE terminals[t] = <<>> /\ t \in lost BY <3>3 DEF ReportOf
      <3> QED BY <3>1, <3>2, <3>3
    <2> QED BY <2>3, <2>4, <2>5, <2>6, <2>7, <2>8 DEF Lifecycle!End
  <1> QED BY <1>3, <1>4, <1>5, TaskReports DEF SafeInv

LEMMA NextRefines == SafeInv /\ [Next]_vars => [Lifecycle!Next]_(Lifecycle!vars)
  <1> SUFFICES ASSUME SafeInv, [Next]_vars PROVE Lifecycle!Next \/ UNCHANGED Lifecycle!vars
    OBVIOUS
  <1>1. CASE UNCHANGED vars
    BY <1>1, SamePhase, SameReport, Invisible DEF vars, turnVars, history
  <1>2. ASSUME NEW t \in Turns, TurnTask(t) PROVE Lifecycle!Next \/ UNCHANGED Lifecycle!vars
    BY <1>2, TaskRefines DEF Lifecycle!Next
  <1>3. CASE Native \/ RouterReceives
    <2>1. UNCHANGED <<activeTurn, disposition, completed, terminals, lost>>
      BY <1>3 DEF Native, PipeStalls, PipeResumes, PipeBreaks, ParentExits, RouterReceives,
         RecvInitialize, RecvReset, RecvShutdown, RecvSendTurn, RecvCancelTurn,
         RecvApprovalRespond, turnVars, history
    <2> QED BY <2>1, SamePhase, SameReport, Invisible
  <1>4. CASE RouterContinues
    <2>1. ASSUME NEW t \in Turns, SendTurnPrepared(t) PROVE Lifecycle!Next
      BY <2>1, PrepareRefines DEF Lifecycle!Next
    <2>2. ASSUME NEW t \in Turns, StartTurn(t) PROVE Lifecycle!Next
      BY <2>2, StartRefines DEF Lifecycle!Next
    <2>3. ASSUME NEW t \in Turns, SendTurnAborted(t) PROVE Lifecycle!Next
      BY <2>3, AbortRefines DEF Lifecycle!Next
    <2>4. CASE CancelTurnResponded
      <3>1. UNCHANGED <<activeTurn, completed, terminals, lost>>
        BY <2>4 DEF CancelTurnResponded, history
      <3>2. \A u \in Turns : \/ disposition'[u] = disposition[u]
                             \/ disposition[u] = "Prepared" /\ disposition'[u] = "CancelledBeforeStart"
        BY <2>4 DEF CancelTurnResponded, TryCancel, SafeInv, TypeInv, TypeOK, TurnTypeOK,
           RouterTypeOK, RouterStates
      <3> QED BY <3>1, <3>2, CancelKeepsPhase, SameReport, Invisible
    <2>5. CASE \/ InitializeSucceeds \/ InitializeFails \/ SendTurnRefused \/ ApprovalResponded
               \/ ResetDone \/ PlainResponse \/ ShutdownResponded \/ RouterExits
               \/ \E t \in Turns : SendTurnResponded(t)
      <3>1. UNCHANGED <<activeTurn, disposition, completed, terminals, lost>>
        BY <2>5 DEF InitializeSucceeds, InitializeFails, SendTurnRefused, ApprovalResponded,
           ResetDone, PlainResponse, ShutdownResponded, RouterExits, SendTurnResponded, turnVars,
           history
      <3> QED BY <3>1, SamePhase, SameReport, Invisible
    <2> QED BY <1>4, <2>1, <2>2, <2>3, <2>4, <2>5 DEF RouterContinues
  <1>5. ASSUME NEW s \in Stoppers, Stop(s) PROVE UNCHANGED Lifecycle!vars
    <2>1. UNCHANGED <<activeTurn, completed, terminals, lost>>
      BY <1>5 DEF Stop, StopTakes, StopCancels, StopDeniesApprovals, StopAwaits, StopDisposes,
         hostVars, turnVars, history
    <2>2. \A u \in Turns : \/ disposition'[u] = disposition[u]
                           \/ disposition[u] = "Prepared" /\ disposition'[u] = "CancelledBeforeStart"
      BY <1>5 DEF Stop, StopTakes, StopCancels, StopDeniesApprovals, StopAwaits, StopDisposes,
         turnVars, TryCancel, SafeInv, TypeInv, TypeOK, TurnTypeOK, StopperTypeOK
    <2> QED BY <2>1, <2>2, CancelKeepsPhase, SameReport, Invisible
  <1> QED BY <1>1, <1>2, <1>3, <1>4, <1>5 DEF Next

\* The coordinator implements the abstract turn life cycle: one slot, one report
\* per running turn, and the slot is given back only after the report.
THEOREM LifecycleImplemented == Spec => ImplementsLifecycle
  <1>1. Spec => []SafeInv
    BY TypeInvAlways, SlotInvAlways, TerminalInvAlways, PTL DEF SafeInv
  <1> QED BY <1>1, InitRefines, NextRefines, PTL DEF Spec, ImplementsLifecycle, Lifecycle!Spec
=============================================================================
