--------------------------- MODULE McpDispatcher ---------------------------
(***************************************************************************)
(* McpDispatcher.cpp with its two sides in D3D12PathTracingBackend.cpp: the *)
(* HTTP workers of the MCP server submit commands and wait for them with a  *)
(* time-out (SubmitMcpCommandTool, SubmitMcpActionTool); the render thread  *)
(* runs one command per frame, approves and rejects commands for the user,  *)
(* and stops the server (StopMcpServer).                                    *)
(*                                                                         *)
(* A worker is named for the one command it submits.  m_commands is the set *)
(* of queued commands: the deque is always ordered by request.id.  Clocks   *)
(* are reduced to "the deadline has passed", which both ExpireLocked and    *)
(* the worker's wait see.                                                   *)
(***************************************************************************)
EXTENDS Integers, FiniteSets

CONSTANTS Workers,      \* HTTP workers, one command each
          None,         \* no command
          QueueLimit,   \* m_queueLimit (16 in the code)
          Modes         \* access modes the user sets

AccessModes == {"ReadOnly", "ConfirmMutations", "AllowMutations"}

ASSUME DispatcherAssumption ==
  /\ None \notin Workers
  /\ QueueLimit \in Nat \ {0}
  /\ Modes \subseteq AccessModes

VARIABLES
  accessMode,   \* m_mcpSettings.accessMode
  server,       \* the MCP server: running, stopping, stopped
  worker,       \* where each worker is
  request,      \* its command: is it a mutation, granted once, read mode
  commands,     \* m_commands
  id, nextId,   \* request.id of each command, m_nextId
  approved,     \* PendingCommand::approved
  late,         \* commands whose deadline has passed
  promise,      \* PendingCommand::promise
  render,       \* what the render thread is doing
  \* History, read only by properties:
  sets,         \* sets[w]: how often the promise of w was set
  runs,         \* runs[w]: how often w's command was executed
  told,         \* told[w]: the answer w gave its client
  userApproved  \* commands the user approved

queueVars == <<commands, id, nextId, approved>>
history   == <<sets, runs, told, userApproved>>
vars == <<accessMode, server, worker, request, queueVars, late, promise, render, history>>

-----------------------------------------------------------------------------
Outcomes    == {"executed", "expired", "rejected", "stopped", "cancelled"}
WorkerSteps == {"idle", "submit", "waiting", "cancel", "done"}
RenderSteps == {"frame", "settle", "execute", "join"}
Answers     == Outcomes \cup {"none", "readOnly", "full", "timedOut"}

Frame == [at |-> "frame", settle |-> {}, outcome |-> "none", ready |-> None]
NoRequest == [mutation |-> FALSE, granted |-> FALSE, mode |-> "ReadOnly"]

WorkersTypeOK ==
  /\ worker \in [Workers -> WorkerSteps]
  /\ request \in [Workers -> [mutation: BOOLEAN, granted: BOOLEAN, mode: AccessModes]]
  /\ late \subseteq Workers

QueueTypeOK ==
  /\ commands \subseteq Workers /\ IsFiniteSet(commands) /\ Cardinality(commands) <= QueueLimit
  /\ approved \subseteq Workers
  /\ id \in [Workers -> Nat] /\ nextId \in Nat
  /\ promise \in [Workers -> Outcomes \cup {"none"}]

RenderTypeOK ==
  /\ accessMode \in AccessModes
  /\ server \in {"running", "stopping", "stopped"}
  /\ render \in [at: RenderSteps, settle: SUBSET Workers,
                 outcome: {"none", "expired", "stopped"}, ready: Workers \cup {None}]

HistoryTypeOK ==
  /\ sets \in [Workers -> Nat] /\ runs \in [Workers -> Nat]
  /\ told \in [Workers -> Answers]
  /\ userApproved \subseteq Workers

TypeOK == WorkersTypeOK /\ QueueTypeOK /\ RenderTypeOK /\ HistoryTypeOK

Init ==
  /\ accessMode \in Modes
  /\ server = "running"
  /\ worker = [w \in Workers |-> "idle"]
  /\ request = [w \in Workers |-> NoRequest]
  /\ commands = {} /\ approved = {} /\ late = {}
  /\ id = [w \in Workers |-> 0] /\ nextId = 1
  /\ promise = [w \in Workers |-> "none"]
  /\ render = Frame
  /\ sets = [w \in Workers |-> 0] /\ runs = [w \in Workers |-> 0]
  /\ told = [w \in Workers |-> "none"]
  /\ userApproved = {}

\* promise.set_value for every command in ws.
SetValue(ws, outcome) ==
  /\ promise' = [w \in Workers |-> IF w \in ws THEN outcome ELSE promise[w]]
  /\ sets' = [w \in Workers |-> IF w \in ws THEN sets[w] + 1 ELSE sets[w]]

Answer(w, answer) ==
  /\ worker' = [worker EXCEPT ![w] = "done"]
  /\ told' = [told EXCEPT ![w] = answer]

RequiresApproval(w) ==
  request[w].mutation /\ request[w].mode = "ConfirmMutations" /\ ~request[w].granted

-----------------------------------------------------------------------------
(* An HTTP worker. *)

\* The access mode is copied once; the deadline runs from here.  A one-time
\* grant comes with a mutation.
ReadSettings(w, mutation, granted) ==
  /\ granted => mutation
  /\ worker[w] = "idle" /\ server # "stopped"
  /\ request' = [request EXCEPT ![w] =
                   [mutation |-> mutation, granted |-> granted, mode |-> accessMode]]
  /\ IF mutation /\ accessMode = "ReadOnly"
     THEN Answer(w, "readOnly")
     ELSE worker' = [worker EXCEPT ![w] = "submit"] /\ UNCHANGED told
  /\ UNCHANGED <<accessMode, server, queueVars, late, promise, render, sets, runs, userApproved>>

Submit(w) ==
  /\ worker[w] = "submit"
  /\ IF Cardinality(commands) >= QueueLimit
     THEN Answer(w, "full") /\ UNCHANGED <<commands, id, nextId>>
     ELSE /\ commands' = commands \cup {w}
          /\ id' = [id EXCEPT ![w] = nextId]
          /\ nextId' = nextId + 1
          /\ worker' = [worker EXCEPT ![w] = "waiting"] /\ UNCHANGED told
  /\ UNCHANGED <<accessMode, server, request, approved, late, promise, render, sets, runs,
                 userApproved>>

GetResult(w) ==
  /\ worker[w] = "waiting" /\ promise[w] # "none"
  /\ Answer(w, promise[w])
  /\ UNCHANGED <<accessMode, server, request, queueVars, late, promise, render, sets, runs,
                 userApproved>>

\* Mutant: the worker waits without a time-out.
WaitForever(w) == worker[w] = "waiting" /\ FALSE /\ UNCHANGED vars

\* wait_for started after the deadline was taken and lasts as long.
WaitTimesOut(w) ==
  /\ worker[w] = "waiting" /\ promise[w] = "none" /\ w \in late
  /\ worker' = [worker EXCEPT ![w] = "cancel"]
  /\ UNCHANGED <<accessMode, server, request, queueVars, late, promise, render, history>>

\* Cancel: whatever was found in the queue is settled by the one who took it.
Cancel(w) ==
  /\ worker[w] = "cancel"
  /\ commands' = commands \ {w}
  /\ SetValue(commands \cap {w}, "cancelled")
  /\ Answer(w, "timedOut")
  /\ UNCHANGED <<accessMode, server, request, id, nextId, approved, late, render, runs,
                 userApproved>>

DeadlinePasses(w) ==
  /\ worker[w] \in {"submit", "waiting"} /\ w \notin late
  /\ late' = late \cup {w}
  /\ UNCHANGED <<accessMode, server, worker, request, queueVars, promise, render, history>>

WorkerTask(w) == Submit(w) \/ GetResult(w) \/ WaitTimesOut(w) \/ Cancel(w)

-----------------------------------------------------------------------------
(* The render thread. *)

Eligible(w) == ~RequiresApproval(w) \/ w \in approved

\* The eligible command of ws with the lowest id, or None.
FirstEligible(ws) ==
  LET eligible == {w \in ws : Eligible(w)} IN
  IF eligible = {} THEN {None} ELSE {w \in eligible : \A v \in eligible : id[w] <= id[v]}

TakeOut(expired, ready) ==
  /\ commands' = (commands \ expired) \ {ready}
  /\ render' = [at |-> "settle", settle |-> expired, outcome |-> "expired", ready |-> ready]
  /\ UNCHANGED <<accessMode, server, worker, request, id, nextId, approved, late, promise,
                 history>>

\* Mutant: approval is not looked at.
ProcessAnything ==
  /\ render.at = "frame" /\ server # "stopped"
  /\ \E ready \in commands \ late : TakeOut(commands \cap late, ready)

\* Mutant: an expired command is also taken for execution.
ProcessExpired ==
  /\ render.at = "frame" /\ server # "stopped"
  /\ \E ready \in FirstEligible(commands) : TakeOut(commands \cap late, ready)

\* ProcessOne under the mutex: take out the expired and the next command.
ProcessOne ==
  /\ render.at = "frame" /\ server # "stopped"
  /\ \E ready \in FirstEligible(commands \ late) : TakeOut(commands \cap late, ready)

\* Outside the mutex: answer what was taken out, then run the ready command.
Settle ==
  /\ render.at = "settle"
  /\ SetValue(render.settle, render.outcome)
  /\ IF render.ready # None
     THEN /\ render' = [Frame EXCEPT !.at = "execute", !.ready = render.ready]
          /\ runs' = [runs EXCEPT ![render.ready] = @ + 1]
     ELSE /\ render' = [Frame EXCEPT !.at = IF server = "stopping" THEN "join" ELSE "frame"]
          /\ UNCHANGED runs
  /\ UNCHANGED <<accessMode, server, worker, request, queueVars, late, told, userApproved>>

Execute ==
  /\ render.at = "execute"
  /\ SetValue({render.ready}, "executed")
  /\ render' = Frame
  /\ UNCHANGED <<accessMode, server, worker, request, queueVars, late, runs, told, userApproved>>

\* mcp.approve and mcp.reject name a command of an older snapshot.
Approve(w) ==
  /\ render.at = "frame" /\ RequiresApproval(w) /\ w \in commands
  /\ approved' = approved \cup {w}
  /\ userApproved' = userApproved \cup {w}
  /\ UNCHANGED <<accessMode, server, worker, request, commands, id, nextId, late, promise,
                 render, sets, runs, told>>

Reject(w) ==
  /\ render.at = "frame" /\ RequiresApproval(w) /\ w \in commands
  /\ commands' = commands \ {w}
  /\ SetValue({w}, "rejected")
  /\ UNCHANGED <<accessMode, server, worker, request, id, nextId, approved, late, render, runs,
                 told, userApproved>>

SetAccessMode(mode) ==
  /\ render.at = "frame"
  /\ accessMode' = mode
  /\ UNCHANGED <<server, worker, request, queueVars, late, promise, render, history>>

\* StopMcpServer: CancelAll; then Server::Stop joins the workers, which may
\* submit in between.
StopMcpServer ==
  /\ render.at = "frame" /\ server = "running"
  /\ server' = "stopping"
  /\ commands' = {}
  /\ render' = [at |-> "settle", settle |-> commands, outcome |-> "stopped", ready |-> None]
  /\ UNCHANGED <<accessMode, worker, request, id, nextId, approved, late, promise, history>>

StopJoins ==
  /\ render.at = "join"
  /\ \A w \in Workers : worker[w] \in {"idle", "done"}
  /\ server' = "stopped"
  /\ render' = Frame
  /\ UNCHANGED <<accessMode, worker, request, queueVars, late, promise, history>>

RenderThread == ProcessOne \/ Settle \/ Execute \/ StopJoins

Next ==
  \/ \E w \in Workers :
       \/ \E mutation, granted \in BOOLEAN : ReadSettings(w, mutation, granted)
       \/ WorkerTask(w) \/ DeadlinePasses(w)
       \/ Approve(w) \/ Reject(w)
  \/ RenderThread
  \/ \E mode \in Modes : SetAccessMode(mode)
  \/ StopMcpServer

Spec == Init /\ [][Next]_vars

\* The workers' threads run and time passes; the render thread finishes what
\* it began, but a frame need not come: rendering may be paused.
Fairness ==
  /\ \A w \in Workers : WF_vars(WorkerTask(w)) /\ WF_vars(DeadlinePasses(w))
  /\ WF_vars(Settle \/ Execute \/ StopJoins)

FairSpec == Spec /\ Fairness

-----------------------------------------------------------------------------
(* Properties. *)

\* std::promise::set_value is called once at most per command, although the
\* worker, ProcessOne, Reject and CancelAll may all want to settle it: a second
\* call would throw on the render thread or in a worker.
PromiseSetOnce == \A w \in Workers : sets[w] <= 1

\* A client that was told its command expired, was rejected, was stopped, did
\* not fit the queue or was not allowed can rely on it never having run; a
\* command runs at most once, and is reported as executed only if it ran.
\* "expired" is the answer of the render thread; the worker's own time-out
\* ("timedOut") gives its client the same text and promises nothing.
AnswersAreTrue ==
  \A w \in Workers :
    /\ runs[w] <= 1
    /\ told[w] \in {"expired", "rejected", "stopped", "full", "readOnly"} => runs[w] = 0
    /\ told[w] = "executed" => runs[w] = 1

\* Once a worker has answered, its command is not queued any more: at most the
\* one the render thread has already taken out can still run.
AnsweredIsNotQueued ==
  \A w \in Workers : worker[w] = "done" => w \notin commands

\* A mutation that ran was authorised when it was submitted or by the user, and
\* never under read-only access.
MutationIsAuthorized ==
  \A w \in Workers :
    runs[w] > 0 /\ request[w].mutation =>
      /\ request[w].mode # "ReadOnly"
      /\ request[w].granted \/ w \in userApproved \/ request[w].mode = "AllowMutations"

\* Nobody waits for ever: every worker that waits for its command answers its
\* client, even when no frame is rendered, and stopping the server ends, although
\* the render thread that would run the commands is the one that waits for their
\* workers.
WorkersAndStopEnd ==
  /\ \A w \in Workers : worker[w] = "waiting" ~> worker[w] = "done"
  /\ server = "stopping" ~> server = "stopped"

-----------------------------------------------------------------------------
(* The inductive invariant behind the safety properties: a command that was  *)
(* submitted is held by exactly one of the queue, the list of commands the   *)
(* render thread took out to settle, the command it took out to run, and the *)
(* set of settled promises.                                                  *)

Held(w) == w \in commands \/ w \in render.settle \/ render.ready = w

HolderInv ==
  \A w \in Workers :
    /\ w \in commands => w \notin render.settle /\ worker[w] \in {"waiting", "cancel"}
    /\ render.ready = w => w \notin commands /\ w \notin render.settle
    /\ Held(w) => promise[w] = "none" /\ worker[w] \notin {"idle", "submit"}
                   /\ told[w] \in {"none", "timedOut"}
    /\ worker[w] \in {"idle", "submit"} => promise[w] = "none"

RenderInv ==
  /\ render.at \in {"frame", "join"} => render.settle = {} /\ render.ready = None
  /\ render.at = "execute" => render.settle = {} /\ render.ready # None
  /\ render.at = "settle" => render.outcome # "none"

OutcomeInv ==
  \A w \in Workers :
    /\ sets[w] = IF promise[w] = "none" THEN 0 ELSE 1
    /\ runs[w] = IF promise[w] = "executed" \/ (render.at = "execute" /\ render.ready = w)
                 THEN 1 ELSE 0
    /\ told[w] # "none" <=> worker[w] = "done"
    /\ told[w] \in Outcomes => promise[w] = told[w]
    /\ told[w] \in {"full", "readOnly"} => promise[w] = "none"

Authorized(w) ==
  request[w].mutation =>
    /\ request[w].mode # "ReadOnly"
    /\ request[w].granted \/ w \in userApproved \/ request[w].mode = "AllowMutations"

AuthorityInv ==
  /\ approved \subseteq userApproved
  /\ \A w \in Workers :
       /\ worker[w] \in {"submit", "waiting", "cancel"} /\ request[w].mutation =>
            request[w].mode # "ReadOnly"
       /\ render.ready = w \/ runs[w] > 0 => Authorized(w)

IInv == TypeOK /\ HolderInv /\ RenderInv /\ OutcomeInv /\ AuthorityInv
=============================================================================
