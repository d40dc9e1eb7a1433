---------------------------- MODULE LlamaSession ----------------------------
(***************************************************************************)
(* The model server the chat host owns: LlamaServerProcessSessionProvider  *)
(* starts, reuses and stops one llama-server process for the settings on   *)
(* disk, and LlamaServerChatInferenceRuntime asks it for the status or for *)
(* a streamed answer.                                                      *)
(*                                                                         *)
(* Every start of a server is an attempt with a number of its own: its     *)
(* process, its port, its artifact leases, its key file, its entry in the  *)
(* registry of trusted ports.  The gate (a SemaphoreSlim) serialises the   *)
(* calls of GetSessionAsync and the disposal; the process, the port, the   *)
(* watched runtime directory and the settings file change under all of     *)
(* them.  A killed process takes its time to go, and a free port may be    *)
(* taken by a stranger.                                                    *)
(*                                                                         *)
(* Killing a process always makes it exit in the end: the code leaves a    *)
(* failed kill to the parent's job object, and so does the model.          *)
(***************************************************************************)
EXTENDS Naturals, FiniteSets

CONSTANTS Callers,       \* requests of the runtime, each status or stream
          Settings,      \* valid contents of the settings file
          NoSettings,    \* the file is not there
          MaxAttempts,   \* bound: servers started
          MaxCalls,      \* bound: calls of one caller
          MaxEdits       \* bound: changes of the settings file

ASSUME BoundsAreNatural ==
  MaxAttempts \in Nat \ {0} /\ MaxCalls \in Nat /\ MaxEdits \in Nat
ASSUME NoSettingsIsApart == NoSettings \notin Settings

Disposer == "disposer"
Free     == "free"

\* Who holds the gate is told apart from nobody and from the disposal.
ASSUME HoldersAreApart == {Disposer, Free} \cap Callers = {}

Attempts == 1 .. MaxAttempts
None     == 0

VARIABLES
  disk,       \* the valid settings the file holds, or NoSettings
  edits,      \* changes of it so far
  gate,       \* _gate: Free or who holds it
  running,    \* _running: the attempt it wraps, or None
  stopping,   \* the attempt StopRunningSessionAsync is stopping, or None
  begun,      \* attempts begun
  att,        \* what each attempt owns
  trusted,    \* VerifiedLoopbackProcessRegistry
  pc,         \* where each caller is
  call,       \* its call: the settings it loaded, its session, its peer
  calls,      \* calls it has made
  runtimeDisposed,   \* LlamaServerChatInferenceRuntime._disposed
  disposing,         \* _disposeStarted, and _lifetimeCancellation with it
  disposer           \* DisposeCoreAsync

callVars == <<pc, call, calls>>
lifeVars == <<runtimeDisposed, disposing, disposer>>
diskVars == <<disk, edits>>
sessionVars == <<gate, running, stopping, begun, att, trusted>>
vars == <<callVars, lifeVars, diskVars, sessionVars>>

-----------------------------------------------------------------------------
NoCall == [want |-> NoSettings, got |-> None, peer |-> "none"]

Unowned == [server |-> "none", port |-> "none", leases |-> {},
            monitor |-> "off", callback |-> FALSE, key |-> "none",
            settings |-> NoSettings]

Init ==
  /\ disk \in Settings \cup {NoSettings} /\ edits = 0
  /\ gate = Free /\ running = None /\ stopping = None /\ begun = 0
  /\ att = [i \in Attempts |-> Unowned] /\ trusted = {}
  /\ pc = [c \in Callers |-> "idle"] /\ call = [c \in Callers |-> NoCall]
  /\ calls = [c \in Callers |-> 0]
  /\ runtimeDisposed = FALSE /\ disposing = FALSE /\ disposer = "idle"

\* The linked tokens: that of a call holds the runtime's lifetime, that of
\* GetSessionAsync the provider's too.  The caller's own token may fire at any
\* await, and the await may end for it: it needs no variable.
SessionCancelled == runtimeDisposed \/ disposing

\* The steps of a caller that hold the gate, and those after GetSessionAsync.
GateSteps == {"load", "check", "probe", "stop", "stopping", "model", "runtime",
              "start", "launched", "health", "publish", "cleanup", "cleanup_files"}
RequestSteps == {"lookup", "connect", "sending", "streaming"}

Alive(i)     == att[i].server = "up"
IsValid(i)   == att[i].monitor = "watching" /\ "runtime" \in att[i].leases
PortOwned(i) == Alive(i) /\ att[i].port = "server"

\* What becomes of an attempt's process, leases and key file.
Started(a, i) == [a EXCEPT ![i].server = "up"]
Killed(a, i) == IF a[i].server = "up" THEN [a EXCEPT ![i].server = "killed"] ELSE a
ModelLeased(a, i) == [a EXCEPT ![i].leases = {"model"}]
RuntimeLeased(a, i) == [a EXCEPT ![i].leases = @ \cup {"runtime"},
                                 ![i].monitor = "watching"]
KeyWritten(a, i) == [a EXCEPT ![i].key = "there"]
KeyDeleted(a, i) == [a EXCEPT ![i].key = "none"]
NoLeases(a, i) == [a EXCEPT ![i].leases = {}, ![i].monitor = "off",
                            ![i].callback = FALSE]

\* A step of a call that changes only where it is, and what its frame leaves out.
At(c, from)     == pc[c] = from /\ UNCHANGED <<calls, lifeVars, diskVars>>
Goes(c, to)     == pc' = [pc EXCEPT ![c] = to] /\ UNCHANGED call
Ends(c)         == /\ pc' = [pc EXCEPT ![c] = "idle"]
                   /\ call' = [call EXCEPT ![c] = NoCall]
OnlyGateChanges == UNCHANGED <<running, stopping, begun, att, trusted>>
OnlyAttChanges  == UNCHANGED <<gate, running, stopping, begun, trusted>>

-----------------------------------------------------------------------------
(* The runtime takes a request, and GetSessionAsync waits for the gate.    *)

Begin(c) ==
  /\ pc[c] = "idle" /\ calls[c] < MaxCalls /\ ~runtimeDisposed
  /\ pc' = [pc EXCEPT ![c] = "enter"] /\ calls' = [calls EXCEPT ![c] = @ + 1]
  /\ UNCHANGED <<call, lifeVars, diskVars, sessionVars>>

\* Disposed, or cancelled before the gate is free.
EnterRefused(c) == At(c, "enter") /\ Ends(c) /\ UNCHANGED sessionVars

\* Mutant: the session is looked at without the gate.
TakeGateAlways(c) ==
  /\ At(c, "enter") /\ ~disposing
  /\ gate' = c /\ Goes(c, "load") /\ OnlyGateChanges

TakeGate(c) ==
  /\ At(c, "enter") /\ gate = Free /\ ~disposing
  /\ gate' = c /\ Goes(c, "load") /\ OnlyGateChanges

\* finally { _gate.Release(); } on a path that owns nothing.
LeaveGate(c) == gate' = Free /\ Ends(c) /\ OnlyGateChanges

\* Unreadable or invalid settings, or a cancelled token.
LoadFails(c) == At(c, "load") /\ LeaveGate(c)

Load(c) ==
  /\ At(c, "load") /\ ~SessionCancelled
  /\ pc' = [pc EXCEPT ![c] = IF disk = NoSettings THEN "stop" ELSE "check"]
  /\ call' = [call EXCEPT ![c].want = disk] /\ UNCHANGED sessionVars

\* Mutant: the settings are not compared.
ReusableIfAlive(c) == running # None /\ IsValid(running) /\ PortOwned(running)

\* The session the provider has fits the settings and looks alive.
Reusable(c) ==
  /\ running # None /\ att[running].settings = call[c].want
  /\ IsValid(running) /\ PortOwned(running)

Check(c) ==
  /\ At(c, "check") /\ Goes(c, IF Reusable(c) THEN "probe" ELSE "stop")
  /\ UNCHANGED sessionVars

\* The caller leaves with the session: a status is answered, a stream goes on.
Return(c, i) ==
  /\ gate' = Free
  /\ \/ Ends(c)
     \/ /\ pc' = [pc EXCEPT ![c] = "lookup"]
        /\ call' = [call EXCEPT ![c].got = i]

Probe(c) ==
  /\ At(c, "probe") /\ OnlyGateChanges
  /\ \/ Reusable(c) /\ Return(c, running)
     \/ Goes(c, "stop") /\ UNCHANGED gate
     \/ Ends(c) /\ gate' = Free

-----------------------------------------------------------------------------
(* StopRunningSessionAsync, of a caller or of the disposal.                *)

StopRunning ==
  /\ running' = None /\ stopping' = running
  /\ trusted' = trusted \ {running}
  /\ att' = IF running = None THEN att ELSE Killed(att, running)
  /\ UNCHANGED <<gate, begun>>

\* The bounded wait for the exit is over, whether or not the process is gone.
Stopped ==
  /\ stopping' = None
  /\ att' = IF stopping = None THEN att ELSE NoLeases(att, stopping)
  /\ UNCHANGED <<running, begun, trusted>>

Stop(c) == At(c, "stop") /\ Goes(c, "stopping") /\ StopRunning

StopEnds(c) ==
  /\ At(c, "stopping") /\ Stopped
  /\ \/ call[c].want = NoSettings /\ Ends(c) /\ gate' = Free
     \/ call[c].want # NoSettings /\ Goes(c, "model") /\ UNCHANGED gate

-----------------------------------------------------------------------------
(* AcquireArtifactsAsync and StartAsync, of the attempt "begun".           *)

AcquireModel(c) ==
  /\ At(c, "model")
  /\ \/ /\ begun < MaxAttempts /\ Goes(c, "runtime") /\ begun' = begun + 1
        /\ att' = [ModelLeased(att, begun + 1)
                    EXCEPT ![begun + 1].settings = call[c].want]
        /\ UNCHANGED <<gate, running, stopping, trusted>>
     \/ LeaveGate(c)

\* Mutant: the model's lease is forgotten when the runtime's is refused.
AcquireRuntimeOnly(c) ==
  /\ At(c, "runtime") /\ UNCHANGED <<running, stopping, begun, trusted>>
  /\ \/ /\ Goes(c, "start") /\ UNCHANGED gate
        /\ att' = RuntimeLeased(att, begun)
     \/ Ends(c) /\ gate' = Free /\ UNCHANGED att

AcquireRuntime(c) ==
  /\ At(c, "runtime") /\ UNCHANGED <<running, stopping, begun, trusted>>
  /\ \/ /\ Goes(c, "start") /\ UNCHANGED gate
        /\ att' = RuntimeLeased(att, begun)
     \/ Ends(c) /\ gate' = Free /\ att' = NoLeases(att, begun)

\* The key file is written and the process is started, or one of them fails.
StartAttempt(c) ==
  /\ At(c, "start") /\ OnlyAttChanges
  /\ \/ /\ ~SessionCancelled /\ Goes(c, "launched")
        /\ att' = Started(KeyWritten(att, begun), begun)
     \/ Goes(c, "cleanup") /\ att' \in {att, KeyWritten(att, begun)}

\* Mutant: a change before the registration is not made up for.
RegisterCallbackOnly(a, i) == [a EXCEPT ![i].callback = TRUE]

\* The callback is registered, and run at once when the tree has changed.
RegisterCallback(a, i) ==
  LET b == [a EXCEPT ![i].callback = TRUE]
  IN IF a[i].monitor # "watching" THEN Killed(b, i) ELSE b

RegisterCallbacks(c) ==
  /\ At(c, "launched") /\ OnlyAttChanges
  /\ att' = RegisterCallback(att, begun)
  /\ Goes(c, IF Alive(begun) /\ IsValid(begun) THEN "health" ELSE "cleanup")

Healthy(c) ==
  At(c, "health") /\ PortOwned(begun) /\ Goes(c, "publish") /\ UNCHANGED sessionVars

\* Mutant: no deadline for the start.
NotHealthyIfGone(c) ==
  /\ At(c, "health") /\ (~Alive(begun) \/ SessionCancelled)
  /\ Goes(c, "cleanup") /\ UNCHANGED sessionVars

\* The process is gone, 90 seconds have passed, or the call is cancelled.
NotHealthy(c) == At(c, "health") /\ Goes(c, "cleanup") /\ UNCHANGED sessionVars

Publish(c) ==
  /\ At(c, "publish") /\ Alive(begun)
  /\ att' = KeyDeleted(att, begun)
  /\ trusted' = trusted \cup {begun} /\ running' = begun
  /\ Return(c, begun) /\ UNCHANGED <<stopping, begun>>

\* The process is gone, or its key file cannot be deleted.
PublishFails(c) == At(c, "publish") /\ Goes(c, "cleanup") /\ UNCHANGED sessionVars

\* finally: the process this attempt started is told to go ...
Cleanup(c) ==
  /\ At(c, "cleanup") /\ Goes(c, "cleanup_files")
  /\ att' = Killed(att, begun) /\ OnlyAttChanges

\* ... then the key file, if it can be deleted, and the leases.
CleanupFiles(c) ==
  /\ At(c, "cleanup_files") /\ gate' = Free /\ Ends(c)
  /\ LET a == NoLeases(att, begun)
     IN \/ att' = KeyDeleted(a, begun)
        \/ att[begun].key = "there" /\ att' = [a EXCEPT ![begun].key = "stuck"]
  /\ UNCHANGED <<running, stopping, begun, trusted>>

-----------------------------------------------------------------------------
(* The request of a stream: the port is looked up in the registry, and the *)
(* connection is used only when its other end is the registered process.   *)

Session(c) == call[c].got

Lookup(c) ==
  At(c, "lookup") /\ Session(c) \in trusted /\ Goes(c, "connect") /\ UNCHANGED sessionVars

\* Mutant: whoever listens on a registered port is trusted.
VerifiedByPort(i) == TRUE

\* Twenty-five looks at the table of connections find the registered owner.
Verified(i) == att[i].port = "server"

Connect(c) ==
  /\ At(c, "connect") /\ att[Session(c)].port # "none" /\ Verified(Session(c))
  /\ pc' = [pc EXCEPT ![c] = "sending"]
  /\ call' = [call EXCEPT ![c].peer = att[Session(c)].port]
  /\ UNCHANGED sessionVars

\* The response headers name an event stream.
Answered(c) ==
  At(c, "sending") /\ Alive(Session(c)) /\ Goes(c, "streaming") /\ UNCHANGED sessionVars

\* [DONE] after what the server sent; or no registered port, no connection, no
\* trusted peer, an error of the server, a truncated or a silent stream; or the
\* token of the call.
RequestEnds(c, from) == At(c, from) /\ Ends(c) /\ UNCHANGED sessionVars
RequestFails(c) ==
  \/ Session(c) \notin trusted /\ RequestEnds(c, "lookup")
  \/ RequestEnds(c, "connect") \/ RequestEnds(c, "sending")
StreamEnds(c) == RequestEnds(c, "streaming")
\* Mutant: SendAsync is not given the token.
RequestCancelledButSend(c) ==
  runtimeDisposed /\ \E from \in RequestSteps \ {"sending"} : RequestEnds(c, from)
RequestCancelled(c) ==
  runtimeDisposed /\ \E from \in RequestSteps : RequestEnds(c, from)

-----------------------------------------------------------------------------
(* Disposal.                                                               *)

\* The container disposes of the runtime before the provider it was given.
DisposeRuntime ==
  /\ ~runtimeDisposed /\ runtimeDisposed' = TRUE
  /\ UNCHANGED <<callVars, diskVars, sessionVars, disposing, disposer>>

DisposeAsync ==
  /\ runtimeDisposed /\ ~disposing /\ disposing' = TRUE /\ disposer' = "gate"
  /\ UNCHANGED <<callVars, diskVars, sessionVars, runtimeDisposed>>

Disposes(from, to) ==
  /\ disposer = from /\ disposer' = to
  /\ UNCHANGED <<callVars, diskVars, runtimeDisposed, disposing>>

DisposeTakesGate ==
  Disposes("gate", "stop") /\ gate = Free /\ gate' = Disposer /\ OnlyGateChanges
DisposeStops == Disposes("stop", "stopping") /\ StopRunning
DisposeEnds  == Disposes("stopping", "done") /\ Stopped /\ gate' = Free

-----------------------------------------------------------------------------
(* What happens around the provider.                                       *)

World(a) == att' = a /\ OnlyAttChanges /\ UNCHANGED <<callVars, lifeVars, diskVars>>

EditSettings ==
  /\ edits < MaxEdits /\ edits' = edits + 1
  /\ disk' \in (Settings \cup {NoSettings}) \ {disk}
  /\ UNCHANGED <<callVars, lifeVars, sessionVars>>

ServerListens(i) ==
  Alive(i) /\ att[i].port = "none" /\ World([att EXCEPT ![i].port = "server"])

\* A crash, or the end of a kill: the process and its listener are gone.
ServerExits(i) ==
  /\ att[i].server \in {"up", "killed"}
  /\ World([att EXCEPT ![i].server = "gone",
                       ![i].port = IF @ = "server" THEN "none" ELSE @])

\* Another program of the machine takes a port nobody listens on; who takes one
\* that is neither trusted nor waited for makes no difference.
StrangerListens(i) ==
  /\ att[i].port = "none" /\ (i \in trusted \/ Alive(i))
  /\ World([att EXCEPT ![i].port = "stranger"])

\* Invalidate: the flag is set, then the callback is read and run.
TreeChanges(i) ==
  /\ att[i].monitor = "watching" /\ i # stopping
  /\ World([att EXCEPT ![i].monitor = "changed"])

Invalidate(i) ==
  /\ att[i].monitor = "changed"
  /\ LET b == [att EXCEPT ![i].monitor = "handled"]
     IN World(IF att[i].callback THEN Killed(b, i) ELSE b)

-----------------------------------------------------------------------------
GetSessionAsync(c) ==
  \/ EnterRefused(c) \/ TakeGate(c) \/ LoadFails(c) \/ Load(c) \/ Check(c)
  \/ Probe(c) \/ Stop(c) \/ StopEnds(c) \/ AcquireModel(c) \/ AcquireRuntime(c)
  \/ StartAttempt(c) \/ RegisterCallbacks(c) \/ Healthy(c) \/ NotHealthy(c)
  \/ Publish(c) \/ PublishFails(c) \/ Cleanup(c) \/ CleanupFiles(c)

StreamAsync(c) ==
  \/ Lookup(c) \/ Connect(c) \/ Answered(c) \/ RequestFails(c)
  \/ StreamEnds(c) \/ RequestCancelled(c)

Disposal == DisposeTakesGate \/ DisposeStops \/ DisposeEnds

Environment ==
  \/ EditSettings
  \/ \E i \in Attempts : ServerListens(i) \/ ServerExits(i) \/ StrangerListens(i)
                           \/ TreeChanges(i) \/ Invalidate(i)

Next ==
  \/ \E c \in Callers : Begin(c) \/ GetSessionAsync(c) \/ StreamAsync(c)
  \/ DisposeRuntime \/ DisposeAsync \/ Disposal \/ Environment

(* Every await inside the gate is bounded: reading and hashing files, two  *)
(* seconds for a probe, 90 for the start, half a second for an exit.  A    *)
(* request whose headers never come is not: only its token ends it.        *)
Fairness ==
  /\ \A c \in Callers : WF_vars(GetSessionAsync(c)) /\ WF_vars(RequestCancelled(c))
  /\ WF_vars(Disposal)

Spec == Init /\ [][Next]_vars /\ Fairness

-----------------------------------------------------------------------------
(* Properties.                                                             *)

\* The values every variable may take.
TypeOK ==
  /\ disk \in Settings \cup {NoSettings} /\ edits \in 0 .. MaxEdits
  /\ gate \in Callers \cup {Disposer, Free}
  /\ {running, stopping, begun} \subseteq 0 .. MaxAttempts
  /\ att \in [Attempts ->
       [server : {"none", "up", "killed", "gone"},
        port : {"none", "server", "stranger"}, leases : SUBSET {"model", "runtime"},
        monitor : {"off", "watching", "changed", "handled"}, callback : BOOLEAN,
        key : {"none", "there", "stuck"}, settings : Settings \cup {NoSettings}]]
  /\ trusted \subseteq Attempts
  /\ pc \in [Callers -> {"idle", "enter"} \cup GateSteps \cup RequestSteps]
  /\ call \in [Callers ->
       [want : Settings \cup {NoSettings}, got : 0 .. MaxAttempts, peer : {"none", "server", "stranger"}]]
  /\ calls \in [Callers -> 0 .. MaxCalls]
  /\ runtimeDisposed \in BOOLEAN /\ disposing \in BOOLEAN
  /\ disposer \in {"idle", "gate", "stop", "stopping", "done"}

\* Two servers never run side by side, however calls, edits of the settings
\* and failed starts interleave: the one before was told to go first
\* (StopRunningSessionAsync before AcquireArtifactsAsync, finally of StartAsync).
OneServer == Cardinality({i \in Attempts : Alive(i)}) <= 1

\* Once the gate is open, whatever a call left behind belongs to the session
\* the provider keeps: no process, lease or trusted port of a start that
\* failed, was cancelled or was replaced, and no key file except one the
\* system refused to delete.
NothingLeftBehind ==
  gate = Free =>
    /\ stopping = None /\ trusted \subseteq {running}
    /\ \A i \in Attempts : /\ i # running => ~Alive(i) /\ att[i].leases = {}
                           /\ att[i].key # "there"

\* A prompt and its key go to the process the provider started and to no other
\* listener of the port, even when that process is gone and its port taken
\* (ConnectVerifiedLoopbackAsync).
PromptsReachOwnServer ==
  \A c \in Callers : pc[c] \in {"sending", "streaming"} => call[c].peer = "server"

\* The session a caller was given is one for the settings it loaded, whatever
\* server was running and whatever became of the file since (SameConfiguration).
SessionFitsSettings ==
  \A c \in Callers : Session(c) # None => att[Session(c)].settings = call[c].want

\* A server whose runtime directory changed while it starts or runs is told to
\* go, whichever of the watcher's callback and its registration comes first.
ChangedRuntimeIsKilled ==
  \A i \in Attempts : att[i].monitor = "handled" /\ att[i].callback => ~Alive(i)

\* No call keeps the gate for good, nor waits for it for good.
SessionCallsEnd ==
  \A c \in Callers : (pc[c] \in GateSteps \cup {"enter"})
                        ~> (pc[c] \in RequestSteps \cup {"idle"})

\* Disposal returns, every call has ended or ends, and no server is left.
DisposalEnds ==
  disposing ~> (disposer = "done" /\ (\A i \in Attempts : ~Alive(i))
                  /\ \A c \in Callers : pc[c] = "idle")

\* The provider owns at most one server, and none that it gave up or whose
\* runtime changed.
ServersAreOwned == OneServer /\ NothingLeftBehind /\ ChangedRuntimeIsKilled

\* A caller talks to a server the provider started, for the settings it loaded.
CallersReachTheirs == PromptsReachOwnServer /\ SessionFitsSettings

\* Calls end, and so does the disposal with everything it finds.
CallsAndDisposalEnd == SessionCallsEnd /\ DisposalEnds
=============================================================================
