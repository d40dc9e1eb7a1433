---------------------------- MODULE McpSession ----------------------------
\* The tool session between ChatHost and the application it belongs to:
\* SameInstanceMcpClient.cs on one side, mcp::Server and its
\* ApprovalGrantBroker (McpServer.cpp) on the other, and between them the
\* requests that worker threads of the server still carry when the client has
\* given up on them.  One client lives here, from its first GetToolsAsync to
\* its DisposeAsync; the coordinator gives it one tool call at a time.
\*
\* A call stands for a tool name with its arguments: two calls differ in both.
\* A grant is unguessable and belongs to one call, which names it here.
\* Time is three facts: a request is given up (30 s), a grant is stale (30 s),
\* a session has been idle (30 min).
EXTENDS Naturals

CONSTANTS Reads,        \* calls of tools with readOnlyHint
          Mutations,    \* calls of the others
          MaxFaults,    \* connections refused or broken, requests given up
          MaxExpiries,  \* times the user is away for half an hour
          MaxCancels,   \* turns the user stops
          MaxRestarts   \* times the MCP server is stopped

Calls == Reads \union Mutations

ASSUME CallsAssumption == Calls # {} /\ Reads \intersect Mutations = {}
ASSUME BoundsAssumption ==
  MaxFaults \in Nat /\ MaxExpiries \in Nat /\ MaxCancels \in Nat /\ MaxRestarts \in Nat

VARIABLES
  client,    \* the fields of the client and the operation that holds its gate
  used,      \* _usedApprovalGrantHashes
  calls,     \* what the coordinator knows of each call
  workers,   \* requests the server has not finished, or whose answer is unread
  server,    \* m_running and m_stopRequested, with the number of starts
  sessions,  \* m_sessions: the sessions not yet and already initialized
  grants,    \* m_records of the broker
  runs,      \* history: how often each call has run, and under which start
  bounds     \* what is left of the bounds

vars == <<client, used, calls, workers, server, sessions, grants, runs, bounds>>

NoSession == 0

Methods == {"initialize", "notifications/initialized", "tools/list", "ping",
            "tools/call", "DELETE"}

Active == {"connect", "bind", "call"}
Waiting == client.waits
Listening == server.is \in {"up", "stopping"}
Heard == {w \in workers : w.heard}
Working == {w \in workers : w.at # "answered"}

\* The coordinator runs the calls of a turn one after the other.
Busy == {c \in Calls : calls[c].state \in {"binding", "asking", "allowed", "calling"}}

---------------------------------------------------------------------------
\* The client's operations end here.

\* A call is over, and the coordinator has its code.
Over(c, code) == [calls EXCEPT ![c].state = "over", ![c].code = code]

\* The gate is released; the session and the tools stay as they are.
Released == [client EXCEPT !.op = "idle", !.waits = FALSE, !.greets = FALSE, !.attempt = 0]

\* The operation throws.  When the first GetToolsAsync does, the coordinator
\* disposes the client.
Fails(code) ==
  IF client.op = "connect"
  THEN client' = [Released EXCEPT !.disposed = TRUE] /\ UNCHANGED calls
  ELSE client' = Released /\ calls' = Over(client.call, code)

\* ResetSession, and the operation runs from its start again.
Again == [client EXCEPT !.sid = NoSession, !.tools = FALSE, !.waits = FALSE,
                        !.greets = FALSE, !.attempt = 1]

\* A 404 for a request with a session.  GetToolsAsync and
\* CreateApprovalBindingAsync start once more; CallToolAsync does so for a read,
\* and only when the 404 answers the tool call itself.
Recovers(method) ==
  \/ client.op \in {"connect", "bind"} /\ client.attempt = 0
  \/ client.op = "call" /\ method = "tools/call" /\ client.call \in Reads /\ client.attempt = 0

SessionExpired(method) ==
  IF Recovers(method) THEN client' = Again /\ UNCHANGED calls
  ELSE IF method = "tools/call"
  THEN /\ client' = [Released EXCEPT !.sid = NoSession, !.tools = FALSE]
       /\ calls' = Over(client.call, "expired")
  ELSE Fails("expired")

---------------------------------------------------------------------------
Init ==
  /\ client = [op |-> "connect", call |-> CHOOSE c \in Calls : TRUE, attempt |-> 0,
               waits |-> FALSE, greets |-> FALSE, sid |-> NoSession, tools |-> FALSE,
               disposed |-> FALSE]
  /\ used = {}
  /\ calls = [c \in Calls |-> [state |-> "new", code |-> "none", bound |-> NoSession, start |-> 0]]
  /\ workers = {}
  /\ server = [is |-> "up", start |-> 1]
  /\ sessions = [new |-> {}, ready |-> {}, born |-> 0]
  /\ grants = {}
  /\ runs = [c \in Calls |-> [times |-> 0, start |-> 0]]
  /\ bounds = [faults |-> MaxFaults, expiries |-> MaxExpiries, cancels |-> MaxCancels,
               restarts |-> MaxRestarts]

Costs(bound) == bounds[bound] > 0 /\ bounds' = [bounds EXCEPT ![bound] = @ - 1]

---------------------------------------------------------------------------
\* The coordinator.

\* A read goes straight to CallToolAsync, a mutation to CreateApprovalBindingAsync.
StartCall(c) ==
  /\ client.op = "idle" /\ ~client.disposed /\ Busy = {} /\ calls[c].state = "new"
  /\ client' = [client EXCEPT !.op = IF c \in Reads THEN "call" ELSE "bind", !.call = c]
  /\ calls' = [calls EXCEPT ![c].state = IF c \in Reads THEN "calling" ELSE "binding"]
  /\ UNCHANGED <<used, workers, server, sessions, grants, runs, bounds>>

\* The approval card's Allow: Issue drops what is stale and records a grant.
Issue(c) ==
  /\ calls[c].state = "asking"
  /\ grants' = {g \in grants : g.fresh}
                 \union {[call |-> c, session |-> calls[c].bound, fresh |-> TRUE]}
  /\ calls' = [calls EXCEPT ![c].state = "allowed", ![c].start = server.start]
  /\ UNCHANGED <<client, used, workers, server, sessions, runs, bounds>>

\* Deny, or an Allow that could not be issued or sent.
Deny(c) ==
  /\ calls[c].state = "asking" /\ calls' = Over(c, "denied")
  /\ UNCHANGED <<client, used, workers, server, sessions, grants, runs, bounds>>

\* The grant has reached ChatHost.
CallApproved(c) ==
  /\ calls[c].state = "allowed" /\ client.op = "idle" /\ ~client.disposed
  /\ calls' = [calls EXCEPT ![c].state = "calling"]
  /\ client' = [client EXCEPT !.op = "call", !.call = c]
  /\ UNCHANGED <<used, workers, server, sessions, grants, runs, bounds>>

\* The client listens to no request any more.
Unheard == {[w EXCEPT !.heard = FALSE] : w \in Working}

\* The turn is stopped: the call's token is cancelled wherever the call is.
CancelTurn(c) ==
  /\ c \in Busy /\ Costs("cancels")
  /\ client' = IF client.op \in {"bind", "call"} THEN Released ELSE client
  /\ calls' = Over(c, "cancelled") /\ workers' = Unheard
  /\ UNCHANGED <<used, server, sessions, grants, runs>>

---------------------------------------------------------------------------
\* The client's requests.

\* EnsureInitializedAsync, EnsureToolsLoadedAsync, and then the operation's own.
NextMethod ==
  CASE client.sid = NoSession -> "initialize"
    [] client.greets -> "notifications/initialized"
    [] ~client.tools -> "tools/list"
    [] client.op = "bind" -> "ping"
    [] OTHER -> "tools/call"

Request(method) ==
  [method |-> method, sid |-> IF method = "initialize" THEN NoSession ELSE client.sid,
   call |-> client.call, at |-> "sent", ready |-> FALSE, reply |-> "none", heard |-> TRUE]

Sends(method) ==
  /\ Listening
  /\ workers' = workers \union {Request(method)}
  /\ client' = [client EXCEPT !.waits = TRUE]
  /\ UNCHANGED calls

\* A mutation's grant is tried once by this client: what it used more than a
\* minute ago may be forgotten, the grant is stale by then.
SendRequest ==
  /\ client.op \in Active /\ ~Waiting /\ ~client.disposed
  /\ IF NextMethod = "tools/call" /\ client.call \in Mutations
     THEN \E kept \in SUBSET used :
            /\ {g.call : g \in {h \in grants : h.fresh}} \intersect used \subseteq kept
            /\ used' = kept \union {client.call}
            /\ IF client.call \in kept
               THEN Fails("reused") /\ UNCHANGED workers
               ELSE Sends(NextMethod)
     ELSE Sends(NextMethod) /\ UNCHANGED used
  /\ UNCHANGED <<server, sessions, grants, runs, bounds>>

\* Nobody listens, or the connection breaks before an answer.
Cut == IF Waiting THEN Heard = {} ELSE ~Listening

\* Mutant: a broken connection counts as a session that expired.
ConnectionFailsAsExpired ==
  /\ client.op \in Active
  /\ IF Cut THEN UNCHANGED bounds ELSE Costs("faults")
  /\ SessionExpired("tools/call") /\ workers' = Unheard
  /\ UNCHANGED <<used, server, sessions, grants, runs>>

ConnectionFails ==
  /\ client.op \in Active
  /\ IF Cut THEN UNCHANGED bounds ELSE Costs("faults")
  /\ Fails("lost") /\ workers' = Unheard
  /\ UNCHANGED <<used, server, sessions, grants, runs>>

\* Mutant: a read that timed out is sent once more.
RequestTimesOutThenRetries ==
  /\ client.op \in Active /\ Waiting /\ ~client.disposed
  /\ ~\E w \in Heard : w.at = "answered"
  /\ IF client.op = "call" /\ client.call \in Reads /\ client.attempt = 0
     THEN client' = Again /\ UNCHANGED calls
     ELSE Fails("timeout")
  /\ workers' = Unheard
  /\ UNCHANGED <<used, server, sessions, grants, runs, bounds>>

\* Thirty seconds without an answer, or DisposeAsync has cancelled the lifetime:
\* both are the code "timeout".
RequestTimesOut ==
  /\ client.op \in Active /\ Waiting /\ ~client.disposed
  /\ ~\E w \in Heard : w.at = "answered"
  /\ Fails("timeout") /\ workers' = Unheard
  /\ UNCHANGED <<used, server, sessions, grants, runs, bounds>>

LifetimeEnds ==
  /\ client.op \in Active /\ client.disposed
  /\ Fails("timeout") /\ workers' = Unheard
  /\ UNCHANGED <<used, server, sessions, grants, runs, bounds>>

\* What a good answer changes in the client.
Accepts(w) ==
  CASE w.method = "initialize" ->
         client' = [client EXCEPT !.waits = FALSE, !.sid = w.sid, !.greets = TRUE] /\ UNCHANGED calls
    [] w.method = "notifications/initialized" ->
         client' = [client EXCEPT !.waits = FALSE, !.greets = FALSE] /\ UNCHANGED calls
    [] w.method = "tools/list" ->
         /\ client' = IF client.op = "connect" THEN [Released EXCEPT !.tools = TRUE]
                      ELSE [client EXCEPT !.waits = FALSE, !.tools = TRUE]
         /\ UNCHANGED calls
    [] w.method = "ping" ->
         /\ client' = Released
         /\ calls' = [calls EXCEPT ![client.call].state = "asking", ![client.call].bound = client.sid]
    [] OTHER -> client' = Released /\ calls' = Over(client.call, w.reply)

Receive ==
  \E w \in Heard :
    /\ client.op \in Active /\ w.at = "answered"
    /\ workers' = workers \ {w}
    /\ IF w.reply = "404" THEN SessionExpired(w.method) ELSE Accepts(w)
    /\ UNCHANGED <<used, server, sessions, grants, runs, bounds>>

---------------------------------------------------------------------------
\* DisposeAsync: the lifetime is cancelled, then the gate is taken, and the
\* session is deleted if that takes no more than a quarter of a second.

Dispose ==
  /\ ~client.disposed
  /\ client' = [client EXCEPT !.disposed = TRUE]
  /\ UNCHANGED <<used, calls, workers, server, sessions, grants, runs, bounds>>

\* The calls the coordinator still has end with the turn.
DeleteSession ==
  /\ client.disposed /\ client.op = "idle"
  /\ calls' = [c \in Calls |-> IF c \in Busy
                               THEN [calls[c] EXCEPT !.state = "over", !.code = "cancelled"]
                               ELSE calls[c]]
  /\ \/ /\ client.sid # NoSession /\ Listening
        /\ client' = [client EXCEPT !.op = "closing", !.waits = TRUE]
        /\ workers' = workers \union {Request("DELETE")}
     \/ /\ client.sid = NoSession \/ ~Listening
        /\ client' = [client EXCEPT !.op = "closing"] /\ UNCHANGED workers
  /\ UNCHANGED <<used, server, sessions, grants, runs, bounds>>

DeleteEnds ==
  /\ client.op = "closing"
  /\ ~Waiting \/ Heard = {} \/ \E w \in Heard : w.at = "answered"
  /\ client' = [client EXCEPT !.op = "gone", !.waits = FALSE, !.sid = NoSession, !.tools = FALSE]
  /\ used' = {} /\ workers' = Unheard
  /\ UNCHANGED <<calls, server, sessions, grants, runs, bounds>>

\* Mutant: the DELETE is waited for.
DeleteNeverTimesOut == FALSE /\ UNCHANGED vars

DeleteTimesOut ==
  /\ client.op = "closing" /\ Waiting
  /\ client' = [client EXCEPT !.op = "gone", !.waits = FALSE, !.sid = NoSession, !.tools = FALSE]
  /\ used' = {} /\ workers' = Unheard
  /\ UNCHANGED <<calls, server, sessions, grants, runs, bounds>>

---------------------------------------------------------------------------
\* The server: a worker thread for each request.

Live == sessions.new \union sessions.ready

\* An answer nobody waits for is dropped with its worker.
Goes(w, to) ==
  workers' = (workers \ {w}) \union (IF to.at = "answered" /\ ~to.heard THEN {} ELSE {to})
Answered(w, reply) == [w EXCEPT !.at = "answered", !.reply = reply]

\* HandleInitialize: a new session, not initialized.
HandleInitialize(w) ==
  /\ w.at = "sent" /\ w.method = "initialize"
  /\ sessions' = [sessions EXCEPT !.born = @ + 1, !.new = @ \union {sessions.born + 1}]
  /\ Goes(w, [Answered(w, "ok") EXCEPT !.sid = sessions.born + 1])
  /\ UNCHANGED <<client, used, calls, server, grants, runs, bounds>>

HandleDeleteSession(w) ==
  /\ w.at = "sent" /\ w.method = "DELETE"
  /\ sessions' = [sessions EXCEPT !.new = @ \ {w.sid}, !.ready = @ \ {w.sid}]
  /\ Goes(w, Answered(w, IF w.sid \in Live THEN "ok" ELSE "404"))
  /\ UNCHANGED <<client, used, calls, server, grants, runs, bounds>>

\* ResolveSession: an unknown session is a 404 before anything else is looked at.
ResolveSession(w) ==
  /\ w.at = "sent" /\ w.method \notin {"initialize", "DELETE"}
  /\ Goes(w, IF w.sid \notin Live THEN Answered(w, "404")
             ELSE IF w.method \in {"tools/list", "ping"} THEN Answered(w, "ok")
             ELSE [w EXCEPT !.at = "resolved", !.ready = w.sid \in sessions.ready])
  /\ UNCHANGED <<client, used, calls, server, sessions, grants, runs, bounds>>

\* MarkSessionInitialized takes the mutex again; the answer is 202 either way.
MarkSessionInitialized(w) ==
  /\ w.at = "resolved" /\ w.method = "notifications/initialized"
  /\ sessions' = IF w.sid \in Live
                 THEN [sessions EXCEPT !.new = @ \ {w.sid}, !.ready = @ \union {w.sid}]
                 ELSE sessions
  /\ Goes(w, Answered(w, "ok"))
  /\ UNCHANGED <<client, used, calls, server, grants, runs, bounds>>

\* Consume: the record goes first, then it is compared.  In a session that is
\* not initialized the broker is not asked at all.
Matches(g, w) == g.call = w.call

Pays(g, w) == Matches(g, w) /\ g.fresh /\ g.session = w.sid

Consume(w) ==
  LET found == {g \in grants : w.ready /\ Matches(g, w)}
  IN /\ w.at = "resolved" /\ w.method = "tools/call" /\ w.call \in Mutations
     /\ grants' = grants \ found
     /\ Goes(w, IF \E g \in found : Pays(g, w) THEN [w EXCEPT !.at = "authorized"]
                ELSE Answered(w, "refused"))
     /\ UNCHANGED <<client, used, calls, server, sessions, runs, bounds>>

MayRun(w) ==
  /\ w.method = "tools/call"
  /\ w.at = "authorized" \/ (w.at = "resolved" /\ w.call \in Reads)

\* CallMcpTool: the host runs the call, a mutation on the render thread, which
\* is not running commands while it stops the server.
HostRuns(w) ==
  /\ MayRun(w)
  /\ w.call \in Mutations => server.is = "up"
  /\ runs' = [runs EXCEPT ![w.call] = [times |-> @.times + 1, start |-> server.start]]
  /\ Goes(w, Answered(w, "ok"))
  /\ UNCHANGED <<client, used, calls, server, sessions, grants, bounds>>

\* The queue is full, the dispatcher stopped, or its time is over.
HostRejects(w) ==
  /\ MayRun(w) /\ Goes(w, Answered(w, "error"))
  /\ UNCHANGED <<client, used, calls, server, sessions, grants, runs, bounds>>

\* A request whose client has gone may not have been read in full; an answer
\* may not have been sent when Stop closes its socket.
WorkerEnds(w) ==
  /\ \/ w.at = "sent" /\ ~w.heard
     \/ w.at = "answered" /\ ~Listening
  /\ workers' = workers \ {w}
  /\ UNCHANGED <<client, used, calls, server, sessions, grants, runs, bounds>>

---------------------------------------------------------------------------
\* Start and Stop, on the render thread.

RevokeAll ==
  /\ server.is = "up" /\ Costs("restarts")
  /\ grants' = {} /\ server' = [server EXCEPT !.is = "stopping"]
  /\ UNCHANGED <<client, used, calls, workers, sessions, runs>>

\* m_stopRequested, and every socket is closed: the threads behind them go on.
CloseSockets ==
  /\ server.is = "stopping"
  /\ server' = [server EXCEPT !.is = "closing"]
  /\ workers' = {IF w.at = "answered" THEN w ELSE [w EXCEPT !.heard = FALSE] : w \in workers}
  /\ UNCHANGED <<client, used, calls, sessions, grants, runs, bounds>>

ClearSessions ==
  /\ server.is = "closing"
  /\ server' = [server EXCEPT !.is = "joining"]
  /\ sessions' = [sessions EXCEPT !.new = {}, !.ready = {}]
  /\ UNCHANGED <<client, used, calls, workers, grants, runs, bounds>>

\* Mutant: the worker threads are left to themselves.
JoinNoWorkers ==
  /\ server.is = "joining"
  /\ server' = [server EXCEPT !.is = "down"]
  /\ UNCHANGED <<client, used, calls, workers, sessions, grants, runs, bounds>>

JoinWorkers ==
  /\ server.is = "joining" /\ workers = {}
  /\ server' = [server EXCEPT !.is = "down"]
  /\ UNCHANGED <<client, used, calls, workers, sessions, grants, runs, bounds>>

StartServer ==
  /\ server.is = "down"
  /\ server' = [is |-> "up", start |-> server.start + 1]
  /\ sessions' = [sessions EXCEPT !.new = {}, !.ready = {}]
  /\ UNCHANGED <<client, used, calls, workers, grants, runs, bounds>>

---------------------------------------------------------------------------
\* Time.

GrantExpires(g) ==
  /\ g \in grants /\ g.fresh
  /\ grants' = (grants \ {g}) \union {[g EXCEPT !.fresh = FALSE]}
  /\ UNCHANGED <<client, used, calls, workers, server, sessions, runs, bounds>>

\* Half an hour without a request: PruneLegacySessionsLocked will drop every
\* session, and no grant is fresh.
SessionsIdle ==
  /\ Live # {} /\ Working = {} /\ ~Waiting /\ client.op = "idle" /\ Costs("expiries")
  /\ sessions' = [sessions EXCEPT !.new = {}, !.ready = {}]
  /\ grants' = {[g EXCEPT !.fresh = FALSE] : g \in grants}
  /\ UNCHANGED <<client, used, calls, workers, server, runs>>

---------------------------------------------------------------------------
ServerStep(w) ==
  \/ HandleInitialize(w) \/ HandleDeleteSession(w) \/ ResolveSession(w)
  \/ MarkSessionInitialized(w) \/ Consume(w) \/ HostRuns(w) \/ HostRejects(w) \/ WorkerEnds(w)

Next ==
  \/ \E c \in Calls : StartCall(c) \/ Issue(c) \/ Deny(c) \/ CallApproved(c) \/ CancelTurn(c)
  \/ SendRequest \/ ConnectionFails \/ RequestTimesOut \/ LifetimeEnds \/ Receive
  \/ Dispose \/ DeleteSession \/ DeleteEnds \/ DeleteTimesOut
  \/ \E w \in workers : ServerStep(w)
  \/ RevokeAll \/ CloseSockets \/ ClearSessions \/ JoinWorkers \/ StartServer
  \/ \E g \in grants : GrantExpires(g)
  \/ SessionsIdle

\* The client's own steps and its timers happen; nothing is assumed of the
\* server, whose render thread may be busy for as long as it likes.
Fairness ==
  /\ WF_vars(SendRequest) /\ WF_vars(Receive) /\ WF_vars(RequestTimesOut)
  /\ WF_vars(LifetimeEnds) /\ WF_vars(ConnectionFails /\ Cut)
  /\ WF_vars(DeleteSession) /\ WF_vars(DeleteEnds) /\ WF_vars(DeleteTimesOut)

Spec == Init /\ [][Next]_vars /\ Fairness

---------------------------------------------------------------------------
CallStates == {"new", "binding", "asking", "allowed", "calling", "over"}
Replies == {"ok", "error", "refused", "404"}
Codes == {"none", "denied", "cancelled", "expired", "reused", "lost", "timeout"} \union Replies

Client == [op : Active \union {"idle", "closing", "gone"}, call : Calls, attempt : {0, 1},
           waits : BOOLEAN, greets : BOOLEAN, sid : Nat, tools : BOOLEAN, disposed : BOOLEAN]
CallBook == [Calls -> [state : CallStates, code : Codes, bound : Nat, start : Nat]]
Worker == [method : Methods, sid : Nat, call : Calls,
           at : {"sent", "resolved", "authorized", "answered"}, ready : BOOLEAN,
           reply : {"none"} \union Replies, heard : BOOLEAN]
Grant == [call : Calls, session : Nat, fresh : BOOLEAN]

TypeOK ==
  /\ client \in Client /\ used \subseteq Calls /\ calls \in CallBook
  /\ workers \subseteq Worker /\ grants \subseteq Grant
  /\ server \in [is : {"up", "stopping", "closing", "joining", "down"}, start : Nat]
  /\ sessions \in [new : SUBSET Nat, ready : SUBSET Nat, born : Nat]
  /\ runs \in [Calls -> [times : Nat, start : Nat]]
  /\ bounds \in [faults : Nat, expiries : Nat, cancels : Nat, restarts : Nat]

\* A call runs at most once, whatever was retried, timed out, cancelled or
\* stopped around it (CallToolAsync, ResolveSession, Consume).
CallRunsOnce == \A c \in Calls : runs[c].times <= 1

\* What the coordinator is told did not happen has not happened, and does not
\* happen later: a call refused, denied, or lost with its session never runs
\* (SendAsync's 404, "approval_session_expired", "invalid_approval_grant").
RefusedNeverRuns ==
  \A c \in Calls : calls[c].code \in {"expired", "refused", "reused", "denied"} => runs[c].times = 0

\* An approval is for the server the user saw: a mutation runs only after the
\* user allowed it, and under the start of the server it was allowed under,
\* however long its worker thread was on its way (Stop joins every worker).
ApprovalDiesWithItsServer ==
  \A c \in Mutations : runs[c].times > 0 => runs[c].start = calls[c].start

\* CallToolAsync, CreateApprovalBindingAsync and DisposeAsync end, whatever the
\* server does and whoever holds the gate.
ClientOperationsEnd ==
  /\ \A c \in Calls : calls[c].state \in {"binding", "calling"}
                         ~> calls[c].state \notin {"binding", "calling"}
  /\ client.disposed ~> client.op = "gone"
==============================================================================
