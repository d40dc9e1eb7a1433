----------------------------- MODULE McpProofs ------------------------------
(***************************************************************************)
(* What McpSession promises of every call, for any set of calls and any     *)
(* number of faults, expiries, cancellations and restarts: a call runs at   *)
(* most once, what was refused has not run, and an approval dies with the   *)
(* server it was given under.  After the types, safety follows from one     *)
(* inductive invariant in six parts: which operation holds the client's     *)
(* gate, which request is listened to, what is on its way of each call,     *)
(* what its state says of that, how old a session is, and what an approval  *)
(* is bound to.                                                             *)
(***************************************************************************)
EXTENDS McpSession, TLAPS

-----------------------------------------------------------------------------
(* Types. *)

\* The client's record and the coordinator's book keep their types in every way
\* an operation can end or go on.
LEMMA ReleasedType == ASSUME TypeOK PROVE Released \in Client
  BY DEF TypeOK, Released, Client

LEMMA AgainType == ASSUME TypeOK PROVE Again \in Client
  BY DEF TypeOK, Again, Client, NoSession

LEMMA OverType ==
  ASSUME TypeOK, NEW c \in Calls, NEW code \in Codes
  PROVE  Over(c, code) \in CallBook
  <1>1. [calls[c] EXCEPT !.state = "over", !.code = code]
          \in [state : CallStates, code : Codes, bound : Nat, start : Nat]
    BY DEF TypeOK, CallBook, CallStates
  <1> QED BY <1>1 DEF TypeOK, CallBook, Over

LEMMA FailsType ==
  ASSUME TypeOK, NEW code \in Codes, Fails(code)
  PROVE  client' \in Client /\ calls' \in CallBook
  <1>1. client.call \in Calls BY DEF TypeOK, Client
  <1>2. [Released EXCEPT !.disposed = TRUE] \in Client BY ReleasedType DEF Client
  <1>3. CASE client.op = "connect"
    <2>1. client' = [Released EXCEPT !.disposed = TRUE] /\ calls' = calls BY <1>3 DEF Fails
    <2> QED BY <2>1, <1>2 DEF TypeOK
  <1>4. CASE client.op # "connect"
    <2>1. client' = Released /\ calls' = Over(client.call, code) BY <1>4 DEF Fails
    <2> QED BY <2>1, <1>1, ReleasedType, OverType
  <1> QED BY <1>3, <1>4

LEMMA ExpiredType ==
  ASSUME TypeOK, NEW method, SessionExpired(method)
  PROVE  client' \in Client /\ calls' \in CallBook
  <1>1. client.call \in Calls /\ "expired" \in Codes BY DEF TypeOK, Client, Codes
  <1>2. [Released EXCEPT !.sid = NoSession, !.tools = FALSE] \in Client
    BY ReleasedType DEF Client, NoSession
  <1> QED BY <1>1, <1>2, ReleasedType, OverType, AgainType, FailsType DEF SessionExpired, TypeOK

LEMMA UnheardType == ASSUME TypeOK PROVE Unheard \subseteq Worker
  <1>1. \A w \in Worker : [w EXCEPT !.heard = FALSE] \in Worker BY DEF Worker
  <1> QED BY <1>1 DEF TypeOK, Unheard, Working

LEMMA RequestType == ASSUME TypeOK, NEW m \in Methods PROVE Request(m) \in Worker
  BY DEF TypeOK, Request, Worker, Client, NoSession

LEMMA CostsType ==
  ASSUME TypeOK, NEW b \in {"faults", "expiries", "cancels", "restarts"}, Costs(b)
  PROVE  bounds' \in [faults : Nat, expiries : Nat, cancels : Nat, restarts : Nat]
  BY DEF TypeOK, Costs

\* The coordinator and the client.
LEMMA CoordinatorType ==
  ASSUME TypeOK, NEW c \in Calls,
         StartCall(c) \/ Issue(c) \/ Deny(c) \/ CallApproved(c) \/ CancelTurn(c)
  PROVE  TypeOK'
  <1>0. \A st \in CallStates : [calls[c] EXCEPT !.state = st]
          \in [state : CallStates, code : Codes, bound : Nat, start : Nat]
    BY DEF TypeOK, CallBook
  <1>1. CASE StartCall(c)
    <2>1. client' \in Client BY <1>1 DEF StartCall, TypeOK, Client, Active
    <2>2. calls' \in CallBook BY <1>0, <1>1 DEF StartCall, TypeOK, CallBook, CallStates
    <2> QED BY <1>1, <2>1, <2>2 DEF StartCall, TypeOK
  <1>2. CASE Issue(c)
    <2>1. [call |-> c, session |-> calls[c].bound, fresh |-> TRUE] \in Grant
      BY DEF TypeOK, CallBook, Grant
    <2>2. [calls[c] EXCEPT !.state = "allowed", !.start = server.start]
            \in [state : CallStates, code : Codes, bound : Nat, start : Nat]
      BY DEF TypeOK, CallBook, CallStates
    <2>3. calls' = [calls EXCEPT ![c] = [calls[c] EXCEPT !.state = "allowed", !.start = server.start]]
      BY <1>2 DEF Issue, TypeOK, CallBook
    <2>4. calls' \in CallBook BY <2>2, <2>3 DEF TypeOK, CallBook
    <2>5. grants' \subseteq Grant BY <1>2, <2>1 DEF Issue, TypeOK
    <2> QED BY <1>2, <2>4, <2>5 DEF Issue, TypeOK
  <1>3. CASE Deny(c)
    BY <1>3, OverType DEF Deny, TypeOK, Codes
  <1>4. CASE CallApproved(c)
    <2>1. client' \in Client BY <1>4 DEF CallApproved, TypeOK, Client, Active
    <2>2. calls' \in CallBook BY <1>0, <1>4 DEF CallApproved, TypeOK, CallBook, CallStates
    <2> QED BY <1>4, <2>1, <2>2 DEF CallApproved, TypeOK
  <1>5. CASE CancelTurn(c)
    <2>1. client' \in Client BY <1>5, ReleasedType DEF CancelTurn, TypeOK
    <2>2. calls' \in CallBook BY <1>5, OverType DEF CancelTurn, Codes
    <2>3. bounds' \in [faults : Nat, expiries : Nat, cancels : Nat, restarts : Nat]
      BY <1>5, CostsType DEF CancelTurn
    <2> QED BY <1>5, <2>1, <2>2, <2>3, UnheardType DEF CancelTurn, TypeOK
  <1> QED BY <1>1, <1>2, <1>3, <1>4, <1>5

LEMMA SendsType ==
  ASSUME TypeOK, NEW m \in Methods, Sends(m)
  PROVE  client' \in Client /\ calls' \in CallBook /\ workers' \subseteq Worker
  <1>1. [client EXCEPT !.waits = TRUE] \in Client BY DEF TypeOK, Client
  <1> QED BY <1>1, RequestType DEF Sends, TypeOK

LEMMA NextMethodType == NextMethod \in Methods
  BY DEF NextMethod, Methods

LEMMA AcceptsType ==
  ASSUME TypeOK, NEW w \in workers, Accepts(w)
  PROVE  client' \in Client /\ calls' \in CallBook
  <1>1. w.sid \in Nat /\ w.reply \in Codes /\ client.call \in Calls
    BY DEF TypeOK, Worker, Client, Codes
  <1>2. CASE w.method \in {"initialize", "notifications/initialized"}
    <2>1. /\ [client EXCEPT !.waits = FALSE, !.sid = w.sid, !.greets = TRUE] \in Client
          /\ [client EXCEPT !.waits = FALSE, !.greets = FALSE] \in Client
      BY <1>1 DEF TypeOK, Client
    <2> QED BY <1>2, <2>1 DEF Accepts, TypeOK
  <1>3. CASE w.method = "tools/list"
    <2>1. [Released EXCEPT !.tools = TRUE] \in Client /\ [client EXCEPT !.waits = FALSE, !.tools = TRUE] \in Client
      BY ReleasedType DEF TypeOK, Client
    <2> QED BY <1>3, <2>1 DEF Accepts, TypeOK
  <1>4. CASE w.method = "ping"
    <2>0. calls[client.call] \in [state : CallStates, code : Codes, bound : Nat, start : Nat]
            /\ client.sid \in Nat
      BY <1>1 DEF TypeOK, CallBook, Client
    <2>1. [calls[client.call] EXCEPT !.state = "asking", !.bound = client.sid]
            \in [state : CallStates, code : Codes, bound : Nat, start : Nat]
      BY <2>0 DEF CallStates
    <2>2. calls' = [calls EXCEPT ![client.call] =
                      [calls[client.call] EXCEPT !.state = "asking", !.bound = client.sid]]
      BY <1>1, <1>4 DEF Accepts, TypeOK, CallBook
    <2> QED BY <1>1, <1>4, <2>1, <2>2, ReleasedType DEF Accepts, TypeOK, CallBook
  <1>5. CASE w.method \notin {"initialize", "notifications/initialized", "tools/list", "ping"}
    BY <1>1, <1>5, ReleasedType, OverType DEF Accepts
  <1> QED BY <1>2, <1>3, <1>4, <1>5

LEMMA ClientStepType ==
  ASSUME TypeOK,
         SendRequest \/ ConnectionFails \/ RequestTimesOut \/ LifetimeEnds
  PROVE  TypeOK'
  <1>1. CASE SendRequest
    <2>1. PICK kept \in SUBSET Calls :
            /\ used' = used \/ used' = kept \union {client.call}
            /\ Sends(NextMethod) \/ (Fails("reused") /\ UNCHANGED workers)
      BY <1>1 DEF SendRequest, TypeOK
    <2>2. used' \subseteq Calls BY <2>1 DEF TypeOK, Client
    <2>3. client' \in Client /\ calls' \in CallBook /\ workers' \subseteq Worker
      BY <2>1, SendsType, NextMethodType, FailsType DEF TypeOK, Codes
    <2> QED BY <1>1, <2>2, <2>3 DEF SendRequest, TypeOK
  <1>2. CASE ConnectionFails
    <2>1. bounds' \in [faults : Nat, expiries : Nat, cancels : Nat, restarts : Nat]
      BY <1>2, CostsType DEF ConnectionFails, TypeOK
    <2>2. client' \in Client /\ calls' \in CallBook BY <1>2, FailsType DEF ConnectionFails, Codes
    <2> QED BY <1>2, <2>1, <2>2, UnheardType DEF ConnectionFails, TypeOK
  <1>3. CASE RequestTimesOut \/ LifetimeEnds
    <2>1. client' \in Client /\ calls' \in CallBook
      BY <1>3, FailsType DEF RequestTimesOut, LifetimeEnds, Codes
    <2> QED BY <1>3, <2>1, UnheardType DEF RequestTimesOut, LifetimeEnds, TypeOK
  <1> QED BY <1>1, <1>2, <1>3

LEMMA ClientEndType ==
  ASSUME TypeOK,
         Receive \/ Dispose \/ DeleteSession \/ DeleteEnds \/ DeleteTimesOut
  PROVE  TypeOK'
  <1>0. /\ [client EXCEPT !.disposed = TRUE] \in Client
        /\ [client EXCEPT !.op = "closing"] \in Client
        /\ [client EXCEPT !.op = "closing", !.waits = TRUE] \in Client
        /\ [client EXCEPT !.op = "gone", !.waits = FALSE, !.sid = NoSession, !.tools = FALSE] \in Client
    BY DEF TypeOK, Client, NoSession
  <1>1. CASE Receive
    <2>1. PICK w \in workers :
            /\ workers' = workers \ {w}
            /\ SessionExpired(w.method) \/ Accepts(w)
      BY <1>1 DEF Receive, Heard
    <2>2. client' \in Client /\ calls' \in CallBook BY <2>1, ExpiredType, AcceptsType
    <2> QED BY <1>1, <2>1, <2>2 DEF Receive, TypeOK
  <1>2. CASE Dispose BY <1>0, <1>2 DEF Dispose, TypeOK
  <1>3. CASE DeleteSession
    <2>1. \A c \in Calls : [calls[c] EXCEPT !.state = "over", !.code = "cancelled"]
            \in [state : CallStates, code : Codes, bound : Nat, start : Nat]
      BY DEF TypeOK, CallBook, CallStates, Codes
    <2>2. calls' \in CallBook BY <1>3, <2>1 DEF DeleteSession, TypeOK, CallBook
    <2>3. client' \in Client BY <1>0, <1>3 DEF DeleteSession
    <2>4. workers' \subseteq Worker
      BY <1>3, RequestType DEF DeleteSession, TypeOK, Methods
    <2> QED BY <1>3, <2>2, <2>3, <2>4 DEF DeleteSession, TypeOK
  <1>4. CASE DeleteEnds BY <1>0, <1>4, UnheardType DEF DeleteEnds, TypeOK
  <1>5. CASE DeleteTimesOut BY <1>0, <1>5, UnheardType DEF DeleteTimesOut, TypeOK
  <1> QED BY <1>1, <1>2, <1>3, <1>4, <1>5

\* The server.
LEMMA GoesType ==
  ASSUME TypeOK, NEW w \in workers, NEW to \in Worker, Goes(w, to)
  PROVE  workers' \subseteq Worker
  BY DEF Goes, TypeOK

LEMMA AnsweredType ==
  ASSUME TypeOK, NEW w \in workers, NEW reply \in Replies
  PROVE  Answered(w, reply) \in Worker
  BY DEF TypeOK, Answered, Worker

LEMMA ServerStepType ==
  ASSUME TypeOK, NEW w \in workers, ServerStep(w)
  PROVE  TypeOK'
  <1>0. w \in Worker /\ w.sid \in Nat /\ w.call \in Calls BY DEF TypeOK, Worker
  <1>1. CASE HandleInitialize(w)
    <2>1. [Answered(w, "ok") EXCEPT !.sid = sessions.born + 1] \in Worker
      BY <1>0, AnsweredType DEF TypeOK, Worker, Replies
    <2>2. sessions' \in [new : SUBSET Nat, ready : SUBSET Nat, born : Nat]
      <3>1. sessions.new \union {sessions.born + 1} \in SUBSET Nat /\ sessions.born + 1 \in Nat
        BY DEF TypeOK
      <3>2. sessions' = [new |-> sessions.new \union {sessions.born + 1}, ready |-> sessions.ready,
                         born |-> sessions.born + 1]
        BY <1>1 DEF HandleInitialize, TypeOK
      <3> QED BY <3>1, <3>2 DEF TypeOK
    <2> QED BY <1>1, <2>1, <2>2, GoesType DEF HandleInitialize, TypeOK
  <1>2. CASE HandleDeleteSession(w)
    <2>1. sessions' \in [new : SUBSET Nat, ready : SUBSET Nat, born : Nat]
      <3>1. sessions.new \ {w.sid} \in SUBSET Nat /\ sessions.ready \ {w.sid} \in SUBSET Nat
        BY DEF TypeOK
      <3>2. sessions' = [new |-> sessions.new \ {w.sid}, ready |-> sessions.ready \ {w.sid},
                         born |-> sessions.born]
        BY <1>2 DEF HandleDeleteSession, TypeOK
      <3> QED BY <3>1, <3>2 DEF TypeOK
    <2>2. workers' \subseteq Worker
      BY <1>2, AnsweredType, GoesType DEF HandleDeleteSession, Replies
    <2> QED BY <1>2, <2>1, <2>2 DEF HandleDeleteSession, TypeOK
  <1>3. CASE ResolveSession(w)
    <2>0. \A b \in BOOLEAN : [w EXCEPT !.at = "resolved", !.ready = b] \in Worker
      BY <1>0 DEF Worker
    <2>1. [w EXCEPT !.at = "resolved", !.ready = w.sid \in sessions.ready] \in Worker
      <3>1. CASE w.sid \in sessions.ready
        <4>1. (w.sid \in sessions.ready) = TRUE BY <3>1
        <4> QED BY <2>0, <4>1, Zenon
      <3>2. CASE w.sid \notin sessions.ready
        <4>1. (w.sid \in sessions.ready) = FALSE BY <3>2
        <4> QED BY <2>0, <4>1, Zenon
      <3> QED BY <3>1, <3>2
    <2>2. workers' \subseteq Worker
      BY <1>3, <2>1, AnsweredType, GoesType DEF ResolveSession, Replies
    <2> QED BY <1>3, <2>2 DEF ResolveSession, TypeOK
  <1>4. CASE MarkSessionInitialized(w)
    <2>1. sessions' \in [new : SUBSET Nat, ready : SUBSET Nat, born : Nat]
      BY <1>0, <1>4 DEF MarkSessionInitialized, TypeOK
    <2>2. workers' \subseteq Worker
      BY <1>4, AnsweredType, GoesType DEF MarkSessionInitialized, Replies
    <2> QED BY <1>4, <2>1, <2>2 DEF MarkSessionInitialized, TypeOK
  <1>5. CASE Consume(w)
    <2>1. [w EXCEPT !.at = "authorized"] \in Worker BY <1>0 DEF Worker
    <2>2. workers' \subseteq Worker
      BY <1>5, <2>1, AnsweredType, GoesType DEF Consume, Replies
    <2>3. grants' \subseteq grants BY <1>5 DEF Consume
    <2> QED BY <1>5, <2>2, <2>3 DEF Consume, TypeOK
  <1>6. CASE HostRuns(w)
    <2>1. [times |-> runs[w.call].times + 1, start |-> server.start] \in [times : Nat, start : Nat]
      BY <1>0 DEF TypeOK
    <2>2. runs' \in [Calls -> [times : Nat, start : Nat]]
      BY <1>0, <1>6, <2>1 DEF HostRuns, TypeOK
    <2>3. workers' \subseteq Worker
      BY <1>6, AnsweredType, GoesType DEF HostRuns, Replies
    <2> QED BY <1>6, <2>2, <2>3 DEF HostRuns, TypeOK
  <1>7. CASE HostRejects(w)
    <2>1. workers' \subseteq Worker
      BY <1>7, AnsweredType, GoesType DEF HostRejects, Replies
    <2> QED BY <1>7, <2>1 DEF HostRejects, TypeOK
  <1>8. CASE WorkerEnds(w) BY <1>8 DEF WorkerEnds, TypeOK
  <1> QED BY <1>1, <1>2, <1>3, <1>4, <1>5, <1>6, <1>7, <1>8 DEF ServerStep

Lifecycle == RevokeAll \/ CloseSockets \/ ClearSessions \/ JoinWorkers \/ StartServer
Clock == (\E g \in grants : GrantExpires(g)) \/ SessionsIdle

LEMMA LifecycleType == ASSUME TypeOK, Lifecycle PROVE TypeOK'
  <1>1. CASE RevokeAll
    <2>1. bounds' \in [faults : Nat, expiries : Nat, cancels : Nat, restarts : Nat]
      BY <1>1, CostsType DEF RevokeAll
    <2> QED BY <1>1, <2>1 DEF RevokeAll, TypeOK
  <1>2. CASE CloseSockets
    <2>1. \A w \in Worker : [w EXCEPT !.heard = FALSE] \in Worker BY DEF Worker
    <2> QED BY <1>2, <2>1 DEF CloseSockets, TypeOK
  <1>3. CASE ClearSessions BY <1>3 DEF ClearSessions, TypeOK
  <1>4. CASE JoinWorkers BY <1>4 DEF JoinWorkers, TypeOK
  <1>5. CASE StartServer 
    <2>1. server' \in [is : {"up", "stopping", "closing", "joining", "down"}, start : Nat]
      BY <1>5 DEF StartServer, TypeOK
    <2>2. sessions' \in [new : SUBSET Nat, ready : SUBSET Nat, born : Nat]
      BY <1>5 DEF StartServer, TypeOK
    <2> QED BY <1>5, <2>1, <2>2 DEF StartServer, TypeOK
  <1> QED BY <1>1, <1>2, <1>3, <1>4, <1>5 DEF Lifecycle

LEMMA ClockType == ASSUME TypeOK, Clock PROVE TypeOK'
  <1>0. \A g \in Grant : [g EXCEPT !.fresh = FALSE] \in Grant BY DEF Grant
  <1>1. ASSUME NEW g \in grants, GrantExpires(g) PROVE TypeOK'
    BY <1>0, <1>1 DEF GrantExpires, TypeOK
  <1>2. CASE SessionsIdle
    <2>1. bounds' \in [faults : Nat, expiries : Nat, cancels : Nat, restarts : Nat]
      BY <1>2, CostsType DEF SessionsIdle
    <2>2. grants' \subseteq Grant BY <1>0, <1>2 DEF SessionsIdle, TypeOK
    <2> QED BY <1>2, <2>1, <2>2 DEF SessionsIdle, TypeOK
  <1> QED BY <1>1, <1>2 DEF Clock

LEMMA InitType == Init => TypeOK
  <1>1. (CHOOSE c \in Calls : TRUE) \in Calls BY CallsAssumption
  <1> QED BY <1>1, BoundsAssumption DEF Init, TypeOK, Client, Active, CallBook, CallStates, Codes, NoSession

\* Every step is one of these.
LEMMA Steps ==
  ASSUME Next
  PROVE  \/ \E c \in Calls : StartCall(c) \/ Issue(c) \/ Deny(c) \/ CallApproved(c) \/ CancelTurn(c)
         \/ SendRequest \/ ConnectionFails \/ RequestTimesOut \/ LifetimeEnds
         \/ Receive \/ Dispose \/ DeleteSession \/ DeleteEnds \/ DeleteTimesOut
         \/ \E w \in workers : ServerStep(w)
         \/ Lifecycle \/ Clock
  BY DEF Next, Lifecycle, Clock

LEMMA NextType == ASSUME TypeOK, Next PROVE TypeOK'
  BY Steps, CoordinatorType, ClientStepType, ClientEndType, ServerStepType, LifecycleType, ClockType

\* TypeCorrect: whatever the client, the server and the user do, every field of
\* SameInstanceMcpClient and of the server keeps the values it may have.
THEOREM TypeCorrect == Spec => []TypeOK
  <1>1. TypeOK /\ UNCHANGED vars => TypeOK' BY DEF TypeOK, vars
  <1> QED BY <1>1, InitType, NextType, PTL DEF Spec

-----------------------------------------------------------------------------
(* Safety. *)

\* The call has neither run nor is any worker to run it.
Unsent(c) ==
  runs[c].times = 0 /\ \A w \in workers : ~(w.method = "tools/call" /\ w.call = c)

\* The client's gate and the coordinator's state of the call agree.
GateInv ==
  /\ client.op = "connect" => ~client.tools
  /\ client.op \in {"idle", "gone"} => ~client.waits
  /\ \A c \in Calls : calls[c].state = "binding" <=> client.op = "bind" /\ client.call = c
  /\ \A c \in Calls : calls[c].state = "calling" <=> client.op = "call" /\ client.call = c
  /\ \A c, d \in Busy : c = d

\* At most one request is listened to, and it is the operation's own.
HeardInv ==
  /\ ~client.waits => Heard = {}
  /\ \A v, w \in Heard : v = w
  /\ \A w \in workers : w.at = "answered" => w.heard
  /\ \A w \in workers : w.reply # "none" <=> w.at = "answered"
  /\ \A w \in Heard :
       /\ w.call = client.call
       /\ w.method = "tools/call" => client.op = "call"
       /\ w.method = "ping" => client.op = "bind"
       /\ w.method = "DELETE" => client.op = "closing"

\* What is on its way of a call.
OnceInv ==
  /\ \A c \in Calls : runs[c].times <= 1
  /\ \A v, w \in workers :
       v.method = "tools/call" /\ w.method = "tools/call" /\ v.call = w.call => v = w
  /\ \A w \in workers :
       w.method = "tools/call" /\ (w.at # "answered" \/ w.reply \in {"404", "refused"})
         => runs[w.call].times = 0

\* Before the call is sent, while it may still be sent again, and when its code
\* says that it did not run, it has not run.
UnsentInv ==
  /\ \A c \in Calls : calls[c].state \in {"new", "binding", "asking", "allowed"} => Unsent(c)
  /\ client.op = "call" /\ ~client.waits => Unsent(client.call)
  /\ \A w \in Heard : client.op = "call" /\ w.method # "tools/call" => Unsent(client.call)
  /\ \A c \in Calls : calls[c].state # "over" => calls[c].code = "none"
  /\ \A c \in Calls : calls[c].code \in {"expired", "refused", "reused", "denied"} => Unsent(c)


\* A session is born before anything names it; a server that is down has no
\* worker left.
SessionInv ==
  /\ \A s \in Live : s \in 1..sessions.born
  /\ \A g \in grants : g.session <= sessions.born
  /\ \A w \in workers : w.sid <= sessions.born
  /\ \A c \in Calls : calls[c].bound <= sessions.born
  /\ client.sid <= sessions.born
  /\ server.is = "down" => workers = {}

\* A grant of a live session, and a mutation on its way to the host, belong to
\* this start of the server.
ApprovalInv ==
  /\ \A g \in grants : g.session \in Live => calls[g.call].start = server.start
  /\ \A w \in workers, g \in grants :
       w.method = "tools/call" /\ w.at = "resolved" /\ w.ready /\ g.call = w.call /\ g.session = w.sid
         => calls[w.call].start = server.start
  /\ \A w \in workers : w.at = "authorized" =>
       w.method = "tools/call" /\ calls[w.call].start = server.start
  /\ ApprovalDiesWithItsServer

Inv == TypeOK /\ GateInv /\ HeardInv /\ OnceInv /\ UnsentInv /\ SessionInv /\ ApprovalInv

LEMMA InitInv == Init => Inv
  <1>1. Init => GateInv BY DEF Init, GateInv, Busy
  <1>2. Init => HeardInv BY DEF Init, HeardInv, Heard
  <1>3. Init => OnceInv /\ UnsentInv BY DEF Init, OnceInv, UnsentInv, Unsent, Heard
  <1>4. Init => SessionInv /\ ApprovalInv
    BY DEF Init, SessionInv, ApprovalInv, ApprovalDiesWithItsServer, Live, NoSession, Calls
  <1> QED BY <1>1, <1>2, <1>3, <1>4, InitType DEF Inv

-----------------------------------------------------------------------------
(* What the parts of an action change, field by field. *)

LEMMA OverFacts ==
  ASSUME TypeOK, NEW c \in Calls, NEW code, calls' = Over(c, code)
  PROVE  /\ calls'[c].state = "over" /\ calls'[c].code = code
         /\ calls'[c].start = calls[c].start /\ calls'[c].bound = calls[c].bound
         /\ \A d \in Calls \ {c} : calls'[d] = calls[d]
  BY DEF TypeOK, CallBook, Over

LEMMA ReleasedFacts ==
  ASSUME TypeOK
  PROVE  /\ Released.op = "idle" /\ Released.waits = FALSE
         /\ Released.call = client.call /\ Released.sid = client.sid
  BY DEF TypeOK, Client, Released

LEMMA AgainFacts ==
  ASSUME TypeOK
  PROVE  /\ Again.op = client.op /\ Again.waits = FALSE /\ Again.tools = FALSE
         /\ Again.call = client.call /\ Again.sid = 0
  BY DEF TypeOK, Client, Again, NoSession

\* An operation ends, and so does its call.
Ends(code) ==
  /\ client'.op = "idle" /\ client'.waits = FALSE
  /\ client'.call = client.call /\ client'.sid \in {client.sid, 0}
  /\ IF client.op = "connect" THEN calls' = calls ELSE calls' = Over(client.call, code)

LEMMA FailsFacts == ASSUME TypeOK, NEW code, Fails(code) PROVE Ends(code)
  <1>1. client' = Released \/ client' = [Released EXCEPT !.disposed = TRUE] BY DEF Fails
  <1>2. /\ client'.op = "idle" /\ client'.waits = FALSE
        /\ client'.call = client.call /\ client'.sid = client.sid
    BY <1>1, ReleasedFacts, ReleasedType DEF Client
  <1> QED BY <1>2 DEF Fails, Ends

LEMMA ExpiredFacts ==
  ASSUME TypeOK, NEW method, SessionExpired(method), method = "tools/call" => client.op = "call"
  PROVE  \/ Ends("expired")
         \/ client' = Again /\ calls' = calls /\ (client.op = "call" => method = "tools/call")
  <1>1. CASE Recovers(method) BY <1>1 DEF SessionExpired, Recovers
  <1>2. CASE ~Recovers(method) /\ method = "tools/call"
    <2>1. /\ client' = [Released EXCEPT !.sid = NoSession, !.tools = FALSE]
          /\ calls' = Over(client.call, "expired")
      BY <1>2 DEF SessionExpired
    <2>2. /\ client'.op = "idle" /\ client'.waits = FALSE
          /\ client'.call = client.call /\ client'.sid = 0
      BY <2>1, ReleasedFacts, ReleasedType DEF Client, NoSession
    <2> QED BY <1>2, <2>1, <2>2 DEF Ends
  <1>3. CASE ~Recovers(method) /\ method # "tools/call"
    BY <1>3, FailsFacts DEF SessionExpired
  <1> QED BY <1>1, <1>2, <1>3

\* The workers that nobody listens to any more go on as they were.
LEMMA UnheardFacts ==
  ASSUME TypeOK, workers' = Unheard
  PROVE  /\ Heard' = {}
         /\ \A v \in workers' : v.at # "answered" /\ ~v.heard /\
              \E w \in workers : /\ v = [w EXCEPT !.heard = FALSE]
                                 /\ v.method = w.method /\ v.sid = w.sid /\ v.call = w.call
                                 /\ v.at = w.at /\ v.ready = w.ready /\ v.reply = w.reply
  <1>1. \A w \in Worker : LET v == [w EXCEPT !.heard = FALSE]
                          IN v.heard = FALSE /\ v.method = w.method /\ v.sid = w.sid /\ v.call = w.call
                             /\ v.at = w.at /\ v.ready = w.ready /\ v.reply = w.reply
    BY DEF Worker
  <1>2. \A v \in workers' : \E w \in workers : w.at # "answered" /\ v = [w EXCEPT !.heard = FALSE]
    BY DEF Unheard, Working
  <1>3. ASSUME NEW v \in workers'
        PROVE  /\ v.at # "answered" /\ ~v.heard
               /\ \E w \in workers : /\ v = [w EXCEPT !.heard = FALSE]
                                    /\ v.method = w.method /\ v.sid = w.sid /\ v.call = w.call
                                    /\ v.at = w.at /\ v.ready = w.ready /\ v.reply = w.reply
    <2>1. PICK w \in workers : w.at # "answered" /\ v = [w EXCEPT !.heard = FALSE] BY <1>2
    <2>2. w \in Worker BY DEF TypeOK
    <2> QED BY <1>1, <2>1, <2>2
  <1> QED BY <1>3 DEF Heard

\* One worker goes on, the others stay.
LEMMA GoesFacts ==
  ASSUME TypeOK, NEW w \in workers, NEW to, Goes(w, to)
  PROVE  /\ \A v \in workers' :
              v \in workers \ {w} \/ (v = to /\ (to.at = "answered" => to.heard))
         /\ to.heard => to \in workers'
  BY DEF Goes

\* A request is sent.
LEMMA RequestFacts ==
  ASSUME TypeOK, NEW m
  PROVE  /\ Request(m).method = m /\ Request(m).call = client.call /\ Request(m).at = "sent"
         /\ Request(m).heard = TRUE /\ Request(m).reply = "none" /\ Request(m).ready = FALSE
         /\ Request(m).sid \in {0, client.sid}
  BY DEF Request, NoSession

LEMMA SendsFacts ==
  ASSUME TypeOK, NEW m, Sends(m)
  PROVE  /\ workers' = workers \union {Request(m)} /\ calls' = calls
         /\ client'.waits = TRUE /\ client'.op = client.op /\ client'.call = client.call
         /\ client'.sid = client.sid /\ client'.tools = client.tools
         /\ server.is \in {"up", "stopping"}
  BY DEF Sends, TypeOK, Client, Listening

LEMMA AcceptsFacts ==
  ASSUME TypeOK, NEW w \in workers, Accepts(w)
  PROVE  /\ client'.waits = FALSE /\ client'.call = client.call /\ client'.sid \in {client.sid, w.sid}
         /\ w.method \notin {"initialize", "notifications/initialized", "tools/list"} =>
              client'.op = "idle"
         /\ w.method \in {"initialize", "notifications/initialized"} =>
              client'.op = client.op /\ client'.tools = client.tools
         /\ w.method = "tools/list" =>
              IF client.op = "connect" THEN client'.op = "idle" ELSE client'.op = client.op
  <1>1. CASE w.method \in {"initialize", "notifications/initialized"}
    BY <1>1 DEF Accepts, TypeOK, Client
  <1>2. CASE w.method = "tools/list"
    <2>1. \/ client' = [Released EXCEPT !.tools = TRUE] /\ client.op = "connect"
          \/ client' = [client EXCEPT !.waits = FALSE, !.tools = TRUE] /\ client.op # "connect"
      BY <1>2 DEF Accepts
    <2>2. CASE client' = [Released EXCEPT !.tools = TRUE] /\ client.op = "connect"
      <3>1. /\ client'.waits = FALSE /\ client'.call = client.call /\ client'.sid = client.sid
            /\ client'.op = "idle"
        BY <2>2, ReleasedFacts, ReleasedType DEF Client
      <3> QED BY <1>2, <2>2, <3>1
    <2>3. CASE client' = [client EXCEPT !.waits = FALSE, !.tools = TRUE] /\ client.op # "connect"
      BY <1>2, <2>3 DEF TypeOK, Client
    <2> QED BY <2>1, <2>2, <2>3
  <1>3. CASE w.method \notin {"initialize", "notifications/initialized", "tools/list"}
    <2>1. client' = Released BY <1>3 DEF Accepts
    <2> QED BY <1>3, <2>1, ReleasedFacts
  <1> QED BY <1>1, <1>2, <1>3

LEMMA AcceptedCall ==
  ASSUME TypeOK, NEW w \in workers, Accepts(w)
  PROVE  /\ w.method \in {"initialize", "notifications/initialized", "tools/list"} => calls' = calls
         /\ w.method = "ping" =>
              /\ calls'[client.call].state = "asking" /\ calls'[client.call].bound = client.sid
              /\ calls'[client.call].code = calls[client.call].code
              /\ calls'[client.call].start = calls[client.call].start
              /\ \A d \in Calls \ {client.call} : calls'[d] = calls[d]
         /\ w.method \notin {"initialize", "notifications/initialized", "tools/list", "ping"} =>
              calls' = Over(client.call, w.reply)
  <1>1. CASE w.method = "ping"
    <2>1. client.call \in Calls BY DEF TypeOK, Client
    <2>2. calls[client.call] \in [state : CallStates, code : Codes, bound : Nat, start : Nat]
      BY <2>1 DEF TypeOK, CallBook
    <2>3. calls' = [calls EXCEPT ![client.call] =
                      [calls[client.call] EXCEPT !.state = "asking", !.bound = client.sid]]
      BY <1>1, <2>1 DEF Accepts, TypeOK, CallBook
    <2> QED BY <1>1, <2>1, <2>2, <2>3 DEF TypeOK, CallBook
  <1>2. CASE w.method # "ping" BY <1>2 DEF Accepts
  <1> QED BY <1>1, <1>2

-----------------------------------------------------------------------------
(* The gate. *)

LEMMA GateSame == ASSUME GateInv, UNCHANGED <<client, calls>> PROVE GateInv'
  BY DEF GateInv, Busy

LEMMA GateEnds ==
  ASSUME TypeOK, GateInv, NEW code, Ends(code), client.op \in Active
  PROVE  GateInv'
  <1>1. client.call \in Calls BY DEF TypeOK, Client
  <1>2. CASE client.op = "connect"
    BY <1>2 DEF GateInv, Ends, Busy
  <1>3. CASE client.op # "connect"
    <2>1. /\ calls'[client.call].state = "over"
          /\ \A d \in Calls \ {client.call} : calls'[d] = calls[d]
      BY <1>1, <1>3, OverFacts DEF Ends
    <2>2. \A c \in Calls : calls'[c].state \notin {"binding", "calling"}
      BY <2>1 DEF GateInv
    <2>3. Busy' \subseteq Busy BY <2>1 DEF Busy
    <2> QED BY <2>2, <2>3 DEF GateInv, Ends
  <1> QED BY <1>2, <1>3

LEMMA GateCoordinator ==
  ASSUME TypeOK, GateInv, NEW c \in Calls,
         StartCall(c) \/ Issue(c) \/ Deny(c) \/ CallApproved(c) \/ CancelTurn(c)
  PROVE  GateInv'
  <1>1. CASE StartCall(c)
    <2>1. calls'[c].state = (IF c \in Reads THEN "calling" ELSE "binding")
          /\ \A d \in Calls \ {c} : calls'[d] = calls[d]
      BY <1>1 DEF StartCall, TypeOK, CallBook
    <2>2. /\ client'.op = (IF c \in Reads THEN "call" ELSE "bind") /\ client'.call = c
          /\ client.op = "idle"
      BY <1>1 DEF StartCall, TypeOK, Client
    <2>3. Busy = {} /\ Busy' \subseteq {c} BY <1>1, <2>1 DEF StartCall, Busy
    <2> QED BY <2>1, <2>2, <2>3 DEF GateInv
  <1>2. CASE Issue(c)
    <2>1. calls[c].state = "asking" /\ calls'[c].state = "allowed"
          /\ \A d \in Calls \ {c} : calls'[d] = calls[d]
      BY <1>2 DEF Issue, TypeOK, CallBook
    <2>2. client' = client BY <1>2 DEF Issue
    <2>3. Busy' \subseteq Busy BY <2>1 DEF Busy
    <2>4. \A d \in Calls : \A st \in {"binding", "calling"} : calls'[d].state = st <=> calls[d].state = st
      BY <2>1
    <2> QED BY <2>2, <2>3, <2>4 DEF GateInv
  <1>3. CASE Deny(c)
    <2>1. /\ calls[c].state = "asking" /\ calls'[c].state = "over"
          /\ \A d \in Calls \ {c} : calls'[d] = calls[d]
      BY <1>3, OverFacts DEF Deny
    <2>2. client' = client BY <1>3 DEF Deny
    <2>3. Busy' \subseteq Busy BY <2>1 DEF Busy
    <2>4. \A d \in Calls : \A st \in {"binding", "calling"} : calls'[d].state = st <=> calls[d].state = st
      BY <2>1
    <2> QED BY <2>2, <2>3, <2>4 DEF GateInv
  <1>4. CASE CallApproved(c)
    <2>1. /\ calls[c].state = "allowed" /\ calls'[c].state = "calling"
          /\ \A d \in Calls \ {c} : calls'[d] = calls[d]
      BY <1>4 DEF CallApproved, TypeOK, CallBook
    <2>2. /\ client'.op = "call" /\ client'.call = c /\ client.op = "idle"
      BY <1>4 DEF CallApproved, TypeOK, Client
    <2>3. Busy' \subseteq Busy BY <2>1 DEF Busy
    <2> QED BY <2>1, <2>2, <2>3 DEF GateInv
  <1>5. CASE CancelTurn(c)
    <2>1. /\ calls'[c].state = "over" /\ calls[c].state \in {"binding", "asking", "allowed", "calling"}
          /\ \A d \in Calls \ {c} : calls'[d] = calls[d]
      BY <1>5, OverFacts DEF CancelTurn, Busy
    <2>2. Busy' \subseteq Busy BY <2>1 DEF Busy
    <2>3. CASE client.op \in {"bind", "call"}
      <3>1. client'.op = "idle" /\ client'.waits = FALSE
        BY <1>5, <2>3, ReleasedFacts DEF CancelTurn
      <3>2. calls[client.call].state \in {"binding", "calling"} /\ client.call \in Calls
        BY <2>3 DEF GateInv, TypeOK, Client
      <3>3. client.call = c BY <1>5, <3>2 DEF GateInv, Busy, CancelTurn
      <3>4. \A d \in Calls : calls'[d].state \notin {"binding", "calling"}
        BY <2>1, <3>3 DEF GateInv
      <3> QED BY <2>2, <3>1, <3>4 DEF GateInv
    <2>4. CASE client.op \notin {"bind", "call"}
      <3>1. client' = client BY <1>5, <2>4 DEF CancelTurn
      <3>2. \A d \in Calls : calls'[d].state \notin {"binding", "calling"}
        BY <2>1, <2>4 DEF GateInv
      <3> QED BY <2>2, <2>4, <3>1, <3>2 DEF GateInv
    <2> QED BY <2>3, <2>4
  <1> QED BY <1>1, <1>2, <1>3, <1>4, <1>5

LEMMA GateClient ==
  ASSUME TypeOK, GateInv, HeardInv,
         SendRequest \/ ConnectionFails \/ RequestTimesOut \/ LifetimeEnds \/ Receive
  PROVE  GateInv'
  <1>0. client.op \in Active
    BY DEF SendRequest, ConnectionFails, RequestTimesOut, LifetimeEnds, Receive
  <1>1. CASE Sends(NextMethod)
    <2>1. /\ client'.op = client.op /\ client'.tools = client.tools /\ client'.call = client.call
          /\ calls' = calls
      BY <1>1, SendsFacts
    <2> QED BY <1>0, <2>1 DEF GateInv, Busy, Active
  <1>2. CASE \E code \in Codes : Fails(code)
    BY <1>0, <1>2, FailsFacts, GateEnds
  <1>3. CASE Receive
    <2>1. PICK w \in Heard : IF w.reply = "404" THEN SessionExpired(w.method) ELSE Accepts(w)
      BY <1>3 DEF Receive
    <2>2. w \in workers /\ (w.method = "tools/call" => client.op = "call")
            /\ (w.method = "ping" => client.op = "bind")
            /\ (w.method = "DELETE" => client.op = "closing")
      BY DEF Heard, HeardInv
    <2>3. CASE SessionExpired(w.method)
      <3>1. CASE Ends("expired") BY <1>0, <3>1, GateEnds
      <3>2. CASE client' = Again /\ calls' = calls
        <4>1. client'.op = client.op /\ client'.call = client.call /\ client'.tools = FALSE
          BY <3>2, AgainFacts
        <4> QED BY <1>0, <3>2, <4>1 DEF GateInv, Busy, Active
      <3> QED BY <2>2, <2>3, <3>1, <3>2, ExpiredFacts
    <2>4. CASE Accepts(w)
      <3>1. CASE w.method \in {"initialize", "notifications/initialized"}
        <4>1. /\ client'.op = client.op /\ client'.tools = client.tools /\ client'.call = client.call
              /\ calls' = calls
          BY <2>2, <2>4, <3>1, AcceptsFacts, AcceptedCall
        <4> QED BY <1>0, <4>1 DEF GateInv, Busy, Active
      <3>2. CASE w.method = "tools/list"
        <4>1. calls' = calls /\ client'.call = client.call /\ client'.waits = FALSE
          BY <2>2, <2>4, <3>2, AcceptsFacts, AcceptedCall
        <4>2. \/ client'.op = "idle" /\ client.op = "connect"
              \/ client'.op = client.op /\ client.op # "connect"
          BY <2>2, <2>4, <3>2, AcceptsFacts
        <4> QED BY <1>0, <4>1, <4>2 DEF GateInv, Busy, Active
      <3>3. CASE w.method = "ping"
        <4>1. /\ calls'[client.call].state = "asking" /\ client.call \in Calls
              /\ \A d \in Calls \ {client.call} : calls'[d] = calls[d]
          BY <2>2, <2>4, <3>3, AcceptedCall DEF TypeOK, Client
        <4>2. client'.op = "idle" /\ client'.waits = FALSE /\ client.op = "bind"
          BY <2>2, <2>4, <3>3, AcceptsFacts
        <4>3. Busy' \subseteq Busy BY <4>1, <4>2 DEF Busy, GateInv
        <4>4. \A d \in Calls : calls'[d].state \notin {"binding", "calling"}
          BY <4>1, <4>2 DEF GateInv
        <4> QED BY <4>2, <4>3, <4>4 DEF GateInv
      <3>4. CASE w.method \notin {"initialize", "notifications/initialized", "tools/list", "ping"}
        <4>1. calls' = Over(client.call, w.reply) /\ client'.op = "idle" /\ client'.waits = FALSE
              /\ client'.call = client.call /\ client.op = "call"
          BY <1>0, <2>2, <2>4, <3>4, AcceptsFacts, AcceptedCall DEF Active, TypeOK, Worker, Methods
        <4>2. /\ calls'[client.call].state = "over"
              /\ \A d \in Calls \ {client.call} : calls'[d] = calls[d]
          BY <4>1, OverFacts DEF TypeOK, Client
        <4>3. \A d \in Calls : calls'[d].state \notin {"binding", "calling"}
          BY <4>1, <4>2 DEF GateInv
        <4>4. Busy' \subseteq Busy BY <4>2 DEF Busy
        <4> QED BY <4>1, <4>3, <4>4 DEF GateInv
      <3> QED BY <3>1, <3>2, <3>3, <3>4
    <2> QED BY <2>1, <2>3, <2>4
  <1>4. CASE SendRequest
    BY <1>1, <1>2, <1>4 DEF SendRequest, Codes
  <1>5. CASE ConnectionFails \/ RequestTimesOut \/ LifetimeEnds
    BY <1>2, <1>5 DEF ConnectionFails, RequestTimesOut, LifetimeEnds, Codes
  <1> QED BY <1>3, <1>4, <1>5

LEMMA GateDispose ==
  ASSUME TypeOK, GateInv, Dispose \/ DeleteSession \/ DeleteEnds \/ DeleteTimesOut
  PROVE  GateInv'
  <1>1. CASE Dispose
    <2>1. /\ client'.op = client.op /\ client'.call = client.call /\ client'.waits = client.waits
          /\ client'.tools = client.tools /\ calls' = calls
      BY <1>1 DEF Dispose, TypeOK, Client
    <2> QED BY <2>1 DEF GateInv, Busy
  <1>2. CASE DeleteSession
    <2>1. client.op = "idle" /\ client'.op = "closing" BY <1>2 DEF DeleteSession, TypeOK, Client
    <2>2. \A d \in Calls : IF d \in Busy THEN calls'[d].state = "over" ELSE calls'[d] = calls[d]
      BY <1>2 DEF DeleteSession, TypeOK, CallBook
    <2>3. \A d \in Calls : calls'[d].state \notin {"binding", "calling"}
      BY <2>1, <2>2 DEF GateInv, Busy
    <2>4. Busy' = {} BY <2>2 DEF Busy
    <2> QED BY <2>1, <2>3, <2>4 DEF GateInv
  <1>3. CASE DeleteEnds \/ DeleteTimesOut
    <2>1. /\ client.op = "closing" /\ client'.op = "gone" /\ client'.waits = FALSE /\ calls' = calls
      BY <1>3 DEF DeleteEnds, DeleteTimesOut, TypeOK, Client
    <2> QED BY <2>1 DEF GateInv, Busy
  <1> QED BY <1>1, <1>2, <1>3

LEMMA GateStep == ASSUME Inv, Next PROVE GateInv'
  <1>1. CASE \E w \in workers : ServerStep(w)
    BY <1>1, GateSame DEF Inv, ServerStep, HandleInitialize, HandleDeleteSession, ResolveSession,
       MarkSessionInitialized, Consume, HostRuns, HostRejects, WorkerEnds
  <1>2. CASE Lifecycle \/ Clock
    BY <1>2, GateSame DEF Inv, Lifecycle, Clock, RevokeAll, CloseSockets, ClearSessions, JoinWorkers,
       StartServer, GrantExpires, SessionsIdle
  <1> QED BY <1>1, <1>2, Steps, GateCoordinator, GateClient, GateDispose DEF Inv

-----------------------------------------------------------------------------
(* The request that is listened to. *)

LEMMA HeardQuiet == ASSUME TypeOK, HeardInv, workers' = Unheard PROVE HeardInv'
  <1>1. \A v \in workers' : v.at # "answered" /\ \E w \in workers : v.at = w.at /\ v.reply = w.reply
    BY UnheardFacts
  <1>2. Heard' = {} BY UnheardFacts
  <1> QED BY <1>1, <1>2 DEF HeardInv

\* Workers may go, and a client that waited may stop.
LEMMA HeardFewer ==
  ASSUME HeardInv, workers' \subseteq workers,
         Heard' = {} \/ (/\ client'.waits = client.waits /\ client'.call = client.call
                         /\ client'.op = client.op)
  PROVE  HeardInv'
  <1>1. Heard' \subseteq Heard BY DEF Heard
  <1> QED BY <1>1 DEF HeardInv

LEMMA HeardSends ==
  ASSUME TypeOK, HeardInv, ~client.waits, NEW m \in Methods,
         workers' = workers \union {Request(m)},
         client'.waits = TRUE, client'.call = client.call,
         m = "tools/call" => client'.op = "call",
         m = "ping" => client'.op = "bind",
         m = "DELETE" => client'.op = "closing"
  PROVE  HeardInv'
  <1>1. Heard = {} BY DEF HeardInv
  <1>2. Heard' \subseteq {Request(m)} BY <1>1 DEF Heard
  <1>3. /\ Request(m).method = m /\ Request(m).call = client.call /\ Request(m).at = "sent"
        /\ Request(m).heard = TRUE /\ Request(m).reply = "none"
    BY RequestFacts
  <1>4. \A v \in workers' : (v.at = "answered" => v.heard) /\ (v.reply # "none" <=> v.at = "answered")
    BY <1>3 DEF HeardInv
  <1>5. \A v \in Heard' : v = Request(m) BY <1>2
  <1>6. ASSUME NEW v \in Heard'
        PROVE  /\ v.call = client'.call
               /\ v.method = "tools/call" => client'.op = "call"
               /\ v.method = "ping" => client'.op = "bind"
               /\ v.method = "DELETE" => client'.op = "closing"
    BY <1>3, <1>5
  <1> QED BY <1>4, <1>5, <1>6 DEF HeardInv

LEMMA HeardGoes ==
  ASSUME TypeOK, HeardInv, NEW w \in workers, NEW to, Goes(w, to), client' = client,
         to.heard = w.heard, to.method = w.method, to.call = w.call,
         to.reply # "none" <=> to.at = "answered"
  PROVE  HeardInv'
  <1>1. \A v \in workers' : v \in workers \ {w} \/ (v = to /\ (to.at = "answered" => to.heard))
    BY GoesFacts
  <1>2. \A v \in Heard' : (v \in Heard /\ v # w) \/ (v = to /\ w \in Heard)
    BY <1>1 DEF Heard
  <1>3. \A u, v \in Heard' : u = v BY <1>2 DEF HeardInv
  <1>4. \A v \in workers' : (v.at = "answered" => v.heard) /\ (v.reply # "none" <=> v.at = "answered")
    BY <1>1 DEF HeardInv
  <1>5. ~client'.waits => Heard' = {} BY <1>2 DEF HeardInv
  <1>6. ASSUME NEW v \in Heard'
        PROVE  /\ v.call = client'.call
               /\ v.method = "tools/call" => client'.op = "call"
               /\ v.method = "ping" => client'.op = "bind"
               /\ v.method = "DELETE" => client'.op = "closing"
    BY <1>2 DEF HeardInv
  <1> QED BY <1>3, <1>4, <1>5, <1>6 DEF HeardInv

LEMMA NextMethodFacts ==
  ASSUME GateInv, client.op \in Active
  PROVE  /\ NextMethod \in Methods \ {"DELETE"}
         /\ NextMethod = "tools/call" => client.op = "call"
         /\ NextMethod = "ping" => client.op = "bind"
  BY DEF NextMethod, Methods, GateInv, Active

LEMMA HeardCoordinator ==
  ASSUME TypeOK, GateInv, HeardInv, NEW c \in Calls,
         StartCall(c) \/ Issue(c) \/ Deny(c) \/ CallApproved(c) \/ CancelTurn(c)
  PROVE  HeardInv'
  <1>1. CASE StartCall(c) \/ CallApproved(c)
    <2>1. client.op = "idle" /\ workers' = workers BY <1>1 DEF StartCall, CallApproved
    <2>2. Heard' = {} BY <2>1 DEF GateInv, HeardInv, Heard
    <2> QED BY <2>1, <2>2, HeardFewer
  <1>2. CASE Issue(c) \/ Deny(c)
    BY <1>2, HeardFewer DEF Issue, Deny
  <1>3. CASE CancelTurn(c) BY <1>3, HeardQuiet DEF CancelTurn
  <1> QED BY <1>1, <1>2, <1>3

LEMMA HeardClient ==
  ASSUME TypeOK, GateInv, HeardInv,
         SendRequest \/ ConnectionFails \/ RequestTimesOut \/ LifetimeEnds \/ Receive
  PROVE  HeardInv'
  <1>1. CASE SendRequest
    <2>1. client.op \in Active /\ ~client.waits
            /\ (Sends(NextMethod) \/ (Fails("reused") /\ UNCHANGED workers))
      BY <1>1 DEF SendRequest, Waiting
    <2>2. CASE Sends(NextMethod)
      BY <2>1, <2>2, SendsFacts, NextMethodFacts, HeardSends
    <2>3. CASE UNCHANGED workers
      <3>1. Heard' = {} BY <2>1, <2>3 DEF HeardInv, Heard
      <3> QED BY <2>3, <3>1, HeardFewer
    <2> QED BY <2>1, <2>2, <2>3
  <1>2. CASE ConnectionFails \/ RequestTimesOut \/ LifetimeEnds
    BY <1>2, HeardQuiet DEF ConnectionFails, RequestTimesOut, LifetimeEnds
  <1>3. CASE Receive
    <2>1. PICK w \in Heard : workers' = workers \ {w} BY <1>3 DEF Receive
    <2>2. Heard' = {} BY <2>1 DEF Heard, HeardInv
    <2> QED BY <2>1, <2>2, HeardFewer
  <1> QED BY <1>1, <1>2, <1>3

LEMMA HeardDispose ==
  ASSUME TypeOK, GateInv, HeardInv, Dispose \/ DeleteSession \/ DeleteEnds \/ DeleteTimesOut
  PROVE  HeardInv'
  <1>1. CASE Dispose
    <2>1. /\ client'.op = client.op /\ client'.call = client.call /\ client'.waits = client.waits
          /\ workers' = workers
      BY <1>1 DEF Dispose, TypeOK, Client
    <2> QED BY <2>1, HeardFewer
  <1>2. CASE DeleteSession
    <2>1. ~client.waits BY <1>2 DEF DeleteSession, GateInv
    <2>2. CASE workers' = workers \union {Request("DELETE")} /\ client' = [client EXCEPT !.op = "closing", !.waits = TRUE]
      <3>1. client'.op = "closing" /\ client'.waits = TRUE /\ client'.call = client.call
        BY <2>2 DEF TypeOK, Client
      <3> QED BY <2>1, <2>2, <3>1, HeardSends DEF Methods
    <2>3. CASE UNCHANGED workers
      <3>1. Heard' = {} BY <2>1, <2>3 DEF HeardInv, Heard
      <3> QED BY <2>3, <3>1, HeardFewer
    <2> QED BY <1>2, <2>2, <2>3 DEF DeleteSession
  <1>3. CASE DeleteEnds \/ DeleteTimesOut
    BY <1>3, HeardQuiet DEF DeleteEnds, DeleteTimesOut
  <1> QED BY <1>1, <1>2, <1>3

LEMMA AnsweredFacts ==
  ASSUME TypeOK, NEW w \in workers, NEW reply \in Replies
  PROVE  LET to == Answered(w, reply)
         IN /\ to.at = "answered" /\ to.reply = reply /\ reply # "none"
            /\ to.heard = w.heard /\ to.method = w.method /\ to.call = w.call /\ to.sid = w.sid
            /\ to.ready = w.ready
  BY DEF TypeOK, Worker, Answered, Replies

\* What a worker becomes in each of its steps.
LEMMA WorkerSteps ==
  ASSUME TypeOK, NEW w \in workers
  PROVE  LET born == [Answered(w, "ok") EXCEPT !.sid = sessions.born + 1]
             resolved == [w EXCEPT !.at = "resolved", !.ready = w.sid \in sessions.ready]
             authorized == [w EXCEPT !.at = "authorized"]
         IN /\ born.at = "answered" /\ born.reply = "ok" /\ born.heard = w.heard
            /\ born.method = w.method /\ born.call = w.call /\ born.sid = sessions.born + 1
            /\ resolved.at = "resolved" /\ resolved.reply = w.reply /\ resolved.heard = w.heard
            /\ resolved.method = w.method /\ resolved.call = w.call /\ resolved.sid = w.sid
            /\ resolved.ready <=> w.sid \in sessions.ready
            /\ authorized.at = "authorized" /\ authorized.reply = w.reply
            /\ authorized.heard = w.heard /\ authorized.method = w.method
            /\ authorized.call = w.call /\ authorized.sid = w.sid
  <1>0. w \in Worker BY DEF TypeOK
  <1>1. LET born == [Answered(w, "ok") EXCEPT !.sid = sessions.born + 1]
        IN /\ born.at = "answered" /\ born.reply = "ok" /\ born.heard = w.heard
           /\ born.method = w.method /\ born.call = w.call /\ born.sid = sessions.born + 1
    BY <1>0, AnsweredFacts, AnsweredType DEF Worker, Replies
  <1>2. LET authorized == [w EXCEPT !.at = "authorized"]
        IN /\ authorized.at = "authorized" /\ authorized.reply = w.reply
           /\ authorized.heard = w.heard /\ authorized.method = w.method
           /\ authorized.call = w.call /\ authorized.sid = w.sid
    BY <1>0 DEF Worker
  <1>3. LET resolved == [w EXCEPT !.at = "resolved", !.ready = w.sid \in sessions.ready]
        IN /\ resolved.at = "resolved" /\ resolved.reply = w.reply /\ resolved.heard = w.heard
           /\ resolved.method = w.method /\ resolved.call = w.call /\ resolved.sid = w.sid
           /\ resolved.ready <=> w.sid \in sessions.ready
    BY <1>0, Zenon DEF Worker
  <1> QED BY <1>1, <1>2, <1>3

\* The shape of every step of a worker but its end.
GoesOn(w, to) ==
  /\ Goes(w, to) /\ client' = client /\ calls' = calls
  /\ to.heard = w.heard /\ to.method = w.method /\ to.call = w.call
  /\ to.reply # "none" <=> to.at = "answered"

LEMMA WorkerGoesOn ==
  ASSUME TypeOK, HeardInv, NEW w \in workers
  PROVE  /\ HandleInitialize(w) => GoesOn(w, [Answered(w, "ok") EXCEPT !.sid = sessions.born + 1])
         /\ HandleDeleteSession(w) => GoesOn(w, Answered(w, "ok")) \/ GoesOn(w, Answered(w, "404"))
         /\ ResolveSession(w) =>
              \/ GoesOn(w, Answered(w, "ok")) /\ w.method \in {"tools/list", "ping"}
              \/ GoesOn(w, Answered(w, "404"))
              \/ GoesOn(w, [w EXCEPT !.at = "resolved", !.ready = w.sid \in sessions.ready])
                   /\ w.sid \in Live
         /\ MarkSessionInitialized(w) => GoesOn(w, Answered(w, "ok"))
         /\ Consume(w) =>
              \/ GoesOn(w, [w EXCEPT !.at = "authorized"]) /\ \E g \in grants : w.ready /\ Pays(g, w)
              \/ GoesOn(w, Answered(w, "refused"))
         /\ HostRuns(w) => GoesOn(w, Answered(w, "ok"))
         /\ HostRejects(w) => GoesOn(w, Answered(w, "error"))
  <1>0. /\ w.reply # "none" <=> w.at = "answered"
        /\ "ok" \in Replies /\ "404" \in Replies /\ "refused" \in Replies /\ "error" \in Replies
    BY DEF HeardInv, Replies
  <1>1. HandleInitialize(w) => GoesOn(w, [Answered(w, "ok") EXCEPT !.sid = sessions.born + 1])
    BY WorkerSteps DEF HandleInitialize, GoesOn
  <1>2. HandleDeleteSession(w) => GoesOn(w, Answered(w, "ok")) \/ GoesOn(w, Answered(w, "404"))
    BY <1>0, AnsweredFacts DEF HandleDeleteSession, GoesOn
  <1>3. ASSUME ResolveSession(w)
        PROVE  \/ GoesOn(w, Answered(w, "ok")) /\ w.method \in {"tools/list", "ping"}
               \/ GoesOn(w, Answered(w, "404"))
               \/ GoesOn(w, [w EXCEPT !.at = "resolved", !.ready = w.sid \in sessions.ready])
                    /\ w.sid \in Live
    <2>1. w.at = "sent" /\ client' = client /\ calls' = calls BY <1>3 DEF ResolveSession
    <2>2. CASE w.sid \notin Live
      BY <1>0, <1>3, <2>1, <2>2, AnsweredFacts DEF ResolveSession, GoesOn
    <2>3. CASE w.sid \in Live /\ w.method \in {"tools/list", "ping"}
      BY <1>0, <1>3, <2>1, <2>3, AnsweredFacts DEF ResolveSession, GoesOn
    <2>4. CASE w.sid \in Live /\ w.method \notin {"tools/list", "ping"}
      <3>1. Goes(w, [w EXCEPT !.at = "resolved", !.ready = w.sid \in sessions.ready])
        BY <1>3, <2>4, Zenon DEF ResolveSession
      <3> QED BY <1>0, <2>1, <2>4, <3>1, WorkerSteps, Zenon DEF GoesOn
    <2> QED BY <2>2, <2>3, <2>4
  <1>4. MarkSessionInitialized(w) => GoesOn(w, Answered(w, "ok"))
    BY <1>0, AnsweredFacts DEF MarkSessionInitialized, GoesOn
  <1>5. ASSUME Consume(w)
        PROVE  \/ GoesOn(w, [w EXCEPT !.at = "authorized"]) /\ \E g \in grants : w.ready /\ Pays(g, w)
               \/ GoesOn(w, Answered(w, "refused"))
    <2>1. w.at = "resolved" /\ client' = client /\ calls' = calls BY <1>5 DEF Consume
    <2>2. CASE Goes(w, Answered(w, "refused")) BY <1>0, <2>1, <2>2, AnsweredFacts DEF GoesOn
    <2>3. CASE /\ Goes(w, [w EXCEPT !.at = "authorized"])
               /\ \E g \in grants : w.ready /\ Pays(g, w)
      BY <1>0, <2>1, <2>3, WorkerSteps DEF GoesOn
    <2> QED BY <1>5, <2>2, <2>3 DEF Consume
  <1>6. HostRuns(w) => GoesOn(w, Answered(w, "ok"))
    BY <1>0, AnsweredFacts DEF HostRuns, GoesOn
  <1>7. HostRejects(w) => GoesOn(w, Answered(w, "error"))
    BY <1>0, AnsweredFacts DEF HostRejects, GoesOn
  <1> QED BY <1>1, <1>2, <1>3, <1>4, <1>5, <1>6, <1>7

LEMMA HeardServer ==
  ASSUME TypeOK, HeardInv, NEW w \in workers, ServerStep(w)
  PROVE  HeardInv'
  <1>1. CASE WorkerEnds(w)
    BY <1>1, HeardFewer DEF WorkerEnds
  <1>2. CASE ~WorkerEnds(w)
    <2>1. \E to : GoesOn(w, to) BY <1>2, WorkerGoesOn, Zenon DEF ServerStep
    <2> QED BY <2>1, HeardGoes DEF GoesOn
  <1> QED BY <1>1, <1>2

LEMMA HeardStep == ASSUME Inv, Next PROVE HeardInv'
  <1>1. CASE CloseSockets
    <2>1. client' = client BY <1>1 DEF CloseSockets
    <2>2. ASSUME NEW v \in workers'
          PROVE  \E w \in workers : /\ v.method = w.method /\ v.call = w.call /\ v.at = w.at
                                    /\ v.reply = w.reply /\ (w.at = "answered" => v = w)
                                    /\ (v.heard => v = w)
      <3>1. PICK w \in workers : v = IF w.at = "answered" THEN w ELSE [w EXCEPT !.heard = FALSE]
        BY <1>1 DEF CloseSockets
      <3>2. w \in Worker BY DEF Inv, TypeOK
      <3>3. CASE w.at = "answered" BY <3>1, <3>3
      <3>4. CASE w.at # "answered"
        <4>1. v = [w EXCEPT !.heard = FALSE] BY <3>1, <3>4
        <4> QED BY <3>2, <3>4, <4>1 DEF Worker
      <3> QED BY <3>3, <3>4
    <2>3. Heard' \subseteq Heard BY <2>2 DEF Heard
    <2>4. \A v \in workers' : (v.at = "answered" => v.heard) /\ (v.reply # "none" <=> v.at = "answered")
      BY <2>2 DEF Inv, HeardInv
    <2> QED BY <2>1, <2>3, <2>4 DEF Inv, HeardInv
  <1>2. CASE RevokeAll \/ ClearSessions \/ JoinWorkers \/ StartServer \/ Clock
    BY <1>2, HeardFewer DEF Inv, RevokeAll, ClearSessions, JoinWorkers, StartServer, Clock,
       GrantExpires, SessionsIdle
  <1> QED BY <1>1, <1>2, Steps, HeardCoordinator, HeardClient, HeardDispose, HeardServer DEF Inv, Lifecycle

-----------------------------------------------------------------------------
(* What is on its way. *)

\* Every worker comes from one with the same request.
Carried ==
  \A v \in workers' : \E w \in workers :
    /\ v.method = w.method /\ v.call = w.call /\ (v.heard => w.heard)
    /\ v.at # "answered" => w.at # "answered"

LEMMA OnceFewer ==
  ASSUME OnceInv, runs' = runs, workers' \subseteq workers
  PROVE  OnceInv'
  BY DEF OnceInv

LEMMA OnceQuiet ==
  ASSUME TypeOK, OnceInv, runs' = runs, workers' = Unheard
  PROVE  OnceInv' /\ Carried
  <1>1. ASSUME NEW v \in workers'
        PROVE  \E w \in workers : /\ v = [w EXCEPT !.heard = FALSE] /\ v.method = w.method
                                  /\ v.call = w.call /\ v.at = w.at /\ v.reply = w.reply
                                  /\ v.at # "answered" /\ ~v.heard
    BY UnheardFacts
  <1>2. ASSUME NEW u \in workers', NEW v \in workers', u.method = "tools/call",
               v.method = "tools/call", u.call = v.call
        PROVE  u = v
    <2>1. PICK x \in workers : u = [x EXCEPT !.heard = FALSE] /\ u.method = x.method /\ u.call = x.call
      BY <1>1
    <2>2. PICK y \in workers : v = [y EXCEPT !.heard = FALSE] /\ v.method = y.method /\ v.call = y.call
      BY <1>1
    <2>3. x = y BY <1>2, <2>1, <2>2 DEF OnceInv
    <2> QED BY <2>1, <2>2, <2>3
  <1>3. \A v \in workers' : v.method = "tools/call" => runs[v.call].times = 0
    BY <1>1 DEF OnceInv
  <1>4. Carried BY <1>1 DEF Carried
  <1> QED BY <1>2, <1>3, <1>4 DEF OnceInv

LEMMA OnceSends ==
  ASSUME TypeOK, OnceInv, NEW m, runs' = runs, workers' = workers \union {Request(m)},
         m = "tools/call" => Unsent(client.call)
  PROVE  OnceInv'
  <1>1. Request(m).method = m /\ Request(m).call = client.call BY RequestFacts
  <1>2. \A v \in workers' : v \in workers \/ v = Request(m) BY DEF Request
  <1>3. ASSUME NEW u \in workers', NEW v \in workers', u.method = "tools/call",
               v.method = "tools/call", u.call = v.call
        PROVE  u = v
    BY <1>1, <1>2, <1>3 DEF OnceInv, Unsent
  <1>4. ASSUME NEW v \in workers', v.method = "tools/call",
               v.at # "answered" \/ v.reply \in {"404", "refused"}
        PROVE  runs[v.call].times = 0
    BY <1>1, <1>2, <1>4 DEF OnceInv, Unsent
  <1> QED BY <1>3, <1>4 DEF OnceInv

LEMMA OnceGoes ==
  ASSUME TypeOK, OnceInv, NEW w \in workers, NEW to, GoesOn(w, to), w.at # "answered",
         runs' = runs
  PROVE  OnceInv' /\ Carried
  <1>1. \A v \in workers' : v \in workers \ {w} \/ v = to BY GoesFacts DEF GoesOn
  <1>2. to.method = w.method /\ to.call = w.call /\ to.heard = w.heard BY DEF GoesOn
  <1>3. ASSUME NEW u \in workers', NEW v \in workers', u.method = "tools/call",
               v.method = "tools/call", u.call = v.call
        PROVE  u = v
    BY <1>1, <1>2, <1>3 DEF OnceInv
  <1>4. ASSUME NEW v \in workers', v.method = "tools/call",
               v.at # "answered" \/ v.reply \in {"404", "refused"}
        PROVE  runs[v.call].times = 0
    BY <1>1, <1>2, <1>4 DEF OnceInv
  <1>5. Carried BY <1>1, <1>2 DEF Carried
  <1> QED BY <1>3, <1>4, <1>5 DEF OnceInv

LEMMA OnceRuns ==
  ASSUME TypeOK, HeardInv, OnceInv, NEW w \in workers, HostRuns(w)
  PROVE  /\ OnceInv' /\ Carried
         /\ w.method = "tools/call" /\ \A c \in Calls \ {w.call} : runs'[c] = runs[c]
  <1>0. GoesOn(w, Answered(w, "ok")) BY WorkerGoesOn
  <1>1. \A v \in workers' : v \in workers \ {w} \/ v = Answered(w, "ok")
    BY <1>0, GoesFacts DEF GoesOn
  <1>2. /\ Answered(w, "ok").method = w.method /\ Answered(w, "ok").call = w.call
        /\ Answered(w, "ok").heard = w.heard /\ Answered(w, "ok").at = "answered"
        /\ Answered(w, "ok").reply = "ok"
    BY AnsweredFacts DEF Replies
  <1>3. w.method = "tools/call" /\ w.at # "answered" /\ w.call \in Calls
    BY DEF HostRuns, MayRun, TypeOK, Worker
  <1>4. runs[w.call].times = 0 BY <1>3 DEF OnceInv
  <1>5. runs'[w.call].times = 1 /\ \A c \in Calls \ {w.call} : runs'[c] = runs[c]
    BY <1>3, <1>4 DEF HostRuns, TypeOK
  <1>6. ASSUME NEW u \in workers', NEW v \in workers', u.method = "tools/call",
               v.method = "tools/call", u.call = v.call
        PROVE  u = v
    BY <1>1, <1>2, <1>3, <1>6 DEF OnceInv
  <1>7. ASSUME NEW v \in workers', v.method = "tools/call",
               v.at # "answered" \/ v.reply \in {"404", "refused"}
        PROVE  runs'[v.call].times = 0
    <2>1. v \in workers \ {w} /\ v.call \in Calls BY <1>1, <1>2, <1>7 DEF TypeOK, Worker
    <2>2. v.call # w.call BY <1>3, <1>7, <2>1 DEF OnceInv
    <2> QED BY <1>5, <1>7, <2>1, <2>2 DEF OnceInv
  <1>8. Carried BY <1>1, <1>2 DEF Carried
  <1>9. \A c \in Calls : runs'[c].times <= 1 BY <1>5 DEF OnceInv
  <1> QED BY <1>3, <1>5, <1>6, <1>7, <1>8, <1>9 DEF OnceInv

LEMMA OnceCloses ==
  ASSUME TypeOK, OnceInv, CloseSockets
  PROVE  OnceInv' /\ Carried
  <1>1. ASSUME NEW v \in workers'
        PROVE  \E w \in workers : /\ v = (IF w.at = "answered" THEN w ELSE [w EXCEPT !.heard = FALSE])
                                  /\ v.method = w.method /\ v.call = w.call /\ v.at = w.at
                                  /\ v.reply = w.reply /\ (v.heard => w.heard)
    <2>1. PICK w \in workers : v = IF w.at = "answered" THEN w ELSE [w EXCEPT !.heard = FALSE]
      BY DEF CloseSockets
    <2>2. w \in Worker BY DEF TypeOK
    <2>3. CASE w.at = "answered" BY <2>1, <2>3
    <2>4. CASE w.at # "answered"
      <3>1. v = [w EXCEPT !.heard = FALSE] BY <2>1, <2>4
      <3>2. /\ v.method = w.method /\ v.call = w.call /\ v.at = w.at
            /\ v.reply = w.reply /\ ~v.heard
        BY <2>2, <3>1 DEF Worker
      <3> QED BY <2>1, <3>2
    <2> QED BY <2>3, <2>4
  <1>2. ASSUME NEW u \in workers', NEW v \in workers', u.method = "tools/call",
               v.method = "tools/call", u.call = v.call
        PROVE  u = v
    <2>1. PICK x \in workers : /\ u = (IF x.at = "answered" THEN x ELSE [x EXCEPT !.heard = FALSE])
                               /\ u.method = x.method /\ u.call = x.call
      BY <1>1
    <2>2. PICK y \in workers : /\ v = (IF y.at = "answered" THEN y ELSE [y EXCEPT !.heard = FALSE])
                               /\ v.method = y.method /\ v.call = y.call
      BY <1>1
    <2>3. x = y BY <1>2, <2>1, <2>2 DEF OnceInv
    <2> QED BY <2>1, <2>2, <2>3
  <1>3. runs' = runs BY DEF CloseSockets
  <1>4. \A v \in workers' : v.method = "tools/call" /\ (v.at # "answered" \/ v.reply \in {"404", "refused"})
          => runs[v.call].times = 0
    BY <1>1 DEF OnceInv
  <1>5. Carried BY <1>1 DEF Carried
  <1> QED BY <1>2, <1>3, <1>4, <1>5 DEF OnceInv

LEMMA OnceServer ==
  ASSUME TypeOK, HeardInv, OnceInv, NEW w \in workers, ServerStep(w)
  PROVE  OnceInv' /\ Carried /\ \A c \in Calls : Unsent(c) => Unsent(c)'
  <1>1. CASE WorkerEnds(w)
    <2>1. workers' \subseteq workers /\ runs' = runs BY <1>1 DEF WorkerEnds
    <2> QED BY <2>1, OnceFewer DEF Carried, Unsent
  <1>2. CASE HostRuns(w)
    <2>1. OnceInv' /\ Carried /\ w.method = "tools/call" /\ \A c \in Calls \ {w.call} : runs'[c] = runs[c]
      BY <1>2, OnceRuns
    <2> QED BY <2>1 DEF Carried, Unsent
  <1>3. CASE ~WorkerEnds(w) /\ ~HostRuns(w)
    <2>1. w.at # "answered" /\ runs' = runs /\ \E to : GoesOn(w, to)
      <3>1. w.at # "answered" /\ runs' = runs
        BY <1>3 DEF ServerStep, HandleInitialize, HandleDeleteSession, ResolveSession,
           MarkSessionInitialized, Consume, HostRejects, MayRun
      <3> QED BY <1>3, <3>1, WorkerGoesOn, Zenon DEF ServerStep
    <2>2. OnceInv' /\ Carried BY <2>1, OnceGoes
    <2> QED BY <2>1, <2>2 DEF Carried, Unsent
  <1> QED BY <1>1, <1>2, <1>3

LEMMA OnceCoordinator ==
  ASSUME TypeOK, OnceInv, NEW c \in Calls,
         StartCall(c) \/ Issue(c) \/ Deny(c) \/ CallApproved(c) \/ CancelTurn(c)
  PROVE  OnceInv' /\ \A d \in Calls : Unsent(d) => Unsent(d)'
  <1>1. CASE CancelTurn(c)
    <2>1. runs' = runs /\ workers' = Unheard BY <1>1 DEF CancelTurn
    <2>2. OnceInv' /\ Carried BY <2>1, OnceQuiet
    <2> QED BY <2>1, <2>2 DEF Carried, Unsent
  <1>2. CASE ~CancelTurn(c)
    <2>1. runs' = runs /\ workers' = workers BY <1>2 DEF StartCall, Issue, Deny, CallApproved
    <2> QED BY <2>1, OnceFewer DEF Unsent
  <1> QED BY <1>1, <1>2

\* The steps of the client that send nothing.
LEMMA OnceClient ==
  ASSUME TypeOK, OnceInv,
         \/ ConnectionFails \/ RequestTimesOut \/ LifetimeEnds
         \/ Receive \/ Dispose \/ DeleteEnds \/ DeleteTimesOut
  PROVE  OnceInv' /\ \A d \in Calls : Unsent(d) => Unsent(d)'
  <1>1. CASE ConnectionFails \/ RequestTimesOut \/ LifetimeEnds \/ DeleteEnds \/ DeleteTimesOut
    <2>1. runs' = runs /\ workers' = Unheard
      BY <1>1 DEF ConnectionFails, RequestTimesOut, LifetimeEnds, DeleteEnds, DeleteTimesOut
    <2>2. OnceInv' /\ Carried BY <2>1, OnceQuiet
    <2> QED BY <2>1, <2>2 DEF Carried, Unsent
  <1>2. CASE Receive \/ Dispose
    <2>1. runs' = runs /\ workers' \subseteq workers BY <1>2 DEF Receive, Dispose
    <2> QED BY <2>1, OnceFewer DEF Unsent
  <1> QED BY <1>1, <1>2

LEMMA OnceSend ==
  ASSUME TypeOK, GateInv, OnceInv, UnsentInv, SendRequest
  PROVE  /\ OnceInv'
         /\ \A d \in Calls : Unsent(d) => Unsent(d)' \/ (NextMethod = "tools/call" /\ d = client.call)
         /\ UNCHANGED workers => \A d \in Calls : Unsent(d) => Unsent(d)'
  <1>1. runs' = runs /\ client.op \in Active /\ ~client.waits BY DEF SendRequest, Waiting
  <1>2. CASE Sends(NextMethod)
    <2>1. workers' = workers \union {Request(NextMethod)} BY <1>2, SendsFacts
    <2>2. NextMethod = "tools/call" => Unsent(client.call)
      BY <1>1, NextMethodFacts DEF UnsentInv
    <2>3. Request(NextMethod).method = NextMethod /\ Request(NextMethod).call = client.call
      BY RequestFacts
    <2> QED BY <1>1, <2>1, <2>2, <2>3, OnceSends DEF Unsent
  <1>3. CASE UNCHANGED workers BY <1>1, <1>3, OnceFewer DEF Unsent
  <1> QED BY <1>2, <1>3 DEF SendRequest

LEMMA OnceDelete ==
  ASSUME TypeOK, OnceInv, DeleteSession
  PROVE  OnceInv' /\ \A d \in Calls : Unsent(d) => Unsent(d)'
  <1>1. CASE workers' = workers \union {Request("DELETE")}
    <2>1. Request("DELETE").method = "DELETE" BY RequestFacts
    <2> QED BY <1>1, <2>1, OnceSends DEF Unsent, DeleteSession
  <1>2. CASE UNCHANGED workers BY <1>2, OnceFewer DEF Unsent, DeleteSession
  <1> QED BY <1>1, <1>2 DEF DeleteSession

LEMMA OnceApplication ==
  ASSUME TypeOK, OnceInv, Lifecycle \/ Clock
  PROVE  OnceInv' /\ Carried /\ \A d \in Calls : Unsent(d) => Unsent(d)'
  <1>1. CASE CloseSockets
    <2>1. OnceInv' /\ Carried /\ runs' = runs BY <1>1, OnceCloses DEF CloseSockets
    <2> QED BY <2>1 DEF Carried, Unsent
  <1>2. CASE ~CloseSockets
    <2>1. workers' = workers /\ runs' = runs
      BY <1>2 DEF Lifecycle, Clock, RevokeAll, ClearSessions, JoinWorkers, StartServer, GrantExpires,
         SessionsIdle
    <2> QED BY <2>1, OnceFewer DEF Carried, Unsent
  <1> QED BY <1>1, <1>2

LEMMA OnceStep == ASSUME Inv, Next PROVE OnceInv'
  BY Steps, OnceServer, OnceCoordinator, OnceClient, OnceSend, OnceDelete, OnceApplication DEF Inv

-----------------------------------------------------------------------------
(* What has not been sent. *)

Stays == \A d \in Calls : Unsent(d) => Unsent(d)'

LEMMA UnsentOver ==
  ASSUME TypeOK, UnsentInv, Stays, NEW c \in Calls, NEW code, calls' = Over(c, code),
         client'.op # "call",
         code \in {"expired", "refused", "reused", "denied"} => Unsent(c)'
  PROVE  UnsentInv'
  <1>1. /\ calls'[c].state = "over" /\ calls'[c].code = code
        /\ \A d \in Calls \ {c} : calls'[d] = calls[d]
    BY OverFacts
  <1> QED BY <1>1 DEF UnsentInv, Stays

LEMMA UnsentSame ==
  ASSUME TypeOK, UnsentInv, Stays, calls' = calls,
         client'.op = "call" => /\ ~client'.waits => Unsent(client.call)'
                                /\ \A w \in Heard' : w.method # "tools/call" => Unsent(client.call)'
  PROVE  UnsentInv'
  BY DEF UnsentInv, Stays

LEMMA UnsentEnds ==
  ASSUME TypeOK, UnsentInv, Stays, NEW code, Ends(code),
         client.op # "connect" /\ code \in {"expired", "refused", "reused", "denied"}
           => Unsent(client.call)'
  PROVE  UnsentInv'
  <1>1. client.call \in Calls /\ client'.op # "call" BY DEF TypeOK, Client, Ends
  <1> QED BY <1>1, UnsentSame, UnsentOver DEF Ends

LEMMA UnsentQuiet ==
  ASSUME TypeOK, UnsentInv, Stays, Carried, client' = client, calls' = calls
  PROVE  UnsentInv'
  <1>1. client.call \in Calls BY DEF TypeOK, Client
  <1>2. \A v \in Heard' : \E w \in Heard : v.method = w.method BY DEF Heard, Carried
  <1> QED BY <1>1, <1>2, UnsentSame DEF UnsentInv, Stays

LEMMA UnsentCoordinator ==
  ASSUME Inv, NEW c \in Calls,
         StartCall(c) \/ Issue(c) \/ Deny(c) \/ CallApproved(c) \/ CancelTurn(c)
  PROVE  UnsentInv'
  <1>0. TypeOK /\ GateInv /\ HeardInv /\ UnsentInv /\ Stays
    BY OnceCoordinator DEF Inv, Stays
  <1>1. CASE StartCall(c) \/ CallApproved(c)
    <2>1. /\ calls[c].state \in {"new", "allowed"} /\ calls'[c].state \in {"binding", "calling"}
          /\ calls'[c].code = calls[c].code /\ \A d \in Calls \ {c} : calls'[d] = calls[d]
      BY <1>1, <1>0 DEF StartCall, CallApproved, TypeOK, CallBook
    <2>2. client'.call = c /\ client.op = "idle" /\ workers' = workers
      BY <1>1, <1>0 DEF StartCall, CallApproved, TypeOK, Client
    <2>3. Heard' = {} BY <1>0, <2>2 DEF GateInv, HeardInv, Heard
    <2>4. Unsent(c) /\ Unsent(c)' BY <1>0, <2>1 DEF UnsentInv, Stays
    <2>5. calls'[c].code = "none" BY <1>0, <2>1 DEF UnsentInv
    <2>6. \A d \in Calls : calls'[d].state \in {"new", "binding", "asking", "allowed"} => Unsent(d)'
      BY <1>0, <2>1, <2>4 DEF UnsentInv, Stays
    <2>7. \A d \in Calls : /\ calls'[d].state # "over" => calls'[d].code = "none"
                           /\ calls'[d].code \in {"expired", "refused", "reused", "denied"} => Unsent(d)'
      BY <1>0, <2>1, <2>5 DEF UnsentInv, Stays
    <2>8. Unsent(client.call)' BY <2>2, <2>4 DEF Unsent
    <2> QED BY <2>3, <2>6, <2>7, <2>8 DEF UnsentInv
  <1>2. CASE Issue(c)
    <2>1. /\ calls[c].state = "asking" /\ calls'[c].state = "allowed"
          /\ calls'[c].code = calls[c].code /\ \A d \in Calls \ {c} : calls'[d] = calls[d]
      BY <1>2, <1>0 DEF Issue, TypeOK, CallBook
    <2>2. client' = client /\ workers' = workers /\ runs' = runs BY <1>2 DEF Issue
    <2>3. Heard' = Heard /\ \A d \in Calls : Unsent(d)' <=> Unsent(d) BY <2>2 DEF Heard, Unsent
    <2>4. Unsent(client.call)' <=> Unsent(client.call) BY <2>2 DEF Unsent
    <2>5. \A d \in Calls : /\ calls'[d].state # "over" => calls'[d].code = "none"
                           /\ calls'[d].code \in {"expired", "refused", "reused", "denied"} => Unsent(d)'
                           /\ calls'[d].state \in {"new", "binding", "asking", "allowed"} => Unsent(d)'
      BY <1>0, <2>1, <2>3 DEF UnsentInv
    <2> QED BY <1>0, <2>2, <2>3, <2>4, <2>5 DEF UnsentInv
  <1>3. CASE Deny(c)
    <2>1. Unsent(c)' BY <1>0, <1>3 DEF Deny, UnsentInv, Stays
    <2>2. client.op # "call"
      <3>1. calls[c].state = "asking" /\ client' = client BY <1>3 DEF Deny
      <3>2. ASSUME client.op = "call" PROVE FALSE
        <4>1. client.call \in Calls /\ calls[client.call].state = "calling"
          BY <1>0, <3>2 DEF GateInv, TypeOK, Client
        <4> QED BY <1>0, <3>1, <4>1 DEF GateInv, Busy
      <3> QED BY <3>2
    <2> QED BY <1>0, <1>3, <2>1, <2>2, UnsentOver DEF Deny
  <1>4. CASE CancelTurn(c)
    <2>1. client'.op # "call" BY <1>0, <1>4, ReleasedFacts DEF CancelTurn
    <2> QED BY <1>0, <1>4, <2>1, UnsentOver DEF CancelTurn
  <1> QED BY <1>1, <1>2, <1>3, <1>4

LEMMA UnsentSend == ASSUME Inv, SendRequest PROVE UnsentInv'
  <1>0. TypeOK /\ GateInv /\ HeardInv /\ OnceInv /\ UnsentInv /\ client.op \in Active /\ ~client.waits
    BY DEF Inv, SendRequest, Waiting
  <1>1. client.call \in Calls BY <1>0 DEF TypeOK, Client
  <1>2. client.op = "call" => Unsent(client.call) BY <1>0 DEF UnsentInv
  <1>3. CASE Fails("reused") /\ UNCHANGED workers
    <2>1. Ends("reused") BY <1>0, <1>3, FailsFacts
    <2>2. NextMethod = "tools/call" \/ ~UNCHANGED workers
      <3>1. ASSUME NextMethod # "tools/call", UNCHANGED workers PROVE FALSE
        <4>1. Sends(NextMethod) BY <3>1 DEF SendRequest
        <4>2. Request(NextMethod) \in workers BY <1>0, <3>1, <4>1, SendsFacts
        <4>3. Request(NextMethod) \in Heard BY <4>2, RequestFacts, <1>0 DEF Heard
        <4> QED BY <1>0, <4>3 DEF HeardInv
      <3> QED BY <3>1
    <2>3. client.op = "call" BY <1>0, <1>3, <2>2, NextMethodFacts
    <2>4. Stays BY <1>0, <1>3, OnceSend DEF Stays
    <2>5. Unsent(client.call)'
      <3>1. client'.call = client.call BY <2>1 DEF Ends
      <3>2. Unsent(client.call) /\ workers' = workers /\ runs' = runs BY <1>2, <1>3, <2>3 DEF SendRequest
      <3> QED BY <3>1, <3>2 DEF Unsent
    <2> QED BY <1>0, <2>1, <2>4, <2>5, UnsentEnds
  <1>4. CASE Sends(NextMethod)
    <2>1. /\ workers' = workers \union {Request(NextMethod)} /\ calls' = calls
          /\ client'.waits = TRUE /\ client'.op = client.op /\ client'.call = client.call
      BY <1>0, <1>4, SendsFacts
    <2>2. Heard' \subseteq {Request(NextMethod)} BY <1>0, <2>1 DEF HeardInv, Heard
    <2>3. Request(NextMethod).method = NextMethod BY <1>0, RequestFacts
    <2>4. \A d \in Calls : Unsent(d) => Unsent(d)' \/ (NextMethod = "tools/call" /\ d = client.call)
      BY <1>0, OnceSend
    <2>5. CASE NextMethod # "tools/call"
      <3>1. Stays BY <2>4, <2>5 DEF Stays
      <3>2. client.op = "call" => Unsent(client.call)'
        BY <1>1, <1>2, <2>1, <3>1 DEF Stays, Unsent
      <3> QED BY <1>0, <2>1, <3>1, <3>2, UnsentSame
    <2>6. CASE NextMethod = "tools/call"
      <3>1. client.op = "call" BY <1>0, <2>6, NextMethodFacts
      <3>2. calls[client.call].state = "calling" /\ calls[client.call].code = "none"
        BY <1>0, <1>1, <3>1 DEF GateInv, UnsentInv
      <3>3. \A d \in Calls : /\ calls'[d].state # "over" => calls'[d].code = "none"
                             /\ calls'[d].code \in {"expired", "refused", "reused", "denied"} => Unsent(d)'
                             /\ calls'[d].state \in {"new", "binding", "asking", "allowed"} => Unsent(d)'
        BY <1>0, <2>1, <2>4, <3>2 DEF UnsentInv
      <3>4. \A w \in Heard' : w.method = "tools/call" BY <2>2, <2>3, <2>6
      <3> QED BY <2>1, <3>3, <3>4 DEF UnsentInv
    <2> QED BY <2>5, <2>6
  <1> QED BY <1>3, <1>4 DEF SendRequest

\* A tool call that was answered with an error of the protocol did not run.
LEMMA UnsentReceive == ASSUME Inv, Receive PROVE UnsentInv'
  <1>0. /\ TypeOK /\ GateInv /\ HeardInv /\ OnceInv /\ UnsentInv /\ Stays /\ client.op \in Active
        /\ runs' = runs
    BY OnceClient DEF Inv, Receive, Stays
  <1>1. PICK w \in Heard : /\ workers' = workers \ {w} /\ w.at = "answered"
                           /\ IF w.reply = "404" THEN SessionExpired(w.method) ELSE Accepts(w)
    BY DEF Receive
  <1>2. /\ w \in workers /\ client.call \in Calls /\ w.call = client.call
        /\ w.method = "tools/call" => client.op = "call"
        /\ w.method = "ping" => client.op = "bind"
        /\ w.method # "DELETE" /\ w.reply \in Replies /\ w.method \in Methods
    BY <1>0, <1>1 DEF HeardInv, Heard, TypeOK, Client, Worker, Active
  <1>3. Heard' = {} BY <1>0, <1>1 DEF Heard, HeardInv
  <1>4. w.method = "tools/call" /\ w.reply \in {"404", "refused"} =>
          runs'[client.call].times = 0 /\ \A v \in workers' : ~(v.method = "tools/call" /\ v.call = client.call)
    BY <1>0, <1>1, <1>2 DEF OnceInv
  <1>5. w.method # "tools/call" /\ client.op = "call" => Unsent(client.call)
    BY <1>0, <1>1 DEF UnsentInv
  <1>6. client.op = "bind" => Unsent(client.call) /\ calls[client.call].state = "binding"
    BY <1>0, <1>2 DEF UnsentInv, GateInv
  <1>7. client'.call = client.call /\ (client.op # "connect" /\ (w.method # "tools/call" \/ w.reply \in {"404", "refused"})
                                         => Unsent(client.call)')
    <2>1. client'.call = client.call
      <3>1. CASE Accepts(w) BY <1>0, <1>2, <3>1, AcceptsFacts
      <3>2. CASE SessionExpired(w.method)
        BY <1>0, <1>2, <3>2, ExpiredFacts, AgainFacts DEF Ends
      <3> QED BY <1>1, <3>1, <3>2
    <2>2. CASE w.method = "tools/call" BY <1>4, <2>1, <2>2 DEF Unsent
    <2>3. CASE w.method # "tools/call"
      <3>1. client.op # "connect" => Unsent(client.call) BY <1>0, <1>5, <1>6, <2>3 DEF Active
      <3> QED BY <1>1, <1>0, <2>1, <2>3, <3>1 DEF Unsent
    <2> QED BY <2>1, <2>2, <2>3
  <1>8. CASE SessionExpired(w.method) /\ w.reply = "404"
    <2>1. CASE Ends("expired") BY <1>0, <1>7, <1>8, <2>1, UnsentEnds
    <2>2. CASE client' = Again /\ calls' = calls
      <3>1. client'.op = client.op BY <1>0, <2>2, AgainFacts
      <3> QED BY <1>0, <1>3, <1>7, <1>8, <2>2, <3>1, UnsentSame
    <2> QED BY <1>0, <1>2, <1>8, <2>1, <2>2, ExpiredFacts
  <1>9. CASE Accepts(w)
    <2>1. CASE w.method \in {"initialize", "notifications/initialized", "tools/list"}
      <3>1. calls' = calls /\ client'.op \in {client.op, "idle"}
        BY <1>0, <1>2, <1>9, <2>1, AcceptsFacts, AcceptedCall
      <3> QED BY <1>0, <1>3, <1>7, <2>1, <3>1, UnsentSame
    <2>2. CASE w.method = "ping"
      <3>1. /\ calls'[client.call].state = "asking"
            /\ calls'[client.call].code = calls[client.call].code
            /\ \A d \in Calls \ {client.call} : calls'[d] = calls[d]
        BY <1>0, <1>2, <1>9, <2>2, AcceptedCall
      <3>2. client'.op = "idle" BY <1>0, <1>2, <1>9, <2>2, AcceptsFacts
      <3>3. Unsent(client.call) /\ calls[client.call].code = "none"
        BY <1>0, <1>2, <1>6, <2>2 DEF UnsentInv
      <3>4. \A d \in Calls : /\ calls'[d].state # "over" => calls'[d].code = "none"
                             /\ calls'[d].code \in {"expired", "refused", "reused", "denied"} => Unsent(d)'
                             /\ calls'[d].state \in {"new", "binding", "asking", "allowed"} => Unsent(d)'
        BY <1>0, <1>2, <3>1, <3>3 DEF UnsentInv, Stays
      <3> QED BY <1>3, <3>2, <3>4 DEF UnsentInv
    <2>3. CASE w.method = "tools/call"
      <3>1. calls' = Over(client.call, w.reply) /\ client'.op = "idle"
        BY <1>0, <1>2, <1>9, <2>3, AcceptsFacts, AcceptedCall
      <3>2. \A c \in Calls : c = client.call /\ w.reply \in {"expired", "refused", "reused", "denied"}
                                => Unsent(c)'
        BY <1>2, <1>4, <2>3 DEF Replies, Unsent
      <3> QED BY <1>0, <1>2, <3>1, <3>2, UnsentOver
    <2> QED BY <1>2, <2>1, <2>2, <2>3 DEF Methods
  <1> QED BY <1>1, <1>8, <1>9

LEMMA UnsentClient ==
  ASSUME Inv, ConnectionFails \/ RequestTimesOut \/ LifetimeEnds \/ DeleteEnds \/ DeleteTimesOut
  PROVE  UnsentInv'
  <1>0. TypeOK /\ UnsentInv /\ Stays BY OnceClient DEF Inv, Stays
  <1>1. CASE ConnectionFails \/ RequestTimesOut \/ LifetimeEnds
    <2>1. Ends("lost") \/ Ends("timeout")
      BY <1>0, <1>1, FailsFacts DEF ConnectionFails, RequestTimesOut, LifetimeEnds
    <2> QED BY <1>0, <2>1, UnsentEnds
  <1>2. CASE DeleteEnds \/ DeleteTimesOut
    <2>1. client'.op = "gone" /\ calls' = calls
      BY <1>0, <1>2 DEF DeleteEnds, DeleteTimesOut, TypeOK, Client
    <2> QED BY <1>0, <2>1, UnsentSame
  <1> QED BY <1>1, <1>2

LEMMA UnsentDispose == ASSUME Inv, Dispose \/ DeleteSession PROVE UnsentInv'
  <1>0. TypeOK /\ GateInv /\ UnsentInv /\ Stays BY OnceClient, OnceDelete DEF Inv, Stays
  <1>1. CASE Dispose
    <2>1. /\ client'.op = client.op /\ client'.waits = client.waits /\ client'.call = client.call
          /\ workers' = workers /\ calls' = calls /\ runs' = runs
      BY <1>0, <1>1 DEF Dispose, TypeOK, Client
    <2>2. Heard' = Heard /\ (Unsent(client.call)' <=> Unsent(client.call)) BY <2>1 DEF Heard, Unsent
    <2> QED BY <1>0, <2>1, <2>2, UnsentSame DEF UnsentInv
  <1>2. CASE DeleteSession
    <2>1. \A d \in Calls : IF d \in Busy
                           THEN calls'[d].state = "over" /\ calls'[d].code = "cancelled"
                           ELSE calls'[d] = calls[d]
      BY <1>0, <1>2 DEF DeleteSession, TypeOK, CallBook
    <2>2. client'.op = "closing" BY <1>0, <1>2 DEF DeleteSession, TypeOK, Client
    <2> QED BY <1>0, <2>1, <2>2 DEF UnsentInv, Stays
  <1> QED BY <1>1, <1>2

LEMMA UnsentStep == ASSUME Inv, Next PROVE UnsentInv'
  <1>1. ASSUME NEW w \in workers, ServerStep(w) PROVE UnsentInv'
    <2>1. client' = client /\ calls' = calls
      BY <1>1 DEF ServerStep, HandleInitialize, HandleDeleteSession, ResolveSession,
         MarkSessionInitialized, Consume, HostRuns, HostRejects, WorkerEnds
    <2>2. Carried /\ Stays BY <1>1, OnceServer DEF Inv, Stays
    <2> QED BY <2>1, <2>2, UnsentQuiet DEF Inv
  <1>2. CASE Lifecycle \/ Clock
    <2>1. client' = client /\ calls' = calls
      BY <1>2 DEF Lifecycle, Clock, RevokeAll, CloseSockets, ClearSessions, JoinWorkers, StartServer,
         GrantExpires, SessionsIdle
    <2>2. Carried /\ Stays BY <1>2, OnceApplication DEF Inv, Stays
    <2> QED BY <2>1, <2>2, UnsentQuiet DEF Inv
  <1> QED BY <1>1, <1>2, Steps, UnsentCoordinator, UnsentSend, UnsentReceive, UnsentClient, UnsentDispose

-----------------------------------------------------------------------------
(* Sessions and approvals. *)

BookSame ==
  \A c \in Calls : calls'[c].start = calls[c].start /\ calls'[c].bound \in {calls[c].bound, client.sid}

GrantsOlder ==
  \A h \in grants' : \E g \in grants : h.call = g.call /\ h.session = g.session

\* Nobody gets further on the way to the host.
NoneFurther ==
  \A v \in workers' :
    \/ v.at \notin {"resolved", "authorized"} /\ v.sid \in {0, client.sid}
    \/ \E w \in workers :
         /\ v.sid = w.sid
         /\ \/ v.at \notin {"resolved", "authorized"}
            \/ v.method = w.method /\ v.call = w.call /\ v.at = w.at /\ (v.ready <=> w.ready)

SessionsQuiet ==
  /\ Live' \subseteq Live /\ sessions'.born = sessions.born /\ server'.start = server.start
  /\ client'.sid \in {0, client.sid} \union {w.sid : w \in workers}
  /\ server'.is = "down" => workers' = {}

LEMMA QuietStep ==
  ASSUME TypeOK, SessionInv, ApprovalInv,
         BookSame, GrantsOlder, NoneFurther, SessionsQuiet, runs' = runs
  PROVE  SessionInv' /\ ApprovalInv'
  <1>0. /\ sessions.born \in Nat /\ client.sid \in Nat
        /\ \A w \in workers : w.call \in Calls /\ \A g \in grants : g.call \in Calls
    BY DEF TypeOK, Client, Worker, Grant
  <1>1. SessionInv'
    <2>1. \A s \in Live' : s \in 1..sessions'.born BY DEF SessionsQuiet, SessionInv
    <2>2. \A g \in grants' : g.session <= sessions'.born
      BY DEF SessionsQuiet, SessionInv, GrantsOlder
    <2>3. \A w \in workers' : w.sid <= sessions'.born
      BY <1>0 DEF SessionsQuiet, SessionInv, NoneFurther
    <2>4. \A c \in Calls : calls'[c].bound <= sessions'.born
      BY <1>0 DEF SessionsQuiet, SessionInv, BookSame
    <2>5. client'.sid <= sessions'.born
      BY <1>0 DEF SessionsQuiet, SessionInv
    <2> QED BY <2>1, <2>2, <2>3, <2>4, <2>5 DEF SessionInv, SessionsQuiet
  <1>2. ApprovalInv'
    <2>1. ASSUME NEW h \in grants', h.session \in Live' PROVE calls'[h.call].start = server'.start
      <3>1. PICK g \in grants : h.call = g.call /\ h.session = g.session BY DEF GrantsOlder
      <3> QED BY <1>0, <2>1, <3>1 DEF ApprovalInv, SessionsQuiet, BookSame, TypeOK, Grant
    <2>2. ASSUME NEW v \in workers', NEW h \in grants', v.method = "tools/call", v.at = "resolved",
                 v.ready, h.call = v.call, h.session = v.sid
          PROVE  calls'[v.call].start = server'.start
      <3>1. PICK g \in grants : h.call = g.call /\ h.session = g.session BY DEF GrantsOlder
      <3>2. PICK w \in workers : /\ v.sid = w.sid /\ v.method = w.method /\ v.call = w.call
                                 /\ v.at = w.at /\ (v.ready <=> w.ready)
        BY <2>2 DEF NoneFurther
      <3> QED BY <1>0, <2>2, <3>1, <3>2 DEF ApprovalInv, SessionsQuiet, BookSame
    <2>3. ASSUME NEW v \in workers', v.at = "authorized"
          PROVE  v.method = "tools/call" /\ calls'[v.call].start = server'.start
      <3>1. PICK w \in workers : v.method = w.method /\ v.call = w.call /\ v.at = w.at
        BY <2>3 DEF NoneFurther
      <3> QED BY <1>0, <2>3, <3>1 DEF ApprovalInv, SessionsQuiet, BookSame
    <2>4. ApprovalDiesWithItsServer'
      BY DEF ApprovalInv, ApprovalDiesWithItsServer, BookSame, Calls
    <2> QED BY <2>1, <2>2, <2>3, <2>4 DEF ApprovalInv
  <1> QED BY <1>1, <1>2

LEMMA NoneFurtherFewer == ASSUME workers' \subseteq workers PROVE NoneFurther
  BY DEF NoneFurther

LEMMA NoneFurtherUnheard == ASSUME TypeOK, workers' = Unheard PROVE NoneFurther
  BY UnheardFacts DEF NoneFurther

LEMMA NoneFurtherRequest ==
  ASSUME TypeOK, NEW m, workers' = workers \union {Request(m)}
  PROVE  NoneFurther
  <1>1. Request(m).at = "sent" /\ Request(m).sid \in {0, client.sid} BY RequestFacts
  <1>2. \A v \in workers' : v \in workers \/ v = Request(m) BY DEF Request
  <1> QED BY <1>1, <1>2 DEF NoneFurther

LEMMA NoneFurtherGoes ==
  ASSUME TypeOK, NEW w \in workers, NEW to, Goes(w, to), to.at = "answered", to.sid = w.sid
  PROVE  NoneFurther
  <1>1. \A v \in workers' : v \in workers \/ v = to BY GoesFacts
  <1> QED BY <1>1 DEF NoneFurther

\* The server is as it was; workers may have come while it listens.
LEMMA SessionsSame ==
  ASSUME SessionInv, sessions' = sessions, server' = server, workers = {} => workers' = {} \/ Listening,
         client'.sid \in {0, client.sid} \union {w.sid : w \in workers}
  PROVE  SessionsQuiet
  BY DEF SessionsQuiet, SessionInv, Live, Listening

LEMMA BookOver ==
  ASSUME TypeOK, NEW c \in Calls, NEW code, calls' = calls \/ calls' = Over(c, code)
  PROVE  BookSame
  BY OverFacts DEF BookSame

LEMMA ApprovalCoordinator ==
  ASSUME Inv, NEW c \in Calls, StartCall(c) \/ Deny(c) \/ CallApproved(c) \/ CancelTurn(c)
  PROVE  SessionInv' /\ ApprovalInv'
  <1>0. TypeOK /\ SessionInv /\ ApprovalInv BY DEF Inv
  <1>1. /\ grants' = grants /\ sessions' = sessions /\ server' = server /\ runs' = runs
        /\ GrantsOlder
    BY DEF StartCall, Deny, CallApproved, CancelTurn, GrantsOlder
  <1>2. BookSame
    <2>1. CASE StartCall(c) \/ CallApproved(c)
      BY <1>0, <2>1 DEF StartCall, CallApproved, TypeOK, CallBook, BookSame
    <2>2. CASE Deny(c) \/ CancelTurn(c) BY <1>0, <2>2, BookOver DEF Deny, CancelTurn
    <2> QED BY <2>1, <2>2
  <1>3. NoneFurther /\ (workers = {} => workers' = {})
    <2>1. CASE CancelTurn(c)
      BY <1>0, <2>1, NoneFurtherUnheard DEF CancelTurn, Unheard, Working
    <2>2. CASE ~CancelTurn(c) BY <2>2, NoneFurtherFewer DEF StartCall, Deny, CallApproved
    <2> QED BY <2>1, <2>2
  <1>4. client'.sid = client.sid
    BY <1>0, ReleasedFacts DEF StartCall, Deny, CallApproved, CancelTurn, TypeOK, Client
  <1>5. SessionsQuiet BY <1>0, <1>1, <1>3, <1>4, SessionsSame
  <1> QED BY <1>0, <1>1, <1>2, <1>3, <1>5, QuietStep

\* Allow binds the call to the server's present start.
LEMMA ApprovalIssue ==
  ASSUME Inv, NEW c \in Calls, Issue(c)
  PROVE  SessionInv' /\ ApprovalInv'
  <1>0. TypeOK /\ UnsentInv /\ SessionInv /\ ApprovalInv BY DEF Inv
  <1>1. /\ calls'[c].start = server.start /\ calls'[c].bound = calls[c].bound
        /\ \A d \in Calls \ {c} : calls'[d] = calls[d]
    BY <1>0 DEF Issue, TypeOK, CallBook
  <1>2. runs[c].times = 0 BY <1>0 DEF UnsentInv, Unsent, Issue
  <1>3. /\ UNCHANGED <<client, workers, server, sessions, runs>> /\ Live' = Live
        /\ \A h \in grants' : h \in grants \/ (h.call = c /\ h.session = calls[c].bound)
    BY DEF Issue, Live
  <1>4. /\ \A w \in workers : w.call \in Calls
        /\ \A h \in grants' : h.call \in Calls
        /\ \A g \in grants : g.call \in Calls
    BY <1>0, <1>3 DEF TypeOK, Worker, Grant
  <1>5. SessionInv'
    <2>1. \A g \in grants' : g.session <= sessions.born BY <1>0, <1>3 DEF SessionInv
    <2>2. \A d \in Calls : calls'[d].bound <= sessions.born BY <1>0, <1>1 DEF SessionInv
    <2> QED BY <1>0, <1>3, <2>1, <2>2 DEF SessionInv
  <1>6. \A d \in Calls : calls[d].start = server.start => calls'[d].start = server.start
    BY <1>1
  <1>7. \A h \in grants' : h.session \in Live => calls'[h.call].start = server.start
    BY <1>0, <1>1, <1>3, <1>4, <1>6 DEF ApprovalInv
  <1>8. \A w \in workers, h \in grants' :
          w.method = "tools/call" /\ w.at = "resolved" /\ w.ready /\ h.call = w.call /\ h.session = w.sid
            => calls'[w.call].start = server.start
    BY <1>0, <1>1, <1>3, <1>4, <1>6 DEF ApprovalInv
  <1>9. \A w \in workers : w.at = "authorized" =>
          w.method = "tools/call" /\ calls'[w.call].start = server.start
    BY <1>0, <1>4, <1>6 DEF ApprovalInv
  <1>10. \A d \in Mutations : runs[d].times > 0 => runs[d].start = calls'[d].start
    BY <1>0, <1>1, <1>2 DEF ApprovalInv, ApprovalDiesWithItsServer, Calls
  <1> QED BY <1>3, <1>5, <1>7, <1>8, <1>9, <1>10 DEF ApprovalInv, ApprovalDiesWithItsServer

LEMMA ApprovalClient ==
  ASSUME Inv,
         \/ SendRequest \/ ConnectionFails \/ RequestTimesOut \/ LifetimeEnds \/ Receive
         \/ Dispose \/ DeleteSession \/ DeleteEnds \/ DeleteTimesOut
  PROVE  SessionInv' /\ ApprovalInv'
  <1>0. TypeOK /\ GateInv /\ HeardInv /\ SessionInv /\ ApprovalInv /\ client.call \in Calls
    BY DEF Inv, TypeOK, Client
  <1>1. /\ grants' = grants /\ sessions' = sessions /\ server' = server /\ runs' = runs
        /\ GrantsOlder
    BY DEF SendRequest, ConnectionFails, RequestTimesOut, LifetimeEnds, Receive, Dispose,
       DeleteSession, DeleteEnds, DeleteTimesOut, GrantsOlder
  <1>2. SUFFICES /\ BookSame /\ NoneFurther /\ (workers = {} => workers' = {} \/ Listening)
                 /\ client'.sid \in {0, client.sid} \union {w.sid : w \in workers}
    BY <1>0, <1>1, SessionsSame, QuietStep
  <1>3. \A code : Ends(code) => BookSame /\ client'.sid \in {0, client.sid}
    BY <1>0, BookOver DEF Ends
  <1>4. workers' = Unheard => NoneFurther /\ (workers = {} => workers' = {})
    BY <1>0, NoneFurtherUnheard DEF Unheard, Working
  <1>5. CASE SendRequest
    <2>1. CASE Sends(NextMethod)
      <3>1. /\ workers' = workers \union {Request(NextMethod)} /\ calls' = calls
            /\ client'.sid = client.sid /\ Listening
        BY <1>0, <2>1, SendsFacts DEF Listening
      <3> QED BY <1>0, <3>1, NoneFurtherRequest DEF BookSame
    <2>2. CASE Fails("reused") /\ UNCHANGED workers
      BY <1>0, <1>3, <2>2, FailsFacts, NoneFurtherFewer
    <2> QED BY <1>5, <2>1, <2>2 DEF SendRequest
  <1>6. CASE ConnectionFails \/ RequestTimesOut \/ LifetimeEnds
    BY <1>0, <1>3, <1>4, <1>6, FailsFacts DEF ConnectionFails, RequestTimesOut, LifetimeEnds
  <1>7. CASE Receive
    <2>1. PICK w \in Heard : /\ workers' = workers \ {w}
                             /\ SessionExpired(w.method) \/ Accepts(w)
      BY <1>7 DEF Receive
    <2>2. w \in workers /\ (w.method = "tools/call" => client.op = "call")
      BY <1>0 DEF Heard, HeardInv
    <2>3. NoneFurther /\ (workers = {} => workers' = {}) BY <2>1, NoneFurtherFewer
    <2>4. CASE SessionExpired(w.method)
      <3>1. Ends("expired") \/ (client' = Again /\ calls' = calls)
        BY <1>0, <2>2, <2>4, ExpiredFacts
      <3>2. Again.sid = 0 BY <1>0, AgainFacts
      <3> QED BY <1>3, <2>3, <3>1, <3>2 DEF BookSame
    <2>5. CASE Accepts(w)
      <3>1. client'.sid \in {client.sid, w.sid} BY <1>0, <2>2, <2>5, AcceptsFacts
      <3>2. CASE w.method = "ping"
        BY <1>0, <2>2, <2>3, <2>5, <3>1, <3>2, AcceptedCall DEF BookSame
      <3>3. CASE w.method # "ping"
        <4>1. calls' = calls \/ calls' = Over(client.call, w.reply)
          BY <1>0, <2>2, <2>5, <3>3, AcceptedCall
        <4> QED BY <1>0, <2>2, <2>3, <3>1, <4>1, BookOver
      <3> QED BY <3>2, <3>3
    <2> QED BY <2>1, <2>4, <2>5
  <1>8. CASE Dispose
    <2>1. client'.sid = client.sid BY <1>0, <1>8 DEF Dispose, TypeOK, Client
    <2> QED BY <1>8, <2>1, NoneFurtherFewer DEF Dispose, BookSame
  <1>9. CASE DeleteSession
    <2>1. client'.sid = client.sid BY <1>0, <1>9 DEF DeleteSession, TypeOK, Client
    <2>2. BookSame BY <1>0, <1>9 DEF DeleteSession, TypeOK, CallBook, BookSame
    <2> QED BY <1>0, <1>9, <2>1, <2>2, NoneFurtherFewer, NoneFurtherRequest DEF DeleteSession
  <1>10. CASE DeleteEnds \/ DeleteTimesOut
    <2>1. client'.sid = 0 /\ calls' = calls /\ workers' = Unheard
      BY <1>0, <1>10 DEF DeleteEnds, DeleteTimesOut, TypeOK, Client, NoSession
    <2> QED BY <1>4, <2>1 DEF BookSame
  <1> QED BY <1>5, <1>6, <1>7, <1>8, <1>9, <1>10

LEMMA ApprovalWorkers ==
  ASSUME Inv, NEW w \in workers,
         \/ HandleDeleteSession(w) \/ MarkSessionInitialized(w) \/ HostRejects(w) \/ WorkerEnds(w)
  PROVE  SessionInv' /\ ApprovalInv'
  <1>0. TypeOK /\ HeardInv /\ SessionInv /\ ApprovalInv BY DEF Inv
  <1>1. /\ grants' = grants /\ server' = server /\ runs' = runs /\ calls' = calls /\ client' = client
        /\ GrantsOlder /\ BookSame
    BY DEF HandleDeleteSession, MarkSessionInitialized, HostRejects, WorkerEnds, GrantsOlder, BookSame
  <1>2. Live' \subseteq Live /\ sessions'.born = sessions.born
    <2>1. CASE HandleDeleteSession(w)
      BY <1>0, <2>1 DEF HandleDeleteSession, Live, TypeOK
    <2>2. CASE MarkSessionInitialized(w)
      BY <1>0, <2>2 DEF MarkSessionInitialized, Live, TypeOK
    <2>3. CASE HostRejects(w) \/ WorkerEnds(w)
      BY <2>3 DEF HostRejects, WorkerEnds, Live
    <2> QED BY <2>1, <2>2, <2>3
  <1>3. NoneFurther
    <2>1. CASE WorkerEnds(w)
      <3>1. workers' \subseteq workers BY <2>1 DEF WorkerEnds
      <3> QED BY <3>1, NoneFurtherFewer
    <2>2. CASE ~WorkerEnds(w)
      <3>1. \E reply \in Replies : Goes(w, Answered(w, reply))
        BY <2>2 DEF HandleDeleteSession, MarkSessionInitialized, HostRejects, Replies
      <3>2. PICK reply \in Replies : Goes(w, Answered(w, reply)) BY <3>1
      <3>3. Answered(w, reply).at = "answered" /\ Answered(w, reply).sid = w.sid
        BY <1>0, AnsweredFacts
      <3> QED BY <1>0, <3>2, <3>3, NoneFurtherGoes
    <2> QED BY <2>1, <2>2
  <1>4. SessionsQuiet BY <1>0, <1>1, <1>2 DEF SessionsQuiet, SessionInv
  <1> QED BY <1>0, <1>1, <1>3, <1>4, QuietStep

LEMMA ApprovalInitialize ==
  ASSUME Inv, NEW w \in workers, HandleInitialize(w)
  PROVE  SessionInv' /\ ApprovalInv'
  <1>0. /\ TypeOK /\ HeardInv /\ SessionInv /\ ApprovalInv
        /\ sessions.born \in Nat /\ client.sid \in Nat
    BY DEF Inv, TypeOK, Client
  <1>1. UNCHANGED <<client, used, calls, server, grants, runs>> /\ server.is # "down"
    BY <1>0 DEF HandleInitialize, SessionInv
  <1>2. sessions'.born = sessions.born + 1 /\ Live' = Live \union {sessions.born + 1}
    BY <1>0 DEF HandleInitialize, TypeOK, Live
  <1>3. PICK to : /\ to.at = "answered" /\ to.sid = sessions.born + 1
                  /\ \A v \in workers' : v \in workers \/ v = to
    <2>1. Goes(w, [Answered(w, "ok") EXCEPT !.sid = sessions.born + 1]) BY DEF HandleInitialize
    <2>2. LET to == [Answered(w, "ok") EXCEPT !.sid = sessions.born + 1]
          IN /\ to.at = "answered" /\ to.sid = sessions.born + 1
             /\ \A v \in workers' : v \in workers \/ v = to
      BY <1>0, <2>1, WorkerSteps, GoesFacts
    <2> QED BY <2>2
  <1>4. /\ \A v \in workers : v.sid \in Nat
        /\ \A g \in grants : g.session \in Nat /\ g.call \in Calls
        /\ \A c \in Calls : calls[c].bound \in Nat
    BY <1>0 DEF TypeOK, Worker, Grant, CallBook
  <1>5. SessionInv'
    <2>1. \A v \in workers' : v.sid <= sessions.born + 1 BY <1>0, <1>3, <1>4 DEF SessionInv
    <2>2. \A s \in Live' : s \in 1..(sessions.born + 1) BY <1>0, <1>2 DEF SessionInv
    <2>3. \A g \in grants : g.session <= sessions.born + 1 BY <1>0, <1>4 DEF SessionInv
    <2>4. \A c \in Calls : calls[c].bound <= sessions.born + 1 BY <1>0, <1>4 DEF SessionInv
    <2>5. client.sid <= sessions.born + 1 BY <1>0 DEF SessionInv
    <2> QED BY <1>1, <1>2, <2>1, <2>2, <2>3, <2>4, <2>5 DEF SessionInv
  <1>6. ApprovalInv'
    <2>1. \A g \in grants : g.session \in Live' => g.session \in Live
      BY <1>0, <1>2, <1>4 DEF SessionInv
    <2>2. \A v \in workers' : v.at \in {"resolved", "authorized"} => v \in workers BY <1>3
    <2> QED BY <1>0, <1>1, <2>1, <2>2 DEF ApprovalInv, ApprovalDiesWithItsServer
  <1> QED BY <1>5, <1>6

\* The look-up of the session decides which grants a call may use.
LEMMA ApprovalResolve ==
  ASSUME Inv, NEW w \in workers, ResolveSession(w)
  PROVE  SessionInv' /\ ApprovalInv'
  <1>0. TypeOK /\ HeardInv /\ SessionInv /\ ApprovalInv BY DEF Inv
  <1>1. /\ grants' = grants /\ server' = server /\ runs' = runs /\ calls' = calls /\ client' = client
        /\ sessions' = sessions /\ GrantsOlder /\ BookSame
    BY DEF ResolveSession, GrantsOlder, BookSame
  <1>2. SessionsQuiet BY <1>0, <1>1 DEF SessionsQuiet, SessionInv, Live
  <1>3. CASE \E reply \in Replies : GoesOn(w, Answered(w, reply))
    <2>1. NoneFurther BY <1>0, <1>3, AnsweredFacts, NoneFurtherGoes DEF GoesOn
    <2> QED BY <1>0, <1>1, <1>2, <2>1, QuietStep
  <1>4. CASE w.sid \in Live /\ \E to : /\ to.at = "resolved" /\ to.sid = w.sid
                                       /\ to.method = w.method /\ to.call = w.call
                                       /\ \A v \in workers' : v \in workers \/ v = to
    <2>1. PICK to : /\ to.at = "resolved" /\ to.sid = w.sid /\ to.method = w.method /\ to.call = w.call
                    /\ \A v \in workers' : v \in workers \/ v = to
      BY <1>4
    <2>2. SessionInv' BY <1>0, <1>1, <2>1 DEF SessionInv, Live
    <2>3. \A g \in grants : g.call = w.call /\ g.session = w.sid => calls[w.call].start = server.start
      BY <1>0, <1>4 DEF ApprovalInv
    <2> QED BY <1>0, <1>1, <2>1, <2>2, <2>3 DEF ApprovalInv, ApprovalDiesWithItsServer, Live
  <1>5. CASE /\ GoesOn(w, [w EXCEPT !.at = "resolved", !.ready = w.sid \in sessions.ready])
             /\ w.sid \in Live
    <2> DEFINE to == [w EXCEPT !.at = "resolved", !.ready = w.sid \in sessions.ready]
    <2>1. to.at = "resolved" /\ to.sid = w.sid /\ to.method = w.method /\ to.call = w.call
      BY <1>0, WorkerSteps, Zenon
    <2>2. Goes(w, to) BY <1>5, Zenon DEF GoesOn
    <2> HIDE DEF to
    <2>3. \A v \in workers' : v \in workers \/ v = to BY <1>0, <2>2, GoesFacts
    <2> QED BY <1>4, <1>5, <2>1, <2>3
  <1> QED BY <1>0, <1>3, <1>5, WorkerGoesOn, Zenon DEF Replies

LEMMA ApprovalConsume ==
  ASSUME Inv, NEW w \in workers, Consume(w)
  PROVE  SessionInv' /\ ApprovalInv'
  <1>0. TypeOK /\ HeardInv /\ SessionInv /\ ApprovalInv BY DEF Inv
  <1>1. /\ grants' \subseteq grants /\ server' = server /\ runs' = runs /\ calls' = calls
        /\ client' = client /\ sessions' = sessions /\ GrantsOlder /\ BookSame
        /\ w.method = "tools/call" /\ w.at = "resolved"
    BY DEF Consume, GrantsOlder, BookSame
  <1>2. SessionsQuiet BY <1>0, <1>1 DEF SessionsQuiet, SessionInv, Live
  <1>3. CASE GoesOn(w, Answered(w, "refused"))
    <2>1. Answered(w, "refused").at = "answered" /\ Answered(w, "refused").sid = w.sid
      BY <1>0, AnsweredFacts DEF Replies
    <2>2. NoneFurther BY <1>0, <1>3, <2>1, NoneFurtherGoes DEF GoesOn
    <2> QED BY <1>0, <1>1, <1>2, <2>2, QuietStep
  <1>4. CASE GoesOn(w, [w EXCEPT !.at = "authorized"]) /\ \E g \in grants : w.ready /\ Pays(g, w)
    <2>1. PICK to : /\ to.at = "authorized" /\ to.sid = w.sid /\ to.method = w.method /\ to.call = w.call
                    /\ \A v \in workers' : v \in workers \/ v = to
      <3>1. LET to == [w EXCEPT !.at = "authorized"]
            IN /\ to.at = "authorized" /\ to.sid = w.sid /\ to.method = w.method /\ to.call = w.call
               /\ \A v \in workers' : v \in workers \/ v = to
        BY <1>0, <1>4, WorkerSteps, GoesFacts DEF GoesOn
      <3> QED BY <3>1
    <2>2. SessionInv' BY <1>0, <1>1, <2>1 DEF SessionInv, Live
    <2>3. calls[w.call].start = server.start
      BY <1>0, <1>1, <1>4 DEF ApprovalInv, Pays, Matches
    <2> QED BY <1>0, <1>1, <2>1, <2>2, <2>3 DEF ApprovalInv, ApprovalDiesWithItsServer, Live
  <1> QED BY <1>0, <1>3, <1>4, WorkerGoesOn

\* A mutation runs under the start it was approved under.
LEMMA ApprovalRuns ==
  ASSUME Inv, NEW w \in workers, HostRuns(w)
  PROVE  SessionInv' /\ ApprovalInv'
  <1>0. TypeOK /\ HeardInv /\ SessionInv /\ ApprovalInv BY DEF Inv
  <1>1. /\ grants' = grants /\ server' = server /\ calls' = calls /\ client' = client
        /\ sessions' = sessions
    BY DEF HostRuns
  <1>2. \A v \in workers' : v \in workers \/ (v.at = "answered" /\ v.sid = w.sid)
    <2>1. Goes(w, Answered(w, "ok")) BY DEF HostRuns
    <2>2. Answered(w, "ok").at = "answered" /\ Answered(w, "ok").sid = w.sid
      BY <1>0, AnsweredFacts DEF Replies
    <2> QED BY <1>0, <2>1, <2>2, GoesFacts
  <1>3. w.call \in Calls BY <1>0 DEF TypeOK, Worker
  <1>4. w.call \in Mutations => calls[w.call].start = server.start
    <2>1. w.call \in Mutations => w.at = "authorized" BY CallsAssumption DEF HostRuns, MayRun
    <2> QED BY <1>0, <2>1 DEF ApprovalInv
  <1>5. runs'[w.call].start = server.start /\ \A c \in Calls \ {w.call} : runs'[c] = runs[c]
    BY <1>0, <1>3 DEF HostRuns, TypeOK
  <1>6. ApprovalDiesWithItsServer'
    BY <1>0, <1>1, <1>4, <1>5 DEF ApprovalInv, ApprovalDiesWithItsServer, Calls
  <1>7. SessionInv' BY <1>0, <1>1, <1>2 DEF SessionInv, Live
  <1> QED BY <1>0, <1>1, <1>2, <1>6, <1>7 DEF ApprovalInv, Live

LEMMA ApprovalApplication ==
  ASSUME Inv, RevokeAll \/ CloseSockets \/ ClearSessions \/ JoinWorkers \/ Clock
  PROVE  SessionInv' /\ ApprovalInv'
  <1>0. TypeOK /\ SessionInv /\ ApprovalInv BY DEF Inv
  <1>1. /\ runs' = runs /\ calls' = calls /\ client' = client /\ BookSame
    BY DEF RevokeAll, CloseSockets, ClearSessions, JoinWorkers, Clock, GrantExpires, SessionsIdle, BookSame
  <1>2. GrantsOlder
    <2>0. \A g \in Grant : [g EXCEPT !.fresh = FALSE].call = g.call
                            /\ [g EXCEPT !.fresh = FALSE].session = g.session
      BY DEF Grant
    <2>1. ASSUME NEW g \in grants, GrantExpires(g) PROVE GrantsOlder
      <3>1. g \in Grant /\ \A h \in grants' : h \in grants \/ h = [g EXCEPT !.fresh = FALSE]
        BY <1>0, <2>1 DEF GrantExpires, TypeOK
      <3> QED BY <2>0, <3>1 DEF GrantsOlder
    <2>2. CASE SessionsIdle
      <3>1. \A h \in grants' : \E g \in grants : h = [g EXCEPT !.fresh = FALSE] BY <2>2 DEF SessionsIdle
      <3>2. grants \subseteq Grant BY <1>0 DEF TypeOK
      <3> QED BY <2>0, <3>1, <3>2 DEF GrantsOlder
    <2>3. CASE RevokeAll \/ CloseSockets \/ ClearSessions \/ JoinWorkers
      BY <2>3 DEF RevokeAll, CloseSockets, ClearSessions, JoinWorkers, GrantsOlder
    <2> QED BY <2>1, <2>2, <2>3 DEF Clock
  <1>3. NoneFurther
    <2>1. CASE CloseSockets
      <3>1. ASSUME NEW v \in workers'
            PROVE  \E w \in workers : /\ v.sid = w.sid /\ v.method = w.method /\ v.call = w.call
                                      /\ v.at = w.at /\ (v.ready <=> w.ready)
        <4>1. PICK w \in workers : v = IF w.at = "answered" THEN w ELSE [w EXCEPT !.heard = FALSE]
          BY <2>1 DEF CloseSockets
        <4>2. w \in Worker BY <1>0 DEF TypeOK
        <4>3. CASE w.at = "answered" BY <4>1, <4>3
        <4>4. CASE w.at # "answered"
          <5>1. v = [w EXCEPT !.heard = FALSE] BY <4>1, <4>4
          <5>2. v.sid = w.sid /\ v.method = w.method /\ v.call = w.call /\ v.at = w.at /\ v.ready = w.ready
            BY <4>2, <5>1 DEF Worker
          <5> QED BY <5>2
        <4> QED BY <4>3, <4>4
      <3> QED BY <3>1 DEF NoneFurther
    <2>2. CASE ~CloseSockets
      BY <2>2, NoneFurtherFewer DEF RevokeAll, ClearSessions, JoinWorkers, Clock, GrantExpires, SessionsIdle
    <2> QED BY <2>1, <2>2
  <1>4. SessionsQuiet
    <2>1. CASE RevokeAll BY <1>0, <1>1, <2>1 DEF RevokeAll, TypeOK, SessionsQuiet, Live
    <2>2. CASE CloseSockets BY <1>0, <1>1, <2>2 DEF CloseSockets, TypeOK, SessionsQuiet, Live
    <2>3. CASE ClearSessions BY <1>0, <1>1, <2>3 DEF ClearSessions, TypeOK, SessionsQuiet, Live
    <2>4. CASE JoinWorkers BY <1>0, <1>1, <2>4 DEF JoinWorkers, TypeOK, SessionsQuiet, Live
    <2>5. CASE \E g \in grants : GrantExpires(g)
      BY <1>0, <1>1, <2>5 DEF GrantExpires, SessionsQuiet, SessionInv, Live
    <2>6. CASE SessionsIdle
      BY <1>0, <1>1, <2>6 DEF SessionsIdle, TypeOK, SessionsQuiet, SessionInv, Live
    <2> QED BY <2>1, <2>2, <2>3, <2>4, <2>5, <2>6 DEF Clock
  <1> QED BY <1>0, <1>1, <1>2, <1>3, <1>4, QuietStep

\* A new start finds no worker and no session of the last one.
LEMMA ApprovalStart == ASSUME Inv, StartServer PROVE SessionInv' /\ ApprovalInv'
  <1>0. TypeOK /\ SessionInv /\ ApprovalInv BY DEF Inv
  <1>1. /\ workers = {} /\ workers' = {} /\ Live' = {} /\ sessions'.born = sessions.born
        /\ server'.is = "up" /\ UNCHANGED <<client, calls, grants, runs>>
    BY <1>0 DEF StartServer, SessionInv, TypeOK, Live
  <1> QED BY <1>0, <1>1 DEF SessionInv, ApprovalInv, ApprovalDiesWithItsServer

LEMMA ApprovalStep == ASSUME Inv, Next PROVE SessionInv' /\ ApprovalInv'
  <1>1. ASSUME NEW w \in workers, ServerStep(w) PROVE SessionInv' /\ ApprovalInv'
    BY <1>1, ApprovalWorkers, ApprovalInitialize, ApprovalResolve, ApprovalConsume, ApprovalRuns
       DEF ServerStep
  <1>2. CASE Lifecycle \/ Clock BY <1>2, ApprovalApplication, ApprovalStart DEF Lifecycle
  <1> QED BY <1>1, <1>2, Steps, ApprovalCoordinator, ApprovalIssue, ApprovalClient

-----------------------------------------------------------------------------
\* Invariant: the six parts hold together in every reachable state of the client
\* and the server.
THEOREM Invariant == Spec => []Inv
  <1>1. Inv /\ [Next]_vars => Inv'
    <2>1. CASE Next
      BY <2>1, NextType, GateStep, HeardStep, OnceStep, UnsentStep, ApprovalStep DEF Inv
    <2>2. Inv /\ UNCHANGED vars => Inv'
      BY DEF vars, Inv, TypeOK, GateInv, HeardInv, OnceInv, UnsentInv, SessionInv, ApprovalInv,
         ApprovalDiesWithItsServer, Busy, Heard, Unsent, Live
    <2> QED BY <2>1, <2>2
  <1> QED BY <1>1, InitInv, PTL DEF Spec

\* CallsRunOnce: a tool call runs at most once, whatever was retried, timed out,
\* cancelled or stopped around it (CallToolAsync, ResolveSession, Consume).
THEOREM CallsRunOnce == Spec => []CallRunsOnce
  <1>1. Inv => CallRunsOnce BY DEF Inv, OnceInv, CallRunsOnce
  <1> QED BY <1>1, Invariant, PTL

\* RefusedAlwaysNever: a call whose code says that it did not run has not run
\* (session_expired, approval_session_expired, invalid_approval_grant).
THEOREM RefusedAlwaysNever == Spec => []RefusedNeverRuns
  <1>1. Inv => RefusedNeverRuns BY DEF Inv, UnsentInv, Unsent, RefusedNeverRuns
  <1> QED BY <1>1, Invariant, PTL

\* ApprovalAlwaysDies: a mutation that ran did so under the start of the server
\* it was allowed under (Server::Stop, ApprovalGrantBroker).
THEOREM ApprovalAlwaysDies == Spec => []ApprovalDiesWithItsServer
  <1>1. Inv => ApprovalDiesWithItsServer BY DEF Inv, ApprovalInv
  <1> QED BY <1>1, Invariant, PTL
=============================================================================
