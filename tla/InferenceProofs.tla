--------------------------- MODULE InferenceProofs ---------------------------
\* Safety of LlamaSession for any callers, any settings and any number of starts,
\* calls and edits: one server at a time, nothing left behind by a call that ended,
\* and prompts only to the server started for the settings that were loaded.
\*
\* Safety of LocalModelSetup for any models and backends, any archives and sizes, and
\* any faults, cancellations and crashes: what the settings name was verified, and
\* what the window was told of a setup is true.
EXTENDS LlamaSession, LocalModelSetup, SequenceTheorems, FiniteSetTheorems, TLAPS

-----------------------------------------------------------------------------
(* The model server.                                                       *)

\* Where the holder of the gate is, be it a caller or the disposal.
Phase ==
  IF gate \in Callers THEN pc[gate] ELSE IF gate = Disposer THEN disposer ELSE "free"

\* Where the attempt "begun" is the holder's own, and where it has a process.
Starting == {"runtime", "start", "launched", "health", "publish", "cleanup", "cleanup_files"}
Launched == {"launched", "health", "publish", "cleanup"}

\* One holder.
GateInv ==
  /\ \A c \in Callers : pc[c] \in GateSteps <=> gate = c
  /\ disposer \in {"stop", "stopping"} <=> gate = Disposer

\* The session the provider keeps, and the one it is giving up.
SessionInv ==
  /\ running <= begun /\ stopping <= begun
  /\ trusted \subseteq {running}
  /\ Phase \in {"stopping", "model"} \cup Starting => running = None
  /\ Phase # "stopping" => stopping = None
  /\ Phase \in Starting => begun # None

\* Whatever an attempt still owns has an owner.
OwnedInv ==
  \A i \in Attempts :
    /\ i > begun => att[i] = Unowned
    /\ Alive(i) => i = running \/ (i = begun /\ Phase \in Launched)
    /\ att[i].leases # {} => i \in {running, stopping} \/ (i = begun /\ Phase \in Starting)
    /\ att[i].key = "there" => i = begun /\ Phase \in Launched \cup {"cleanup_files"}
    /\ att[i].monitor = "handled" /\ att[i].callback => ~Alive(i)
    /\ i = begun /\ Phase \in {"runtime", "start", "launched"} => ~att[i].callback

\* The settings a session was started with are those its users loaded.
CallInv ==
  \A c \in Callers :
    /\ call[c].got <= begun
    /\ pc[c] \notin RequestSteps => call[c].got = None
    /\ call[c].got # None => att[call[c].got].settings = call[c].want
    /\ pc[c] \in {"sending", "streaming"} => call[c].peer = "server"
    /\ pc[c] \in Starting => begun # None /\ att[begun].settings = call[c].want

\* The disposal begins once.
DisposalInv == disposer # "idle" => disposing

Inv == TypeOK /\ GateInv /\ DisposalInv /\ SessionInv /\ OwnedInv /\ CallInv
-----------------------------------------------------------------------------
(* What the operators on attempts do.                                      *)

Servers  == {"none", "up", "killed", "gone"}
Ports    == {"none", "server", "stranger"}
Monitors == {"off", "watching", "changed", "handled"}
Keys     == {"none", "there", "stuck"}
Owned    == [server : Servers, port : Ports, leases : SUBSET {"model", "runtime"},
             monitor : Monitors, callback : BOOLEAN, key : Keys,
             settings : Settings \cup {NoSettings}]

\* b is a with attempt i changed.
Changes(a, b, i) == b \in [Attempts -> Owned] /\ \A j \in Attempts \ {i} : b[j] = a[j]

LEMMA AttType == TypeOK => att \in [Attempts -> Owned]
  BY DEF TypeOK, Owned, Servers, Ports, Monitors, Keys

LEMMA StartedOnly ==
  ASSUME NEW a \in [Attempts -> Owned], NEW i \in Attempts
  PROVE  /\ Changes(a, Started(a, i), i)
         /\ Started(a, i)[i] = [a[i] EXCEPT !.server = "up"]
  <1>1. Started(a, i) = [a EXCEPT ![i] = [a[i] EXCEPT !.server = "up"]] BY DEF Started
  <1>2. [a[i] EXCEPT !.server = "up"] \in Owned BY DEF Owned, Servers
  <1> QED BY <1>1, <1>2 DEF Changes

LEMMA KilledOnly ==
  ASSUME NEW a \in [Attempts -> Owned], NEW i \in Attempts
  PROVE  /\ Changes(a, Killed(a, i), i)
         /\ Killed(a, i)[i] = [a[i] EXCEPT !.server = IF a[i].server = "up" THEN "killed" ELSE @]
         /\ Killed(a, i)[i].server # "up"
  <1>1. CASE a[i].server = "up"
    <2>1. Killed(a, i) = [a EXCEPT ![i] = [a[i] EXCEPT !.server = "killed"]]
      BY <1>1 DEF Killed
    <2>2. [a[i] EXCEPT !.server = "killed"] \in Owned BY DEF Owned, Servers
    <2>3. [a[i] EXCEPT !.server = "killed"].server # "up" BY DEF Owned
    <2> QED BY <1>1, <2>1, <2>2, <2>3 DEF Changes
  <1>2. CASE a[i].server # "up"
    <2>1. Killed(a, i) = a BY <1>2 DEF Killed
    <2>2. [a[i] EXCEPT !.server = @] = a[i] BY DEF Owned
    <2> QED BY <1>2, <2>1, <2>2 DEF Changes
  <1> QED BY <1>1, <1>2

LEMMA RuntimeLeasedOnly ==
  ASSUME NEW a \in [Attempts -> Owned], NEW i \in Attempts
  PROVE  /\ Changes(a, RuntimeLeased(a, i), i)
         /\ RuntimeLeased(a, i)[i] =
              [a[i] EXCEPT !.leases = @ \cup {"runtime"}, !.monitor = "watching"]
  <1> DEFINE r == [a[i] EXCEPT !.leases = @ \cup {"runtime"}, !.monitor = "watching"]
  <1>1. RuntimeLeased(a, i) = [a EXCEPT ![i] = r] BY DEF RuntimeLeased
  <1>2. r \in Owned BY DEF Owned, Monitors
  <1> QED BY <1>1, <1>2 DEF Changes

LEMMA KeyWrittenOnly ==
  ASSUME NEW a \in [Attempts -> Owned], NEW i \in Attempts
  PROVE  /\ Changes(a, KeyWritten(a, i), i)
         /\ KeyWritten(a, i)[i] = [a[i] EXCEPT !.key = "there"]
  <1>1. KeyWritten(a, i) = [a EXCEPT ![i] = [a[i] EXCEPT !.key = "there"]] BY DEF KeyWritten
  <1>2. [a[i] EXCEPT !.key = "there"] \in Owned BY DEF Owned, Keys
  <1> QED BY <1>1, <1>2 DEF Changes

LEMMA KeyDeletedOnly ==
  ASSUME NEW a \in [Attempts -> Owned], NEW i \in Attempts
  PROVE  /\ Changes(a, KeyDeleted(a, i), i)
         /\ KeyDeleted(a, i)[i] = [a[i] EXCEPT !.key = "none"]
  <1>1. KeyDeleted(a, i) = [a EXCEPT ![i] = [a[i] EXCEPT !.key = "none"]] BY DEF KeyDeleted
  <1>2. [a[i] EXCEPT !.key = "none"] \in Owned BY DEF Owned, Keys
  <1> QED BY <1>1, <1>2 DEF Changes

LEMMA NoLeasesOnly ==
  ASSUME NEW a \in [Attempts -> Owned], NEW i \in Attempts
  PROVE  /\ Changes(a, NoLeases(a, i), i)
         /\ NoLeases(a, i)[i] =
              [a[i] EXCEPT !.leases = {}, !.monitor = "off", !.callback = FALSE]
  <1> DEFINE r == [a[i] EXCEPT !.leases = {}, !.monitor = "off", !.callback = FALSE]
  <1>1. NoLeases(a, i) = [a EXCEPT ![i] = r] BY DEF NoLeases
  <1>2. r \in Owned BY DEF Owned, Monitors
  <1> QED BY <1>1, <1>2 DEF Changes

\* The callback is set, and a server whose tree has changed is killed.
LEMMA CallbackRegistered ==
  ASSUME NEW a \in [Attempts -> Owned], NEW i \in Attempts
  PROVE  /\ Changes(a, RegisterCallback(a, i), i)
         /\ RegisterCallback(a, i)[i] \in
              {[a[i] EXCEPT !.callback = TRUE],
               [a[i] EXCEPT !.callback = TRUE, !.server = "killed"]}
         /\ a[i].monitor # "watching" => RegisterCallback(a, i)[i].server # "up"
  <1> DEFINE r == [a[i] EXCEPT !.callback = TRUE]
             b == [a EXCEPT ![i].callback = TRUE]
  <1>1. b = [a EXCEPT ![i] = r] /\ r \in Owned /\ b \in [Attempts -> Owned] /\ b[i] = r
    BY DEF Owned
  <1>2. CASE a[i].monitor # "watching"
    <2>1. RegisterCallback(a, i) = Killed(b, i) BY <1>2 DEF RegisterCallback
    <2>2. Changes(b, Killed(b, i), i) /\ Killed(b, i)[i].server # "up"
          /\ Killed(b, i)[i] = [b[i] EXCEPT !.server = IF b[i].server = "up" THEN "killed" ELSE @]
      BY <1>1, KilledOnly
    <2>3. Killed(b, i)[i] \in {r, [r EXCEPT !.server = "killed"]}
      <3>1. [r EXCEPT !.server = @] = r BY <1>1 DEF Owned
      <3> QED BY <1>1, <2>2, <3>1
    <2>4. [r EXCEPT !.server = "killed"] = [a[i] EXCEPT !.callback = TRUE, !.server = "killed"]
      OBVIOUS
    <2>5. Changes(a, Killed(b, i), i) BY <1>1, <2>2 DEF Changes
    <2> QED BY <2>1, <2>2, <2>3, <2>4, <2>5
  <1>3. CASE a[i].monitor = "watching"
    <2>1. RegisterCallback(a, i) = b BY <1>3 DEF RegisterCallback
    <2> QED BY <1>1, <1>3, <2>1 DEF Changes
  <1> QED BY <1>2, <1>3
-----------------------------------------------------------------------------
(* The gate: what a step of a caller does to its holder and its phase.      *)

LEMMA CallerMoves ==
  ASSUME TypeOK, GateInv, NEW c \in Callers, NEW to,
         pc' = [pc EXCEPT ![c] = to], UNCHANGED disposer,
         \/ gate' = gate /\ (to \in GateSteps <=> pc[c] \in GateSteps)
         \/ gate = Free /\ gate' = c /\ to \in GateSteps
         \/ pc[c] \in GateSteps /\ gate' = Free /\ to \notin GateSteps
  PROVE  /\ GateInv'
         /\ pc[c] \in GateSteps => gate = c /\ Phase = pc[c]
         /\ to \in GateSteps => Phase' = to
         /\ pc[c] \in GateSteps /\ to \notin GateSteps => Phase' = "free"
         /\ pc[c] \notin GateSteps /\ to \in GateSteps => Phase = "free"
         /\ pc[c] \notin GateSteps /\ to \notin GateSteps => Phase' = Phase
         /\ pc'[c] = to /\ \A d \in Callers \ {c} : pc'[d] = pc[d]
  <1>1. /\ pc'[c] = to /\ \A d \in Callers \ {c} : pc'[d] = pc[d]
    BY DEF TypeOK
  <1>2. /\ Free \notin Callers /\ Disposer \notin Callers /\ Free # Disposer
        /\ \A d \in Callers : d # Free /\ d # Disposer
    BY HoldersAreApart DEF Free, Disposer
  <1>3. \A d \in Callers : pc[d] \in GateSteps <=> gate = d
    BY DEF GateInv
  <1>4. disposer \in {"stop", "stopping"} <=> gate = Disposer
    BY DEF GateInv
  <1>5. CASE gate' = gate /\ (to \in GateSteps <=> pc[c] \in GateSteps)
    <2>1. \A d \in Callers : pc'[d] \in GateSteps <=> gate' = d
      <3> TAKE d \in Callers
      <3>1. CASE d = c BY <3>1, <1>1, <1>3, <1>5
      <3>2. CASE d # c BY <3>2, <1>1, <1>3, <1>5
      <3> QED BY <3>1, <3>2
    <2>2. GateInv' BY <2>1, <1>4, <1>5 DEF GateInv
    <2>3. pc[c] \in GateSteps => gate = c /\ Phase = pc[c] /\ Phase' = to
      BY <1>1, <1>3, <1>5 DEF Phase
    <2>4. pc[c] \notin GateSteps => gate # c BY <1>3
    <2>5. gate \in Callers /\ gate # c => pc'[gate] = pc[gate] BY <1>1
    <2>6. pc[c] \notin GateSteps => Phase' = Phase
      BY <2>4, <2>5, <1>5 DEF Phase
    <2> QED BY <2>2, <2>3, <2>6, <1>1, <1>5
  <1>6. CASE gate = Free /\ gate' = c /\ to \in GateSteps
    <2>1. \A d \in Callers : pc'[d] \in GateSteps <=> gate' = d
      <3> TAKE d \in Callers
      <3>1. CASE d = c BY <3>1, <1>1, <1>6
      <3>2. CASE d # c BY <3>2, <1>1, <1>2, <1>3, <1>6
      <3> QED BY <3>1, <3>2
    <2>2. GateInv' BY <2>1, <1>2, <1>4, <1>6 DEF GateInv
    <2>3. pc[c] \notin GateSteps BY <1>2, <1>3, <1>6
    <2>4. Phase = "free" /\ Phase' = to BY <1>1, <1>2, <1>6 DEF Phase
    <2> QED BY <2>2, <2>3, <2>4, <1>1, <1>6
  <1>7. CASE pc[c] \in GateSteps /\ gate' = Free /\ to \notin GateSteps
    <2>1. gate = c BY <1>3, <1>7
    <2>2. \A d \in Callers : pc'[d] \in GateSteps <=> gate' = d
      <3> TAKE d \in Callers
      <3>1. CASE d = c BY <3>1, <1>1, <1>2, <1>7
      <3>2. CASE d # c BY <3>2, <2>1, <1>1, <1>2, <1>3, <1>7
      <3> QED BY <3>1, <3>2
    <2>3. GateInv' BY <2>1, <2>2, <1>2, <1>4, <1>7 DEF GateInv
    <2>4. Phase = pc[c] /\ Phase' = "free" BY <2>1, <1>2, <1>7 DEF Phase
    <2> QED BY <2>1, <2>3, <2>4, <1>1, <1>7
  <1> QED BY <1>5, <1>6, <1>7

\* A step that leaves what is owned alone and whose holder goes on to a place
\* that owns no less and claims no more.
SameKind(S) == Phase' \in S <=> Phase \in S

LEMMA PhaseOnly ==
  ASSUME SessionInv, OwnedInv, UNCHANGED <<running, stopping, begun, att, trusted>>,
         SameKind(Starting), SameKind(Launched), SameKind(Launched \cup {"cleanup_files"}),
         Phase' \in {"stopping", "model"} => Phase' = Phase,
         Phase = "stopping" => Phase' = "stopping",
         Phase' \in {"runtime", "start", "launched"} => Phase' = Phase
  PROVE  SessionInv' /\ OwnedInv'
  <1>1. SessionInv' BY DEF SessionInv, SameKind
  <1>2. OwnedInv' BY DEF OwnedInv, SameKind, Alive
  <1> QED BY <1>1, <1>2

\* Sessions keep their settings, and of the callers only c changes.
LEMMA CallKept ==
  ASSUME TypeOK, CallInv, NEW c \in Callers,
         \A d \in Callers \ {c} : pc'[d] = pc[d] /\ call'[d] = call[d],
         begun \in Nat, begun' \in Nat, begun <= begun',
         \A i \in 1..begun : att'[i].settings = att[i].settings,
         begun' = begun \/ \A d \in Callers \ {c} : pc[d] \notin Starting,
         call'[c].got <= begun',
         pc'[c] \notin RequestSteps => call'[c].got = None,
         call'[c].got # None => att'[call'[c].got].settings = call'[c].want,
         pc'[c] \in {"sending", "streaming"} => call'[c].peer = "server",
         pc'[c] \in Starting => begun' # None /\ att'[begun'].settings = call'[c].want
  PROVE  CallInv'
  <1> SUFFICES ASSUME NEW d \in Callers
      PROVE  /\ call'[d].got <= begun'
             /\ pc'[d] \notin RequestSteps => call'[d].got = None
             /\ call'[d].got # None => att'[call'[d].got].settings = call'[d].want
             /\ pc'[d] \in {"sending", "streaming"} => call'[d].peer = "server"
             /\ pc'[d] \in Starting =>
                  begun' # None /\ att'[begun'].settings = call'[d].want
    BY DEF CallInv
  <1>1. CASE d = c BY <1>1
  <1>2. CASE d # c
    <2>1. pc'[d] = pc[d] /\ call'[d] = call[d] BY <1>2
    <2>2. /\ call[d].got <= begun
          /\ pc[d] \notin RequestSteps => call[d].got = None
          /\ call[d].got # None => att[call[d].got].settings = call[d].want
          /\ pc[d] \in {"sending", "streaming"} => call[d].peer = "server"
          /\ pc[d] \in Starting => begun # None /\ att[begun].settings = call[d].want
      BY DEF CallInv
    <2>3. call[d].got \in Nat BY DEF TypeOK
    <2>4. call[d].got # None => call[d].got \in 1..begun BY <2>2, <2>3 DEF None
    <2>5. call[d].got <= begun' BY <2>2, <2>3
    <2>6. call[d].got # None => att'[call[d].got].settings = call[d].want
      BY <2>2, <2>4
    <2>7. ASSUME pc[d] \in Starting
          PROVE  begun' # None /\ att'[begun'].settings = call[d].want
      <3>1. begun' = begun BY <1>2, <2>7
      <3>2. begun # None /\ begun \in 1..begun BY <2>2, <2>7 DEF None
      <3> QED BY <2>2, <2>7, <3>1, <3>2
    <2> QED BY <2>1, <2>2, <2>5, <2>6, <2>7
  <1> QED BY <1>1, <1>2

Places == {"idle", "enter"} \cup GateSteps \cup RequestSteps
Calls  == [want : Settings \cup {NoSettings}, got : 0 .. MaxAttempts,
           peer : {"none", "server", "stranger"}]

LEMMA Types ==
  ASSUME TypeOK
  PROVE  /\ pc \in [Callers -> Places] /\ call \in [Callers -> Calls]
         /\ begun \in Nat /\ running \in Nat /\ stopping \in Nat /\ MaxAttempts \in Nat
         /\ begun <= MaxAttempts /\ running <= MaxAttempts /\ stopping <= MaxAttempts
         /\ NoCall \in Calls
  <1>1. pc \in [Callers -> Places] /\ call \in [Callers -> Calls]
    BY DEF TypeOK, Places, Calls
  <1>2. {begun, running, stopping} \subseteq 0 .. MaxAttempts /\ MaxAttempts \in Nat
    BY BoundsAreNatural DEF TypeOK
  <1>3. NoCall \in Calls BY <1>2 DEF NoCall, Calls, None
  <1> QED BY <1>1, <1>2, <1>3

\* A step of one caller that touches nothing but its place, its call and the gate.
LEMMA CallerOnly ==
  ASSUME Inv, NEW c \in Callers, NEW to \in Places, NEW k \in Calls,
         pc' = [pc EXCEPT ![c] = to], call' = [call EXCEPT ![c] = k],
         UNCHANGED <<running, stopping, begun, att, trusted, lifeVars, diskVars>>,
         calls' \in [Callers -> 0 .. MaxCalls],
         \/ gate' = gate /\ (to \in GateSteps <=> pc[c] \in GateSteps)
         \/ gate = Free /\ gate' = c /\ to \in GateSteps
         \/ pc[c] \in GateSteps /\ gate' = Free /\ to \notin GateSteps,
         to \in Starting <=> pc[c] \in Starting,
         to \in Launched <=> pc[c] \in Launched,
         to \in Launched \cup {"cleanup_files"} <=> pc[c] \in Launched \cup {"cleanup_files"},
         to \in {"stopping", "model"} => to = pc[c],
         pc[c] = "stopping" => to = "stopping",
         to \in {"runtime", "start", "launched"} => to = pc[c],
         k.got <= begun,
         to \notin RequestSteps => k.got = None,
         k.got # None => att[k.got].settings = k.want,
         to \in {"sending", "streaming"} => k.peer = "server",
         to \in Starting => k = call[c]
  PROVE  Inv'
  <1>1. TypeOK /\ GateInv /\ SessionInv /\ OwnedInv /\ CallInv BY DEF Inv
  <1>2. /\ UNCHANGED <<running, stopping, begun, att, trusted, disposer, disposing>>
        /\ UNCHANGED <<runtimeDisposed, disk, edits>>
    BY DEF lifeVars, diskVars
  <1>3. /\ GateInv'
        /\ pc[c] \in GateSteps => gate = c /\ Phase = pc[c]
        /\ to \in GateSteps => Phase' = to
        /\ pc[c] \in GateSteps /\ to \notin GateSteps => Phase' = "free"
        /\ pc[c] \notin GateSteps /\ to \in GateSteps => Phase = "free"
        /\ pc[c] \notin GateSteps /\ to \notin GateSteps => Phase' = Phase
        /\ pc'[c] = to /\ \A d \in Callers \ {c} : pc'[d] = pc[d]
    BY <1>1, <1>2, CallerMoves
  <1>4. TypeOK'
    <2>1. pc' \in [Callers -> Places] /\ call' \in [Callers -> Calls]
      BY <1>1, Types
    <2>2. gate' \in Callers \cup {Disposer, Free} BY <1>1 DEF TypeOK
    <2> QED BY <1>1, <1>2, <2>1, <2>2 DEF TypeOK, Places, Calls
  <1>5. call'[c] = k /\ \A d \in Callers \ {c} : call'[d] = call[d]
    BY <1>1 DEF TypeOK
  <1>6. CallInv'
    <2>1. begun \in Nat BY <1>1, Types
    <2>2. \A i \in 1..begun : att'[i].settings = att[i].settings BY <1>2
    <2>3. to \in Starting => begun # None /\ att[begun].settings = k.want
      BY <1>1 DEF CallInv
    <2>4. \A d \in Callers \ {c} : pc'[d] = pc[d] /\ call'[d] = call[d] BY <1>3, <1>5
    <2>5. pc'[c] \in Starting => begun' # None /\ att'[begun'].settings = call'[c].want
      BY <1>2, <1>3, <1>5, <2>3
    <2>6. begun' = begun /\ begun <= begun' BY <1>2, <2>1
    <2> QED BY <1>1, <1>2, <1>3, <1>5, <2>1, <2>2, <2>4, <2>5, <2>6, CallKept
  <1>7. /\ SameKind(Starting) /\ SameKind(Launched) /\ SameKind(Launched \cup {"cleanup_files"})
        /\ Phase' \in {"stopping", "model"} => Phase' = Phase
        /\ Phase = "stopping" => Phase' = "stopping"
        /\ Phase' \in {"runtime", "start", "launched"} => Phase' = Phase
    <2>1. CASE pc[c] \in GateSteps /\ to \in GateSteps
      BY <2>1, <1>3 DEF SameKind
    <2>2. CASE pc[c] \in GateSteps /\ to \notin GateSteps
      BY <2>2, <1>3 DEF SameKind, Starting, Launched, GateSteps
    <2>3. CASE pc[c] \notin GateSteps /\ to \in GateSteps
      BY <2>3, <1>3 DEF SameKind, Starting, Launched, GateSteps
    <2>4. CASE pc[c] \notin GateSteps /\ to \notin GateSteps
      BY <2>4, <1>3 DEF SameKind
    <2> QED BY <2>1, <2>2, <2>3, <2>4
  <1>8. SessionInv' /\ OwnedInv' BY <1>1, <1>2, <1>7, PhaseOnly
  <1>9. DisposalInv' BY <1>2 DEF Inv, DisposalInv
  <1> QED BY <1>3, <1>4, <1>6, <1>8, <1>9 DEF Inv

\* Callers that stand outside the gate.
OutsideStep(c) ==
  Begin(c) \/ EnterRefused(c) \/ StreamAsync(c)

LEMMA OutsideKeeps ==
  ASSUME Inv, NEW c \in Callers, OutsideStep(c) PROVE Inv'
  <1>1. TypeOK /\ CallInv BY DEF Inv
  <1>2. pc \in [Callers -> Places] /\ call \in [Callers -> Calls] /\ begun \in Nat
        /\ NoCall \in Calls /\ calls \in [Callers -> 0 .. MaxCalls]
    BY <1>1, Types DEF TypeOK
  <1>3. /\ call[c].got <= begun
        /\ pc[c] \notin RequestSteps => call[c].got = None
        /\ call[c].got # None => att[call[c].got].settings = call[c].want
        /\ pc[c] \in {"sending", "streaming"} => call[c].peer = "server"
    BY <1>1 DEF CallInv
  <1>4. call = [call EXCEPT ![c] = call[c]] /\ call[c] \in Calls BY <1>2
  <1>5. ASSUME NEW from \in {"enter"} \cup RequestSteps, pc[c] = from, Ends(c),
               UNCHANGED <<sessionVars, lifeVars, diskVars, calls>>
        PROVE  Inv'
    <2>1. NoCall.got = None /\ NoCall.peer = "none" /\ NoCall.got <= begun
      BY <1>2 DEF NoCall, None
    <2> DEFINE to == "idle"
    <2>2. pc' = [pc EXCEPT ![c] = to] /\ call' = [call EXCEPT ![c] = NoCall]
      BY <1>5 DEF Ends
    <2>3. UNCHANGED <<gate, running, stopping, begun, att, trusted, lifeVars, diskVars>>
      BY <1>5 DEF sessionVars
    <2>4. to \in Places /\ to \notin GateSteps \cup RequestSteps \cup Starting \cup Launched
      BY DEF Places, GateSteps, RequestSteps, Starting, Launched
    <2>5. pc[c] \notin GateSteps \cup Starting \cup Launched
      BY <1>5 DEF GateSteps, RequestSteps, Starting, Launched
    <2>6. /\ to \in Starting <=> pc[c] \in Starting
          /\ to \in Launched <=> pc[c] \in Launched
          /\ to \in Launched \cup {"cleanup_files"}
               <=> pc[c] \in Launched \cup {"cleanup_files"}
          /\ to \in GateSteps <=> pc[c] \in GateSteps
          /\ to \notin {"stopping", "model", "runtime", "start", "launched"}
          /\ to \notin {"sending", "streaming"}
          /\ pc[c] # "stopping"
      BY <2>4, <2>5 DEF GateSteps
    <2>7. calls' \in [Callers -> 0 .. MaxCalls] BY <1>2, <1>5
    <2> HIDE DEF to
    <2> QED BY <1>2, <2>1, <2>2, <2>3, <2>4, <2>6, <2>7, CallerOnly
  <1>6. ASSUME NEW to \in {"enter"} \cup RequestSteps, NEW k \in Calls,
               pc[c] \in {"idle"} \cup RequestSteps,
               pc' = [pc EXCEPT ![c] = to], call' = [call EXCEPT ![c] = k],
               UNCHANGED <<sessionVars, lifeVars, diskVars>>,
               calls' \in [Callers -> 0 .. MaxCalls],
               k.got = call[c].got, k.want = call[c].want,
               to \notin RequestSteps => pc[c] = "idle",
               to \in {"sending", "streaming"} => k.peer = "server"
        PROVE  Inv'
    <2>1. UNCHANGED <<gate, running, stopping, begun, att, trusted, lifeVars, diskVars>>
      BY <1>6 DEF sessionVars
    <2>2. to \in Places /\ to \notin GateSteps \cup Starting \cup Launched
      BY <1>6 DEF Places, GateSteps, RequestSteps, Starting, Launched
    <2>3. pc[c] \notin GateSteps \cup Starting \cup Launched
      BY <1>6 DEF GateSteps, RequestSteps, Starting, Launched
    <2>4. /\ to \in Starting <=> pc[c] \in Starting
          /\ to \in Launched <=> pc[c] \in Launched
          /\ to \in Launched \cup {"cleanup_files"}
               <=> pc[c] \in Launched \cup {"cleanup_files"}
          /\ to \in GateSteps <=> pc[c] \in GateSteps
          /\ to \notin {"stopping", "model", "runtime", "start", "launched"}
          /\ pc[c] # "stopping" /\ to \notin Starting
      BY <2>2, <2>3 DEF GateSteps
    <2>5. k.got <= begun /\ (k.got # None => att[k.got].settings = k.want)
      BY <1>3, <1>6
    <2>6. to \notin RequestSteps => k.got = None
      BY <1>3, <1>6 DEF RequestSteps
    <2> QED BY <1>2, <1>6, <2>1, <2>2, <2>4, <2>5, <2>6, CallerOnly
  <1>7. CASE Begin(c)
    <2>1. calls' \in [Callers -> 0 .. MaxCalls]
      BY <1>2, <1>7, BoundsAreNatural DEF Begin
    <2> QED BY <1>4, <1>6, <1>7, <2>1 DEF Begin, RequestSteps
  <1>8. CASE EnterRefused(c)
    BY <1>5, <1>8 DEF EnterRefused, At
  <1>9. CASE Lookup(c)
    BY <1>2, <1>4, <1>6, <1>9 DEF Lookup, At, Goes, RequestSteps
  <1>10. CASE Connect(c)
    <2> DEFINE k == [call[c] EXCEPT !.peer = att[Session(c)].port]
    <2>1. att[Session(c)].port = "server" BY <1>10 DEF Connect, Verified
    <2>2. k \in Calls /\ k.peer = "server" /\ k.got = call[c].got /\ k.want = call[c].want
      BY <1>4, <2>1 DEF Calls
    <2>3. call' = [call EXCEPT ![c] = k] BY <1>10 DEF Connect
    <2> HIDE DEF k
    <2> QED BY <1>2, <1>6, <1>10, <2>2, <2>3 DEF Connect, At, RequestSteps
  <1>11. CASE Answered(c)
    BY <1>2, <1>3, <1>4, <1>6, <1>11 DEF Answered, At, Goes, RequestSteps
  <1>12. CASE RequestFails(c) \/ StreamEnds(c) \/ RequestCancelled(c)
    <2>1. \E from \in RequestSteps : RequestEnds(c, from)
      BY <1>12 DEF RequestFails, StreamEnds, RequestCancelled, RequestSteps
    <2> QED BY <2>1, <1>5 DEF RequestEnds, At
  <1> QED BY <1>7, <1>8, <1>9, <1>10, <1>11, <1>12 DEF OutsideStep, StreamAsync

\* The holder of the gate, as long as it looks and waits.
LookingStep(c) ==
  TakeGate(c) \/ LoadFails(c) \/ Load(c) \/ Check(c) \/ Probe(c) \/ Healthy(c)
    \/ NotHealthy(c) \/ PublishFails(c) \/ (At(c, "model") /\ LeaveGate(c))

LEMMA LookingKeeps ==
  ASSUME Inv, NEW c \in Callers, LookingStep(c) PROVE Inv'
  <1>1. TypeOK /\ GateInv /\ SessionInv /\ CallInv BY DEF Inv
  <1>2. pc \in [Callers -> Places] /\ call \in [Callers -> Calls] /\ begun \in Nat
        /\ running \in Nat /\ running <= MaxAttempts /\ MaxAttempts \in Nat
        /\ NoCall \in Calls /\ calls \in [Callers -> 0 .. MaxCalls]
        /\ disk \in Settings \cup {NoSettings}
    BY <1>1, Types DEF TypeOK
  <1>3. /\ call[c].got <= begun
        /\ pc[c] \notin RequestSteps => call[c].got = None
        /\ call[c].got # None => att[call[c].got].settings = call[c].want
    BY <1>1 DEF CallInv
  <1>4. call = [call EXCEPT ![c] = call[c]] /\ call[c] \in Calls BY <1>2
  <1>5. NoCall.got = None /\ NoCall.got <= begun BY <1>2 DEF NoCall, None
  <1>6. running <= begun BY <1>1 DEF SessionInv
  \* It gives up, or leaves with an answer, from where it has started nothing.
  <1>7. ASSUME pc[c] \in {"load", "probe", "model"}, gate' = Free, Ends(c), OnlyGateChanges,
               UNCHANGED <<calls, lifeVars, diskVars>>
        PROVE  Inv'
    <2> DEFINE to == "idle"
    <2>1. pc' = [pc EXCEPT ![c] = to] /\ call' = [call EXCEPT ![c] = NoCall]
      BY <1>7 DEF Ends
    <2>2. UNCHANGED <<running, stopping, begun, att, trusted, lifeVars, diskVars, calls>>
      BY <1>7 DEF OnlyGateChanges
    <2>3. to \in Places /\ to \notin GateSteps \cup RequestSteps
      BY DEF Places, GateSteps, RequestSteps
    <2>4. pc[c] \in GateSteps BY <1>7 DEF GateSteps
    <2>5. /\ to \in Starting <=> pc[c] \in Starting
          /\ to \in Launched <=> pc[c] \in Launched
          /\ to \in Launched \cup {"cleanup_files"}
               <=> pc[c] \in Launched \cup {"cleanup_files"}
          /\ to \notin {"stopping", "model", "runtime", "start", "launched"}
          /\ to \notin {"sending", "streaming"} /\ to \notin Starting
          /\ pc[c] # "stopping"
      BY <1>7 DEF Starting, Launched
    <2>6. calls' \in [Callers -> 0 .. MaxCalls] BY <1>2, <2>2
    <2> HIDE DEF to
    <2> QED BY <1>2, <1>5, <1>7, <2>1, <2>2, <2>3, <2>4, <2>5, <2>6, CallerOnly
  \* It goes on inside the gate.
  <1>8. ASSUME NEW to \in GateSteps, NEW k \in Calls, pc[c] \in {"enter"} \cup GateSteps,
               pc' = [pc EXCEPT ![c] = to], call' = [call EXCEPT ![c] = k],
               OnlyGateChanges, UNCHANGED <<calls, lifeVars, diskVars>>,
               \/ pc[c] = "enter" /\ to = "load" /\ gate = Free /\ gate' = c
               \/ pc[c] = "load" /\ to \in {"check", "stop"} /\ gate' = gate
               \/ pc[c] \in {"check", "probe"} /\ to \in {"probe", "stop"} /\ gate' = gate
               \/ pc[c] \in {"health", "publish"} /\ to \in {"publish", "cleanup"} /\ gate' = gate,
               k.got = call[c].got, pc[c] # "load" => k = call[c]
        PROVE  Inv'
    <2>1. UNCHANGED <<running, stopping, begun, att, trusted, lifeVars, diskVars, calls>>
      BY <1>8 DEF OnlyGateChanges
    <2>2. to \in Places /\ to \notin RequestSteps
      BY <1>8 DEF Places, GateSteps, RequestSteps
    <2>3. k.got = None /\ k.got <= begun
      BY <1>3, <1>8 DEF GateSteps, RequestSteps
    <2>4. /\ to \in Starting <=> pc[c] \in Starting
          /\ to \in Launched <=> pc[c] \in Launched
          /\ to \in Launched \cup {"cleanup_files"}
               <=> pc[c] \in Launched \cup {"cleanup_files"}
          /\ to \notin {"stopping", "model", "runtime", "start", "launched"}
          /\ to \notin {"sending", "streaming"}
          /\ pc[c] # "stopping"
          /\ to \in Starting => k = call[c]
      BY <1>8 DEF Starting, Launched
    <2>5. \/ gate' = gate /\ (to \in GateSteps <=> pc[c] \in GateSteps)
          \/ gate = Free /\ gate' = c /\ to \in GateSteps
      BY <1>8 DEF GateSteps
    <2>6. calls' \in [Callers -> 0 .. MaxCalls] BY <1>2, <2>1
    <2> QED BY <1>2, <1>8, <2>1, <2>2, <2>3, <2>4, <2>5, <2>6, CallerOnly
  <1>9. CASE TakeGate(c)
    BY <1>4, <1>8, <1>9 DEF TakeGate, At, Goes, GateSteps
  <1>10. CASE LoadFails(c)
    BY <1>7, <1>10 DEF LoadFails, LeaveGate, At
  <1>11. CASE Load(c)
    <2> DEFINE k == [call[c] EXCEPT !.want = disk]
               to == IF disk = NoSettings THEN "stop" ELSE "check"
    <2>1. k \in Calls /\ k.got = call[c].got BY <1>2, <1>4 DEF Calls
    <2>2. call' = [call EXCEPT ![c] = k] /\ pc' = [pc EXCEPT ![c] = to]
          /\ to \in {"stop", "check"}
      BY <1>11 DEF Load
    <2>3. /\ OnlyGateChanges /\ gate' = gate
          /\ UNCHANGED <<calls, lifeVars, diskVars>> /\ pc[c] = "load"
      BY <1>11 DEF Load, At, sessionVars, OnlyGateChanges
    <2> HIDE DEF k, to
    <2>4. to \in GateSteps BY <2>2 DEF GateSteps
    <2> QED BY <1>8, <2>1, <2>2, <2>3, <2>4 DEF GateSteps
  <1>12. CASE Check(c)
    <2> DEFINE to == IF Reusable(c) THEN "probe" ELSE "stop"
    <2>1. /\ OnlyGateChanges /\ gate' = gate /\ call' = call
          /\ UNCHANGED <<calls, lifeVars, diskVars>> /\ pc[c] = "check"
          /\ pc' = [pc EXCEPT ![c] = to] /\ to \in {"probe", "stop"}
      BY <1>12 DEF Check, At, Goes, sessionVars, OnlyGateChanges
    <2> HIDE DEF to
    <2>2. to \in GateSteps /\ pc[c] \in GateSteps BY <2>1 DEF GateSteps
    <2> QED BY <1>4, <1>8, <2>1, <2>2
  <1>13. CASE Probe(c)
    <2>1. /\ OnlyGateChanges /\ UNCHANGED <<calls, lifeVars, diskVars>> /\ pc[c] = "probe"
      BY <1>13 DEF Probe, At
    <2>2. CASE Ends(c) /\ gate' = Free
      BY <1>7, <2>1, <2>2
    <2>3. CASE Goes(c, "stop") /\ UNCHANGED gate
      BY <1>4, <1>8, <2>1, <2>3 DEF Goes, GateSteps
    <2>4. CASE /\ Reusable(c) /\ gate' = Free
               /\ pc' = [pc EXCEPT ![c] = "lookup"]
               /\ call' = [call EXCEPT ![c].got = running]
      <3> DEFINE k == [call[c] EXCEPT !.got = running]
                 to == "lookup"
      <3>1. running # None /\ att[running].settings = call[c].want
        BY <2>4 DEF Reusable
      <3>2. k \in Calls /\ k.got = running /\ k.want = call[c].want
        BY <1>2, <1>4 DEF Calls
      <3>3. call' = [call EXCEPT ![c] = k] /\ pc' = [pc EXCEPT ![c] = to] BY <2>4
      <3>4. /\ to \in Places /\ to \notin GateSteps /\ to \in RequestSteps
            /\ pc[c] \in GateSteps
        BY <2>1 DEF Places, GateSteps, RequestSteps
      <3>5. /\ to \in Starting <=> pc[c] \in Starting
            /\ to \in Launched <=> pc[c] \in Launched
            /\ to \in Launched \cup {"cleanup_files"}
                 <=> pc[c] \in Launched \cup {"cleanup_files"}
            /\ to \notin {"stopping", "model", "runtime", "start", "launched"}
            /\ to \notin {"sending", "streaming"} /\ to \notin Starting
            /\ pc[c] # "stopping"
        BY <2>1 DEF Starting, Launched
      <3>6. UNCHANGED <<running, stopping, begun, att, trusted, lifeVars, diskVars, calls>>
        BY <2>1 DEF OnlyGateChanges
      <3>7. calls' \in [Callers -> 0 .. MaxCalls] BY <1>2, <3>6
      <3>8. k.got <= begun /\ (k.got # None => att[k.got].settings = k.want)
        BY <1>6, <3>1, <3>2
      <3> HIDE DEF k, to
      <3> QED BY <2>4, <3>2, <3>3, <3>4, <3>5, <3>6, <3>7, <3>8, CallerOnly
    <2> QED BY <1>13, <2>1, <2>2, <2>3, <2>4 DEF Probe, Return
  <1>14. CASE Healthy(c) \/ NotHealthy(c) \/ PublishFails(c)
    <2>1. /\ OnlyGateChanges /\ gate' = gate /\ call' = call
          /\ UNCHANGED <<calls, lifeVars, diskVars>> /\ pc[c] \in {"health", "publish"}
          /\ \E to \in {"publish", "cleanup"} : pc' = [pc EXCEPT ![c] = to]
      BY <1>14 DEF Healthy, NotHealthy, PublishFails, At, Goes, sessionVars, OnlyGateChanges
    <2>2. PICK to \in {"publish", "cleanup"} : pc' = [pc EXCEPT ![c] = to] BY <2>1
    <2>3. to \in GateSteps /\ pc[c] \in GateSteps BY <2>1 DEF GateSteps
    <2> QED BY <1>4, <1>8, <2>1, <2>2, <2>3
  <1>15. CASE At(c, "model") /\ LeaveGate(c)
    BY <1>7, <1>15 DEF LeaveGate, At
  <1> QED BY <1>9, <1>10, <1>11, <1>12, <1>13, <1>14, <1>15 DEF LookingStep
-----------------------------------------------------------------------------
(* The holder of the gate, as long as it works on the attempt "begun".      *)

\* Its attempt becomes r, which owns what the place it goes to allows.
LEMMA AttemptStep ==
  ASSUME Inv, NEW c \in Callers, pc[c] \in Starting, NEW to \in Places, NEW k \in Calls,
         pc' = [pc EXCEPT ![c] = to], call' = [call EXCEPT ![c] = k],
         UNCHANGED <<running, stopping, begun, trusted, calls, lifeVars, diskVars>>,
         NEW r, Changes(att, att', begun), att'[begun] = r,
         \/ gate' = gate /\ to \in Starting /\ k = call[c]
         \/ gate' = Free /\ to = "idle" /\ k = NoCall,
         r.settings = att[begun].settings,
         r.server = "up" => to \in Launched,
         r.leases # {} => to \in Starting,
         r.key = "there" => to \in Launched \cup {"cleanup_files"},
         r.monitor = "handled" /\ r.callback => r.server # "up",
         to \in {"runtime", "start", "launched"} => ~r.callback
  PROVE  Inv'
  <1>1. TypeOK /\ GateInv /\ SessionInv /\ OwnedInv /\ CallInv /\ DisposalInv BY DEF Inv
  <1>2. /\ UNCHANGED <<running, stopping, begun, trusted, disposer, disposing>>
        /\ UNCHANGED <<runtimeDisposed, disk, edits, calls>>
    BY DEF lifeVars, diskVars
  <1>3. pc[c] \in GateSteps /\ (to \in Starting => to \in GateSteps)
        /\ "idle" \notin GateSteps \cup Starting \cup RequestSteps
        /\ \A d \in Callers : pc[d] \in Starting => pc[d] \in GateSteps
    BY DEF GateSteps, Starting, RequestSteps
  <1>4. /\ GateInv' /\ gate = c /\ Phase = pc[c]
        /\ to \in Starting => Phase' = to
        /\ to \notin Starting => Phase' = "free"
        /\ pc'[c] = to /\ \A d \in Callers \ {c} : pc'[d] = pc[d]
    BY <1>1, <1>2, <1>3, CallerMoves
  <1>5. /\ begun \in Nat /\ begun <= MaxAttempts /\ MaxAttempts \in Nat /\ begun # None
        /\ running = None /\ stopping = None
    BY <1>1, <1>4, Types DEF SessionInv, Starting
  <1>6. begun \in Attempts BY <1>5 DEF Attempts, None
  <1>7. TypeOK'
    <2>1. pc' \in [Callers -> Places] /\ call' \in [Callers -> Calls]
      BY <1>1, Types
    <2>2. gate' \in Callers \cup {Disposer, Free} BY <1>1 DEF TypeOK
    <2>3. att' \in [Attempts -> Owned] BY DEF Changes
    <2> QED
      BY <1>1, <1>2, <2>1, <2>2, <2>3
         DEF TypeOK, Places, Calls, Owned, Servers, Ports, Monitors, Keys
  <1>8. SessionInv'
    BY <1>1, <1>2, <1>4, <1>5 DEF SessionInv, Starting
  <1>9. OwnedInv'
    <2> SUFFICES ASSUME NEW i \in Attempts
        PROVE  /\ i > begun => att'[i] = Unowned
               /\ att'[i].server = "up" => i = running \/ (i = begun /\ Phase' \in Launched)
               /\ att'[i].leases # {} =>
                    i \in {running, stopping} \/ (i = begun /\ Phase' \in Starting)
               /\ att'[i].key = "there" => i = begun /\ Phase' \in Launched \cup {"cleanup_files"}
               /\ att'[i].monitor = "handled" /\ att'[i].callback => att'[i].server # "up"
               /\ i = begun /\ Phase' \in {"runtime", "start", "launched"} => ~att'[i].callback
      BY <1>2 DEF OwnedInv, Alive
    <2>1. CASE i = begun
      <3>1. ~(i > begun) BY <2>1, <1>5
      <3>2. Launched \subseteq Starting /\ "cleanup_files" \in Starting
            /\ {"runtime", "start", "launched"} \subseteq Starting
        BY DEF Launched, Starting
      <3>3. "free" \notin {"runtime", "start", "launched"} OBVIOUS
      <3> QED BY <2>1, <3>1, <3>2, <3>3, <1>4
    <2>2. CASE i # begun
      <3>1. att'[i] = att[i] BY <2>2 DEF Changes
      <3> QED BY <2>2, <3>1, <1>1, <1>5 DEF OwnedInv, Alive
    <2> QED BY <2>1, <2>2
  <1>10. CallInv'
    <2>1. call'[c] = k /\ \A d \in Callers \ {c} : call'[d] = call[d]
      BY <1>1 DEF TypeOK
    <2>2. \A i \in 1..begun : att'[i].settings = att[i].settings
      <3> TAKE i \in 1..begun
      <3>1. i \in Attempts BY <1>5 DEF Attempts
      <3> QED BY <3>1 DEF Changes
    <2>3. /\ call[c].got = None
          /\ att[begun].settings = call[c].want
      BY <1>1, <1>3 DEF CallInv, GateSteps, RequestSteps, Starting
    <2>4. k.got = None
      BY <2>3 DEF NoCall
    <2>5. to \notin {"sending", "streaming"}
      BY <1>3 DEF Starting
    <2>6. to \in Starting => att'[begun].settings = k.want
      BY <1>3, <2>3
    <2>7. 0 <= begun' /\ begun <= begun' BY <1>2, <1>5
    <2>8. call'[c].got <= begun' /\ call'[c].got = None BY <2>1, <2>4, <2>7 DEF None
    <2> QED
      BY <1>1, <1>2, <1>4, <1>5, <2>1, <2>2, <2>5, <2>6, <2>7, <2>8, CallKept
  <1>11. DisposalInv' BY <1>1, <1>2 DEF DisposalInv
  <1> QED BY <1>4, <1>7, <1>8, <1>9, <1>10, <1>11 DEF Inv

AttemptAction(c) ==
  AcquireRuntime(c) \/ StartAttempt(c) \/ RegisterCallbacks(c) \/ Cleanup(c) \/ CleanupFiles(c)

LEMMA AttemptKeeps ==
  ASSUME Inv, NEW c \in Callers, AttemptAction(c) PROVE Inv'
  <1>1. TypeOK /\ GateInv /\ SessionInv /\ OwnedInv BY DEF Inv
  <1>2. /\ pc \in [Callers -> Places] /\ call \in [Callers -> Calls] /\ NoCall \in Calls
        /\ begun \in Nat /\ begun <= MaxAttempts /\ att \in [Attempts -> Owned]
    BY <1>1, Types, AttType
  <1>3. pc[c] \in {"runtime", "start", "launched", "cleanup", "cleanup_files"}
        /\ UNCHANGED <<running, stopping, begun, trusted, calls, lifeVars, diskVars>>
    BY DEF AttemptAction, AcquireRuntime, StartAttempt, RegisterCallbacks, Cleanup, CleanupFiles,
           At, OnlyAttChanges
  <1>4. pc[c] \in Starting /\ pc[c] \in GateSteps BY <1>3 DEF Starting, GateSteps
  <1>5. Phase = pc[c]
    BY <1>1, <1>4 DEF GateInv, Phase
  <1>6. begun \in Attempts
    BY <1>1, <1>2, <1>4, <1>5 DEF SessionInv, Attempts, None
  <1> DEFINE o == att[begun]
  <1>7. /\ o \in Owned /\ running = None
        /\ o.server = "up" => pc[c] \in Launched
        /\ o.key = "there" => pc[c] \in Launched \cup {"cleanup_files"}
        /\ o.monitor = "handled" /\ o.callback => o.server # "up"
        /\ pc[c] \in {"runtime", "start", "launched"} => ~o.callback
    <2>1. running = None BY <1>1, <1>4, <1>5 DEF SessionInv
    <2>2. begun # running BY <1>6, <2>1 DEF Attempts, None
    <2> QED BY <1>1, <1>2, <1>5, <1>6, <2>1, <2>2 DEF OwnedInv, Alive
  <1>8. call = [call EXCEPT ![c] = call[c]] /\ call[c] \in Calls BY <1>2
  <1>9. Starting \subseteq Places /\ "idle" \in Places BY DEF Starting, Places, GateSteps
  <1> HIDE DEF o
  <1>10. CASE AcquireRuntime(c)
    <2>1. pc[c] = "runtime" BY <1>10 DEF AcquireRuntime, At
    <2>2. o.server # "up" /\ o.key # "there" /\ ~o.callback
      BY <1>7, <2>1 DEF Launched
    <2>3. CASE Goes(c, "start") /\ UNCHANGED gate /\ att' = RuntimeLeased(att, begun)
      <3> DEFINE r == [o EXCEPT !.leases = @ \cup {"runtime"}, !.monitor = "watching"]
      <3>1. Changes(att, att', begun) /\ att'[begun] = r
        BY <2>3, <1>2, <1>6, RuntimeLeasedOnly DEF o
      <3>2. /\ r.settings = o.settings /\ r.server = o.server /\ r.key = o.key
            /\ r.callback = o.callback /\ r.monitor = "watching"
        BY <1>7 DEF Owned
      <3> HIDE DEF r
      <3>3. "start" \in Starting BY DEF Starting
      <3> QED
        BY <1>3, <1>4, <1>8, <1>9, <2>2, <2>3, <3>1, <3>2, <3>3, AttemptStep DEF Goes, o
    <2>4. CASE Ends(c) /\ gate' = Free /\ att' = NoLeases(att, begun)
      <3> DEFINE r == [o EXCEPT !.leases = {}, !.monitor = "off", !.callback = FALSE]
      <3>1. Changes(att, att', begun) /\ att'[begun] = r
        BY <2>4, <1>2, <1>6, NoLeasesOnly DEF o
      <3>2. /\ r.settings = o.settings /\ r.server = o.server /\ r.key = o.key
            /\ ~r.callback /\ r.monitor = "off" /\ r.leases = {}
        BY <1>7 DEF Owned
      <3> HIDE DEF r
      <3> QED
        BY <1>2, <1>3, <1>4, <1>9, <2>2, <2>4, <3>1, <3>2, AttemptStep DEF Ends, o
    <2> QED BY <1>10, <2>3, <2>4 DEF AcquireRuntime
  <1>11. CASE StartAttempt(c)
    <2>1. pc[c] = "start" /\ gate' = gate BY <1>11 DEF StartAttempt, At, OnlyAttChanges
    <2>2. o.server # "up" /\ o.key # "there" /\ ~o.callback
      BY <1>7, <2>1 DEF Launched
    <2>3. /\ Changes(att, KeyWritten(att, begun), begun)
          /\ KeyWritten(att, begun)[begun] = [o EXCEPT !.key = "there"]
          /\ KeyWritten(att, begun) \in [Attempts -> Owned]
      BY <1>2, <1>6, KeyWrittenOnly DEF o, Changes
    <2>4. {"launched", "cleanup"} \subseteq Starting /\ {"launched", "cleanup"} \subseteq Launched
      BY DEF Starting, Launched
    <2>5. CASE Goes(c, "launched") /\ att' = Started(KeyWritten(att, begun), begun)
      <3> DEFINE r == [[o EXCEPT !.key = "there"] EXCEPT !.server = "up"]
                 w == KeyWritten(att, begun)
      <3>1. Changes(att, att', begun) /\ att'[begun] = r
        <4>1. w \in [Attempts -> Owned] /\ Changes(att, w, begun) BY <2>3
        <4>2. w[begun] = [o EXCEPT !.key = "there"] BY <2>3
        <4>3. att' = Started(w, begun) BY <2>5
        <4> HIDE DEF w
        <4>4. Changes(w, att', begun) /\ att'[begun] = [w[begun] EXCEPT !.server = "up"]
          BY <4>1, <4>3, <1>6, StartedOnly
        <4>5. Changes(att, att', begun) BY <4>1, <4>4 DEF Changes
        <4> QED BY <4>2, <4>4, <4>5
      <3>2. r.settings = o.settings /\ r.callback = o.callback
        BY <1>7 DEF Owned
      <3> HIDE DEF r
      <3> QED
        BY <1>3, <1>4, <1>8, <1>9, <2>1, <2>2, <2>4, <2>5, <3>1, <3>2, AttemptStep DEF Goes, o
    <2>6. CASE Goes(c, "cleanup") /\ att' = att
      <3>1. Changes(att, att', begun) /\ att'[begun] = o BY <2>6, <1>2 DEF Changes, o
      <3> QED
        BY <1>3, <1>4, <1>8, <1>9, <2>1, <2>2, <2>4, <2>6, <3>1, AttemptStep DEF Goes, o
    <2>7. CASE Goes(c, "cleanup") /\ att' = KeyWritten(att, begun)
      <3> DEFINE r == [o EXCEPT !.key = "there"]
      <3>1. Changes(att, att', begun) /\ att'[begun] = r BY <2>3, <2>7
      <3>2. r.settings = o.settings /\ r.callback = o.callback /\ r.server = o.server
        BY <1>7 DEF Owned
      <3> HIDE DEF r
      <3> QED
        BY <1>3, <1>4, <1>8, <1>9, <2>1, <2>2, <2>4, <2>7, <3>1, <3>2, AttemptStep DEF Goes, o
    <2> QED BY <1>11, <2>5, <2>6, <2>7 DEF StartAttempt
  <1>12. CASE RegisterCallbacks(c)
    <2> DEFINE to == IF Alive(begun) /\ IsValid(begun) THEN "health" ELSE "cleanup"
    <2>1. /\ pc[c] = "launched" /\ gate' = gate /\ att' = RegisterCallback(att, begun)
          /\ Goes(c, to) /\ to \in {"health", "cleanup"}
      BY <1>12 DEF RegisterCallbacks, At, OnlyAttChanges
    <2> HIDE DEF to
    <2> DEFINE r == att'[begun]
    <2>2. /\ Changes(att, att', begun)
          /\ r \in {[o EXCEPT !.callback = TRUE], [o EXCEPT !.callback = TRUE, !.server = "killed"]}
          /\ o.monitor # "watching" => r.server # "up"
      BY <2>1, <1>2, <1>6, CallbackRegistered DEF o
    <2>3. r.settings = o.settings /\ r.monitor = o.monitor
      BY <2>2, <1>7 DEF Owned
    <2>4. to \in Starting /\ to \in Launched /\ to \notin {"runtime", "start", "launched"}
      BY <2>1 DEF Starting, Launched
    <2>5. r = att'[begun] OBVIOUS
    <2> HIDE DEF r
    <2> QED
      BY <1>3, <1>4, <1>8, <1>9, <2>1, <2>2, <2>3, <2>4, <2>5, AttemptStep DEF Goes, o
  <1>13. CASE Cleanup(c)
    <2>1. /\ pc[c] = "cleanup" /\ gate' = gate /\ att' = Killed(att, begun)
          /\ Goes(c, "cleanup_files")
      BY <1>13 DEF Cleanup, At, OnlyAttChanges
    <2> DEFINE r == [o EXCEPT !.server = IF o.server = "up" THEN "killed" ELSE @]
    <2>2. Changes(att, att', begun) /\ att'[begun] = r /\ r.server # "up"
      BY <2>1, <1>2, <1>6, KilledOnly DEF o
    <2>3. r.settings = o.settings
      BY <1>7 DEF Owned
    <2>4. "cleanup_files" \in Starting BY DEF Starting
    <2> HIDE DEF r
    <2> QED
      BY <1>3, <1>4, <1>8, <1>9, <2>1, <2>2, <2>3, <2>4, AttemptStep DEF Goes, o
  <1>14. CASE CleanupFiles(c)
    <2> DEFINE a == NoLeases(att, begun)
               q == [o EXCEPT !.leases = {}, !.monitor = "off", !.callback = FALSE]
    <2>1. pc[c] = "cleanup_files" /\ gate' = Free /\ Ends(c) BY <1>14 DEF CleanupFiles, At
    <2>2. Changes(att, a, begun) /\ a[begun] = q /\ a \in [Attempts -> Owned]
      BY <1>2, <1>6, NoLeasesOnly DEF o, Changes
    <2>3. /\ q \in Owned /\ q.settings = o.settings /\ q.server = o.server
          /\ ~q.callback /\ q.leases = {}
      BY <1>7, <2>2, <1>6 DEF Owned
    <2>4. o.server # "up" BY <1>7, <2>1 DEF Launched
    <2> HIDE DEF a, q
    <2>5. CASE att' = KeyDeleted(a, begun)
      <3> DEFINE r == [q EXCEPT !.key = "none"]
      <3>1. Changes(att, att', begun) /\ att'[begun] = r
        BY <2>2, <2>5, <1>6, KeyDeletedOnly DEF Changes
      <3>2. /\ r.settings = q.settings /\ r.server = q.server /\ r.callback = q.callback
            /\ r.leases = q.leases /\ r.key = "none"
        BY <2>3 DEF Owned
      <3> HIDE DEF r
      <3> QED
        BY <1>2, <1>3, <1>4, <1>9, <2>1, <2>3, <2>4, <3>1, <3>2, AttemptStep DEF Ends, o
    <2>6. CASE att' = [a EXCEPT ![begun].key = "stuck"]
      <3> DEFINE r == [q EXCEPT !.key = "stuck"]
      <3>1. att' = [a EXCEPT ![begun] = r] BY <2>2, <2>6
      <3>2. r \in Owned BY <2>3 DEF Owned, Keys
      <3>3. Changes(att, att', begun) /\ att'[begun] = r
        BY <2>2, <3>1, <3>2, <1>6 DEF Changes
      <3>4. /\ r.settings = q.settings /\ r.server = q.server /\ r.callback = q.callback
            /\ r.leases = q.leases /\ r.key = "stuck"
        BY <2>3 DEF Owned
      <3> HIDE DEF r
      <3> QED
        BY <1>2, <1>3, <1>4, <1>9, <2>1, <2>3, <2>4, <3>3, <3>4, AttemptStep DEF Ends, o
    <2> QED BY <1>14, <2>5, <2>6 DEF CleanupFiles, a
  <1> QED BY <1>10, <1>11, <1>12, <1>13, <1>14 DEF AttemptAction
-----------------------------------------------------------------------------
(* Stops, begins, publishes.                                               *)

LEMMA StopRunningKeeps ==
  ASSUME TypeOK, SessionInv, OwnedInv, Phase = "stop", Phase' = "stopping", StopRunning
  PROVE  /\ SessionInv' /\ OwnedInv' /\ att' \in [Attempts -> Owned]
         /\ running' \in 0..MaxAttempts /\ stopping' \in 0..MaxAttempts
         /\ trusted' \subseteq Attempts
         /\ \A i \in Attempts : att'[i].settings = att[i].settings
  <1>1. /\ running' = None /\ stopping' = running /\ begun' = begun
        /\ trusted' = trusted \ {running}
        /\ att' = IF running = None THEN att ELSE Killed(att, running)
    BY DEF StopRunning
  <1>2. /\ running <= begun /\ stopping = None /\ trusted \subseteq {running}
        /\ "stop" \notin Starting \cup Launched \cup {"cleanup_files"}
        /\ "stopping" \notin Starting
    BY DEF SessionInv, Starting, Launched
  <1>3. /\ begun \in Nat /\ running \in Nat /\ running <= MaxAttempts /\ MaxAttempts \in Nat
        /\ att \in [Attempts -> Owned] /\ trusted \subseteq Attempts
    BY Types, AttType DEF TypeOK
  <1>4. /\ att' \in [Attempts -> Owned]
        /\ \A i \in Attempts \ {running} : att'[i] = att[i]
        /\ running # None => att'[running] \in {att[running], [att[running] EXCEPT !.server = "killed"]}
                             /\ att'[running].server # "up"
    <2>1. CASE running = None BY <2>1, <1>1, <1>3
    <2>2. CASE running # None
      <3>1. running \in Attempts BY <2>2, <1>3 DEF Attempts, None
      <3>2. /\ Changes(att, att', running) /\ att'[running].server # "up"
            /\ att'[running] = [att[running] EXCEPT
                                  !.server = IF att[running].server = "up" THEN "killed" ELSE @]
        BY <3>1, <2>2, <1>1, <1>3, KilledOnly
      <3>3. att[running] = [att[running] EXCEPT !.server = @] BY <3>1, <1>3 DEF Owned
      <3> QED BY <3>2, <3>3 DEF Changes
    <2> QED BY <2>1, <2>2
  <1>5. \A i \in Attempts :
          /\ att'[i].settings = att[i].settings /\ att'[i].leases = att[i].leases
          /\ att'[i].key = att[i].key
          /\ att'[i].server = "up" => att[i].server = "up" /\ i # running /\ att'[i] = att[i]
          /\ i # running => att'[i] = att[i]
    <2> TAKE i \in Attempts
    <2>1. CASE i # running BY <2>1, <1>4
    <2>2. CASE i = running
      <3>1. running # None /\ att[i] \in Owned BY <2>2, <1>3 DEF Attempts, None
      <3> QED BY <3>1, <2>2, <1>4 DEF Owned
    <2> QED BY <2>1, <2>2
  <1>6. SessionInv' BY <1>1, <1>2, <1>3 DEF SessionInv, None
  <1>7. OwnedInv'
    <2> SUFFICES ASSUME NEW i \in Attempts
        PROVE  /\ i > begun => att'[i] = Unowned
               /\ att'[i].server # "up"
               /\ att'[i].leases # {} => i = running
               /\ att'[i].key # "there"
      BY <1>1, <1>2 DEF OwnedInv, Alive
    <2>1. i > begun => i # running BY <1>2, <1>3 DEF Attempts
    <2>2. i # None BY DEF Attempts, None
    <2>3. /\ i > begun => att[i] = Unowned
          /\ att[i].server = "up" => i = running
          /\ att[i].leases # {} => i = running
          /\ att[i].key # "there"
      BY <1>2, <2>2 DEF OwnedInv, Alive
    <2> QED BY <1>5, <2>1, <2>3
  <1>8. stopping' \in 0..MaxAttempts /\ running' \in 0..MaxAttempts
    BY <1>1, <1>3 DEF None
  <1> QED BY <1>1, <1>3, <1>4, <1>5, <1>6, <1>7, <1>8

LEMMA StoppedKeeps ==
  ASSUME TypeOK, SessionInv, OwnedInv, Phase = "stopping", Phase' \in {"model", "free"}, Stopped
  PROVE  /\ SessionInv' /\ OwnedInv' /\ att' \in [Attempts -> Owned]
         /\ \A i \in Attempts : att'[i].settings = att[i].settings
  <1>1. /\ stopping' = None /\ UNCHANGED <<running, begun, trusted>>
        /\ att' = IF stopping = None THEN att ELSE NoLeases(att, stopping)
    BY DEF Stopped
  <1>2. /\ running = None /\ stopping <= begun
        /\ "stopping" \notin Starting \cup Launched \cup {"cleanup_files"}
        /\ {"model", "free"} \cap (Starting \cup Launched \cup {"cleanup_files"}) = {}
    BY DEF SessionInv, Starting, Launched
  <1>3. /\ begun \in Nat /\ stopping \in Nat /\ stopping <= MaxAttempts /\ MaxAttempts \in Nat
        /\ att \in [Attempts -> Owned]
    BY Types, AttType
  <1>4. /\ att' \in [Attempts -> Owned]
        /\ \A i \in Attempts \ {stopping} : att'[i] = att[i]
        /\ stopping # None =>
             att'[stopping] =
               [att[stopping] EXCEPT !.leases = {}, !.monitor = "off", !.callback = FALSE]
    <2>1. CASE stopping = None BY <2>1, <1>1, <1>3
    <2>2. CASE stopping # None
      <3>1. stopping \in Attempts BY <2>2, <1>3 DEF Attempts, None
      <3>2. att' = NoLeases(att, stopping) BY <2>2, <1>1
      <3>3. /\ Changes(att, att', stopping)
            /\ att'[stopping] =
                 [att[stopping] EXCEPT !.leases = {}, !.monitor = "off", !.callback = FALSE]
        BY <3>1, <3>2, <1>3, NoLeasesOnly
      <3> QED BY <3>3 DEF Changes
    <2> QED BY <2>1, <2>2
  <1>5. \A i \in Attempts :
          /\ att'[i].settings = att[i].settings /\ att'[i].server = att[i].server
          /\ att'[i].key = att[i].key
          /\ i = stopping => att'[i].leases = {}
          /\ i # stopping => att'[i] = att[i]
    <2> TAKE i \in Attempts
    <2>1. CASE i # stopping BY <2>1, <1>4
    <2>2. CASE i = stopping
      <3>1. stopping # None /\ att[i] \in Owned BY <2>2, <1>3 DEF Attempts, None
      <3> QED BY <3>1, <2>2, <1>4 DEF Owned
    <2> QED BY <2>1, <2>2
  <1>6. SessionInv' BY <1>1, <1>2, <1>3 DEF SessionInv, None
  <1>7. OwnedInv'
    <2> SUFFICES ASSUME NEW i \in Attempts
        PROVE  /\ i > begun => att'[i] = Unowned
               /\ att'[i].server # "up"
               /\ att'[i].leases = {}
               /\ att'[i].key # "there"
      BY <1>1, <1>2 DEF OwnedInv, Alive
    <2>1. i > begun => i # stopping BY <1>2, <1>3 DEF Attempts
    <2>2. i # None BY DEF Attempts, None
    <2>3. /\ i > begun => att[i] = Unowned
          /\ att[i].server # "up"
          /\ att[i].leases # {} => i = stopping
          /\ att[i].key # "there"
      BY <1>2, <2>2 DEF OwnedInv, Alive
    <2> QED BY <1>5, <2>1, <2>3
  <1> QED BY <1>4, <1>5, <1>6, <1>7

\* What these steps do to the rest of the state, in one place.
LEMMA TypeFrom ==
  ASSUME TypeOK,
         att' \in [Attempts -> Owned],
         running' \in 0..MaxAttempts, stopping' \in 0..MaxAttempts, begun' \in 0..MaxAttempts,
         trusted' \subseteq Attempts, gate' \in Callers \cup {Disposer, Free},
         pc' \in [Callers -> Places], call' \in [Callers -> Calls],
         calls' \in [Callers -> 0 .. MaxCalls], UNCHANGED diskVars,
         runtimeDisposed' \in BOOLEAN, disposing' \in BOOLEAN,
         disposer' \in {"idle", "gate", "stop", "stopping", "done"}
  PROVE  TypeOK'
  BY DEF TypeOK, Places, Calls, Owned, Servers, Ports, Monitors, Keys, diskVars

LEMMA StopKeeps == ASSUME Inv, NEW c \in Callers, Stop(c) PROVE Inv'
  <1>1. TypeOK /\ GateInv /\ DisposalInv /\ SessionInv /\ OwnedInv /\ CallInv BY DEF Inv
  <1>2. /\ pc' = [pc EXCEPT ![c] = "stopping"] /\ UNCHANGED <<call, gate, begun>>
        /\ pc[c] = "stop" /\ StopRunning /\ UNCHANGED <<calls, lifeVars, diskVars>>
    BY DEF Stop, At, Goes, StopRunning
  <1>3. "stop" \in GateSteps /\ "stopping" \in GateSteps /\ "stopping" \in Places
        /\ "stopping" \notin RequestSteps \cup Starting \cup {"sending", "streaming"}
        /\ "stop" \notin RequestSteps
    BY DEF GateSteps, Places, RequestSteps, Starting
  <1>4. /\ GateInv' /\ Phase = "stop" /\ Phase' = "stopping"
        /\ pc'[c] = "stopping" /\ \A d \in Callers \ {c} : pc'[d] = pc[d]
    <2> DEFINE to == "stopping"
    <2>1. UNCHANGED disposer BY <1>2 DEF lifeVars
    <2>2. gate' = gate /\ (to \in GateSteps <=> pc[c] \in GateSteps) BY <1>2, <1>3
    <2>3. pc' = [pc EXCEPT ![c] = to] /\ to \in GateSteps /\ pc[c] \in GateSteps
      BY <1>2, <1>3
    <2>4. to = "stopping" OBVIOUS
    <2> HIDE DEF to
    <2>5. /\ GateInv' /\ Phase = pc[c] /\ Phase' = to
          /\ pc'[c] = to /\ \A d \in Callers \ {c} : pc'[d] = pc[d]
      BY <1>1, <2>1, <2>2, <2>3, CallerMoves
    <2> QED BY <1>2, <2>4, <2>5
  <1>5. /\ SessionInv' /\ OwnedInv' /\ att' \in [Attempts -> Owned]
        /\ running' \in 0..MaxAttempts /\ stopping' \in 0..MaxAttempts
        /\ trusted' \subseteq Attempts
        /\ \A i \in Attempts : att'[i].settings = att[i].settings
    BY <1>1, <1>2, <1>4, StopRunningKeeps
  <1>6. begun \in Nat /\ begun <= MaxAttempts /\ pc \in [Callers -> Places]
        /\ call \in [Callers -> Calls] /\ begun \in 0..MaxAttempts
    BY <1>1, Types DEF TypeOK
  <1>7. TypeOK'
    <2>1. pc' \in [Callers -> Places] BY <1>2, <1>3, <1>6
    <2> QED BY <1>1, <1>2, <1>5, <1>6, <2>1, TypeFrom DEF TypeOK, lifeVars
  <1>8. CallInv'
    <2>1. \A i \in 1..begun : i \in Attempts BY <1>6, <1>1, Types DEF Attempts
    <2>2. call[c].got = None /\ call[c].got <= begun
      BY <1>1, <1>2, <1>3 DEF CallInv
    <2> QED BY <1>1, <1>2, <1>3, <1>4, <1>5, <1>6, <2>1, <2>2, CallKept
  <1> QED BY <1>1, <1>2, <1>4, <1>5, <1>7, <1>8 DEF Inv, DisposalInv, lifeVars

LEMMA StopEndsKeeps == ASSUME Inv, NEW c \in Callers, StopEnds(c) PROVE Inv'
  <1>1. TypeOK /\ GateInv /\ DisposalInv /\ SessionInv /\ OwnedInv /\ CallInv BY DEF Inv
  <1>2. /\ pc[c] = "stopping" /\ Stopped /\ UNCHANGED <<calls, lifeVars, diskVars>>
        /\ UNCHANGED <<running, begun, trusted>> /\ stopping' = None
    BY DEF StopEnds, At, Stopped
  <1>3. "stopping" \in GateSteps /\ "model" \in GateSteps /\ {"idle", "model"} \subseteq Places
        /\ {"idle", "model"} \cap (RequestSteps \cup Starting \cup {"sending", "streaming"}) = {}
        /\ "stopping" \notin RequestSteps /\ "idle" \notin GateSteps
    BY DEF GateSteps, Places, RequestSteps, Starting
  <1>4. PICK to \in {"idle", "model"}, k \in {NoCall, call[c]} :
          /\ pc' = [pc EXCEPT ![c] = to] /\ call' = [call EXCEPT ![c] = k]
          /\ to = "idle" => gate' = Free
          /\ to = "model" => gate' = gate
    <2>1. call = [call EXCEPT ![c] = call[c]] BY <1>1 DEF TypeOK
    <2> QED BY <2>1 DEF StopEnds, Ends, Goes
  <1>5. /\ GateInv' /\ Phase = "stopping" /\ Phase' \in {"model", "free"}
        /\ pc'[c] = to /\ \A d \in Callers \ {c} : pc'[d] = pc[d]
    <2>1. UNCHANGED disposer BY <1>2 DEF lifeVars
    <2>2. \/ gate' = gate /\ (to \in GateSteps <=> pc[c] \in GateSteps)
          \/ pc[c] \in GateSteps /\ gate' = Free /\ to \notin GateSteps
      BY <1>2, <1>3, <1>4
    <2>3. pc[c] \in GateSteps /\ (to \in GateSteps \/ to = "idle") /\ "idle" \notin GateSteps
      BY <1>2, <1>3
    <2>4. /\ GateInv' /\ Phase = pc[c]
          /\ to \in GateSteps => Phase' = to
          /\ to \notin GateSteps => Phase' = "free"
          /\ pc'[c] = to /\ \A d \in Callers \ {c} : pc'[d] = pc[d]
      BY <1>1, <1>4, <2>1, <2>2, <2>3, CallerMoves
    <2> QED BY <1>2, <1>3, <2>3, <2>4
  <1>6. /\ SessionInv' /\ OwnedInv' /\ att' \in [Attempts -> Owned]
        /\ \A i \in Attempts : att'[i].settings = att[i].settings
    BY <1>1, <1>2, <1>5, StoppedKeeps
  <1>7. begun \in Nat /\ begun <= MaxAttempts /\ pc \in [Callers -> Places]
        /\ call \in [Callers -> Calls] /\ begun \in 0..MaxAttempts /\ NoCall \in Calls
        /\ running \in 0..MaxAttempts /\ MaxAttempts \in Nat
    BY <1>1, Types DEF TypeOK
  <1>8. TypeOK'
    <2>1. pc' \in [Callers -> Places] /\ call' \in [Callers -> Calls]
      BY <1>3, <1>4, <1>7
    <2>2. gate' \in Callers \cup {Disposer, Free} /\ stopping' \in 0..MaxAttempts
      BY <1>1, <1>2, <1>4, <1>7 DEF TypeOK, None
    <2> QED BY <1>1, <1>2, <1>6, <1>7, <2>1, <2>2, TypeFrom DEF TypeOK, lifeVars
  <1>9. CallInv'
    <2>1. \A i \in 1..begun : i \in Attempts BY <1>7 DEF Attempts
    <2>2. call[c].got = None /\ None <= begun
      BY <1>1, <1>2, <1>3, <1>7 DEF CallInv, None
    <2>3. call'[c] = k /\ k.got = None /\ \A d \in Callers \ {c} : call'[d] = call[d]
      BY <1>4, <1>7, <2>2 DEF NoCall
    <2> QED BY <1>1, <1>2, <1>3, <1>4, <1>5, <1>6, <1>7, <2>1, <2>2, <2>3, CallKept
  <1> QED BY <1>1, <1>2, <1>5, <1>6, <1>8, <1>9 DEF Inv, DisposalInv, lifeVars

LEMMA AcquireModelKeeps == ASSUME Inv, NEW c \in Callers, AcquireModel(c) PROVE Inv'
  <1>1. TypeOK /\ GateInv /\ DisposalInv /\ SessionInv /\ OwnedInv /\ CallInv BY DEF Inv
  <1>2. CASE At(c, "model") /\ LeaveGate(c)
    BY <1>2, LookingKeeps DEF LookingStep
  <1>3. ASSUME /\ At(c, "model") /\ begun < MaxAttempts /\ Goes(c, "runtime")
               /\ begun' = begun + 1
               /\ att' = [ModelLeased(att, begun + 1)
                           EXCEPT ![begun + 1].settings = call[c].want]
               /\ UNCHANGED <<gate, running, stopping, trusted>>
        PROVE  Inv'
    <2> DEFINE n == begun + 1
               to == "runtime"
    <2>1. /\ begun \in Nat /\ n \in Nat /\ MaxAttempts \in Nat /\ begun < MaxAttempts
          /\ n \in Attempts /\ n <= MaxAttempts /\ n > begun /\ n # None
          /\ pc \in [Callers -> Places] /\ call \in [Callers -> Calls]
          /\ att \in [Attempts -> Owned]
      BY <1>1, <1>3, Types, AttType DEF Attempts, None
    <2>2. /\ pc' = [pc EXCEPT ![c] = to] /\ pc[c] = "model" /\ UNCHANGED <<call, disposer>>
          /\ UNCHANGED <<calls, lifeVars, diskVars>>
      BY <1>3 DEF At, Goes, lifeVars
    <2>3. /\ {"model", to} \subseteq GateSteps /\ to \in Starting /\ to \in Places
          /\ to \notin RequestSteps \cup Launched \cup {"stopping", "cleanup_files"}
          /\ "model" \notin Starting \cup Launched \cup RequestSteps \cup {"stopping", "cleanup_files"}
      BY DEF GateSteps, Starting, Places, RequestSteps, Launched
    <2>4. Launched \subseteq Starting /\ "cleanup_files" \in Starting
          /\ Starting \subseteq GateSteps /\ to # "stopping"
      BY DEF Launched, Starting, GateSteps
    <2>5. call[c].want \in Settings \cup {NoSettings} BY <2>1 DEF Calls
    <2> HIDE DEF n, to
    <2>6. /\ GateInv' /\ Phase = "model" /\ Phase' = to /\ gate = c
          /\ pc'[c] = to /\ \A d \in Callers \ {c} : pc'[d] = pc[d]
      <3>1. gate' = gate /\ (to \in GateSteps <=> pc[c] \in GateSteps)
        BY <1>3, <2>2, <2>3
      <3>2. /\ GateInv' /\ Phase = pc[c] /\ Phase' = to /\ gate = c
            /\ pc'[c] = to /\ \A d \in Callers \ {c} : pc'[d] = pc[d]
        <4>1. UNCHANGED disposer /\ pc' = [pc EXCEPT ![c] = to] BY <2>2
        <4>2. pc[c] \in GateSteps /\ to \in GateSteps BY <2>2, <2>3
        <4> QED BY <1>1, <3>1, <4>1, <4>2, CallerMoves
      <3> QED BY <2>2, <3>2
    <2>7. running = None /\ stopping = None
      BY <1>1, <2>6 DEF SessionInv
    <2>8. att[n] = Unowned BY <1>1, <2>1 DEF OwnedInv
    <2> DEFINE r == [att[n] EXCEPT !.leases = {"model"}, !.settings = call[c].want]
    <2>9. Changes(att, att', n) /\ att'[n] = r
      <3>1. att' = [ModelLeased(att, n) EXCEPT ![n].settings = call[c].want]
        BY <1>3 DEF n
      <3>2. r \in Owned BY <2>1, <2>5 DEF Owned
      <3>3. ModelLeased(att, n) = [att EXCEPT ![n] = [att[n] EXCEPT !.leases = {"model"}]]
        BY DEF ModelLeased
      <3>4. att' = [att EXCEPT ![n] = r] BY <2>1, <3>1, <3>3
      <3> HIDE DEF r
      <3> QED BY <2>1, <3>2, <3>4 DEF Changes
    <2>10. /\ r.server = "none" /\ r.key = "none" /\ ~r.callback
           /\ r.settings = call[c].want
      BY <2>8 DEF Unowned
    <2> HIDE DEF r
    <2>11. \A i \in Attempts \ {n} : att'[i] = att[i] /\ (i > begun' <=> i > begun /\ i # n)
      BY <1>3, <2>1, <2>9 DEF Changes, Attempts, n
    <2>12. SessionInv'
      BY <1>3, <2>1, <2>3, <2>6, <2>7, <1>1 DEF SessionInv, None, n
    <2>13. OwnedInv'
      <3> SUFFICES ASSUME NEW i \in Attempts
          PROVE  /\ i > begun' => att'[i] = Unowned
                 /\ att'[i].server # "up"
                 /\ att'[i].leases # {} => i = begun'
                 /\ att'[i].key # "there"
                 /\ i = begun' => ~att'[i].callback
        BY <2>3, <2>6 DEF OwnedInv, Alive
      <3>0. begun' = n BY <1>3 DEF n
      <3>1. CASE i = n
        BY <3>0, <3>1, <2>1, <2>9, <2>10
      <3>2. CASE i # n
        <4>1. att'[i] = att[i] /\ (i > begun' => i > begun) BY <3>2, <2>11
        <4>2. i # None BY DEF Attempts, None
        <4>3. /\ i > begun => att[i] = Unowned
              /\ att[i].server # "up" /\ att[i].leases = {} /\ att[i].key # "there"
          BY <1>1, <2>3, <2>6, <2>7, <4>2 DEF OwnedInv, Alive
        <4> QED BY <3>0, <3>2, <4>1, <4>3
      <3> QED BY <3>1, <3>2
    <2>14. CallInv'
      <3>1. \A i \in 1..begun : att'[i].settings = att[i].settings
        <4> TAKE i \in 1..begun
        <4>1. i \in Attempts \ {n} BY <2>1 DEF Attempts, n
        <4> QED BY <4>1, <2>11
      <3>2. \A d \in Callers \ {c} : pc[d] \notin Starting
        BY <1>1, <2>4, <2>6 DEF GateInv
      <3>3. call[c].got = None /\ None <= n
        BY <1>1, <2>1, <2>2, <2>3 DEF CallInv, None
      <3>4. begun' = n /\ begun <= n /\ \A d \in Callers \ {c} : call'[d] = call[d]
        BY <1>3, <2>1, <2>2 DEF n
      <3>5. /\ call'[c].got <= begun' /\ call'[c].got = None
            /\ pc'[c] \notin {"sending", "streaming"}
            /\ begun' # None /\ att'[begun'].settings = call'[c].want
        BY <2>1, <2>2, <2>3, <2>6, <2>9, <2>10, <3>3, <3>4 DEF RequestSteps
      <3> QED BY <1>1, <2>1, <2>6, <3>1, <3>2, <3>4, <3>5, CallKept
    <2>15. TypeOK'
      <3>1. pc' \in [Callers -> Places] BY <2>1, <2>2, <2>3
      <3>2. begun' \in 0..MaxAttempts /\ running' \in 0..MaxAttempts /\ stopping' \in 0..MaxAttempts
            /\ trusted' \subseteq Attempts /\ gate' \in Callers \cup {Disposer, Free}
        BY <1>1, <1>3, <2>1 DEF TypeOK, n
      <3>3. att' \in [Attempts -> Owned] BY <2>9 DEF Changes
      <3> QED BY <1>1, <2>1, <2>2, <3>1, <3>2, <3>3, TypeFrom DEF TypeOK, lifeVars
    <2> QED BY <1>1, <2>2, <2>6, <2>12, <2>13, <2>14, <2>15 DEF Inv, DisposalInv, lifeVars
  <1> QED BY <1>2, <1>3 DEF AcquireModel

LEMMA PublishKeeps == ASSUME Inv, NEW c \in Callers, Publish(c) PROVE Inv'
  <1>1. TypeOK /\ GateInv /\ DisposalInv /\ SessionInv /\ OwnedInv /\ CallInv BY DEF Inv
  <1>2. /\ begun \in Nat /\ MaxAttempts \in Nat /\ begun <= MaxAttempts
        /\ pc \in [Callers -> Places] /\ call \in [Callers -> Calls]
        /\ att \in [Attempts -> Owned] /\ NoCall \in Calls
    BY <1>1, Types, AttType
  <1>3. /\ pc[c] = "publish" /\ att' = KeyDeleted(att, begun) /\ gate' = Free
        /\ trusted' = trusted \cup {begun} /\ running' = begun
        /\ UNCHANGED <<stopping, begun, calls, lifeVars, diskVars>>
    BY DEF Publish, At, Return
  <1>4. /\ "publish" \in GateSteps /\ "publish" \in Starting
        /\ {"idle", "lookup"} \subseteq Places
        /\ {"idle", "lookup"} \cap (GateSteps \cup Starting) = {}
        /\ "idle" \notin RequestSteps /\ "publish" \notin RequestSteps
        /\ "free" \notin Starting \cup Launched \cup {"stopping", "model", "cleanup_files"}
    BY DEF GateSteps, Starting, Places, RequestSteps, Launched
  <1>5. call[c].got = None /\ att[begun].settings = call[c].want /\ begun # None
    BY <1>1, <1>3, <1>4 DEF CallInv
  <1>6. begun \in Attempts BY <1>2, <1>5 DEF Attempts, None
  <1>7. PICK to \in {"idle", "lookup"}, k \in Calls :
          /\ pc' = [pc EXCEPT ![c] = to] /\ call' = [call EXCEPT ![c] = k]
          /\ to = "idle" => k.got = None
          /\ k.got \in {None, begun}
          /\ k.got # None => k.want = call[c].want
    <2>1. CASE Ends(c)
      <3>1. NoCall.got = None BY DEF NoCall
      <3> QED BY <2>1, <3>1, <1>2 DEF Ends
    <2>2. CASE /\ pc' = [pc EXCEPT ![c] = "lookup"]
               /\ call' = [call EXCEPT ![c].got = begun]
      <3> DEFINE k == [call[c] EXCEPT !.got = begun]
      <3>1. k \in Calls /\ k.got = begun /\ k.want = call[c].want BY <1>2 DEF Calls
      <3>2. call' = [call EXCEPT ![c] = k] BY <2>2
      <3> HIDE DEF k
      <3> QED BY <2>2, <3>1, <3>2
    <2> QED BY <2>1, <2>2 DEF Publish, Return
  <1>8. /\ GateInv' /\ Phase = "publish" /\ Phase' = "free"
        /\ pc'[c] = to /\ \A d \in Callers \ {c} : pc'[d] = pc[d]
    <2>1. UNCHANGED disposer BY <1>3 DEF lifeVars
    <2>2. pc[c] \in GateSteps /\ gate' = Free /\ to \notin GateSteps BY <1>3, <1>4
    <2>3. /\ GateInv' /\ Phase = pc[c] /\ Phase' = "free"
          /\ pc'[c] = to /\ \A d \in Callers \ {c} : pc'[d] = pc[d]
      BY <1>1, <1>7, <2>1, <2>2, CallerMoves
    <2> QED BY <2>3, <1>3
  <1>9. /\ running = None /\ stopping = None /\ trusted \subseteq {running}
    BY <1>1, <1>4, <1>8 DEF SessionInv
  <1>10. trusted = {}
    <2>1. trusted \subseteq Attempts BY <1>1 DEF TypeOK
    <2>2. None \notin Attempts BY DEF Attempts, None
    <2> QED BY <1>9, <2>1, <2>2
  <1> DEFINE r == [att[begun] EXCEPT !.key = "none"]
  <1>11. Changes(att, att', begun) /\ att'[begun] = r
    BY <1>2, <1>3, <1>6, KeyDeletedOnly
  <1>12. /\ r.settings = att[begun].settings /\ r.server = att[begun].server
         /\ r.callback = att[begun].callback /\ r.monitor = att[begun].monitor
         /\ r.key = "none"
    BY <1>2, <1>6 DEF Owned
  <1> HIDE DEF r
  <1>13. SessionInv'
    BY <1>2, <1>3, <1>4, <1>8, <1>9, <1>10 DEF SessionInv, None
  <1>14. OwnedInv'
    <2> SUFFICES ASSUME NEW i \in Attempts
        PROVE  /\ i > begun => att'[i] = Unowned
               /\ att'[i].server = "up" => i = begun
               /\ att'[i].leases # {} => i = begun
               /\ att'[i].key # "there"
               /\ att'[i].monitor = "handled" /\ att'[i].callback => att'[i].server # "up"
      BY <1>3, <1>4, <1>8 DEF OwnedInv, Alive
    <2>1. CASE i = begun
      <3>1. ~(begun > begun) BY <1>2
      <3>2. att[begun].monitor = "handled" /\ att[begun].callback => att[begun].server # "up"
        BY <1>1, <1>6 DEF OwnedInv, Alive
      <3> QED BY <2>1, <3>1, <3>2, <1>11, <1>12
    <2>2. CASE i # begun
      <3>1. att'[i] = att[i] BY <2>2, <1>11 DEF Changes
      <3>2. i # None BY DEF Attempts, None
      <3> QED BY <2>2, <3>1, <3>2, <1>1, <1>9 DEF OwnedInv, Alive
    <2> QED BY <2>1, <2>2
  <1>15. CallInv'
    <2>1. \A i \in 1..begun : att'[i].settings = att[i].settings
      <3> TAKE i \in 1..begun
      <3>1. i \in Attempts BY <1>2 DEF Attempts
      <3> QED BY <3>1, <1>11, <1>12 DEF Changes
    <2>2. call'[c] = k /\ \A d \in Callers \ {c} : call'[d] = call[d]
      BY <1>2, <1>7
    <2>3. k.got <= begun BY <1>2, <1>7 DEF None
    <2>4. /\ call'[c].got <= begun'
          /\ pc'[c] \notin RequestSteps => call'[c].got = None
          /\ call'[c].got # None => att'[call'[c].got].settings = call'[c].want
          /\ pc'[c] \notin {"sending", "streaming"} /\ pc'[c] \notin Starting
      <3>1. k.got # None => att'[k.got].settings = k.want
        BY <1>5, <1>7, <1>11, <1>12
      <3>2. to \notin RequestSteps => k.got = None BY <1>7 DEF RequestSteps
      <3> QED BY <1>3, <1>4, <1>8, <2>2, <2>3, <3>1, <3>2
    <2>5. begun' = begun /\ begun <= begun' BY <1>2, <1>3
    <2> QED BY <1>1, <1>2, <1>8, <2>1, <2>2, <2>4, <2>5, CallKept
  <1>16. TypeOK'
    <2>1. pc' \in [Callers -> Places] /\ call' \in [Callers -> Calls]
      BY <1>2, <1>4, <1>7
    <2>2. att' \in [Attempts -> Owned] BY <1>11 DEF Changes
    <2>3. /\ begun' \in 0..MaxAttempts /\ running' \in 0..MaxAttempts
          /\ stopping' \in 0..MaxAttempts /\ trusted' \subseteq Attempts
          /\ gate' \in Callers \cup {Disposer, Free}
      BY <1>1, <1>2, <1>3, <1>6 DEF TypeOK
    <2> QED BY <1>1, <1>3, <2>1, <2>2, <2>3, TypeFrom DEF TypeOK, lifeVars
  <1> QED BY <1>1, <1>3, <1>8, <1>13, <1>14, <1>15, <1>16 DEF Inv, DisposalInv, lifeVars
-----------------------------------------------------------------------------
(* The disposal, and what happens around the provider.                     *)

\* Steps of nobody who has a call.
LEMMA CallSame ==
  ASSUME TypeOK, CallInv, UNCHANGED <<pc, call, begun>>,
         \A i \in Attempts : att'[i].settings = att[i].settings
  PROVE  CallInv'
  <1>1. begun \in Nat /\ begun <= MaxAttempts /\ MaxAttempts \in Nat
    BY Types
  <1> SUFFICES ASSUME NEW c \in Callers
      PROVE  /\ call[c].got <= begun
             /\ pc[c] \notin RequestSteps => call[c].got = None
             /\ call[c].got # None => att'[call[c].got].settings = call[c].want
             /\ pc[c] \in {"sending", "streaming"} => call[c].peer = "server"
             /\ pc[c] \in Starting => begun # None /\ att'[begun].settings = call[c].want
    BY DEF CallInv
  <1>2. call[c].got \in 0..MaxAttempts BY DEF TypeOK
  <1>3. call[c].got # None => call[c].got \in Attempts BY <1>1, <1>2 DEF Attempts, None
  <1>4. begun # None => begun \in Attempts BY <1>1 DEF Attempts, None
  <1> QED BY <1>3, <1>4 DEF CallInv

DisposalStep == DisposeRuntime \/ DisposeAsync \/ Disposal

LEMMA DisposalKeeps == ASSUME Inv, DisposalStep PROVE Inv'
  <1>1. TypeOK /\ GateInv /\ DisposalInv /\ SessionInv /\ OwnedInv /\ CallInv BY DEF Inv
  <1>2. /\ Free \notin Callers /\ Disposer \notin Callers /\ Free # Disposer
    BY HoldersAreApart DEF Free, Disposer
  <1>3. UNCHANGED <<pc, call, calls, disk, edits>>
    BY DEF DisposalStep, DisposeRuntime, DisposeAsync, Disposal, DisposeTakesGate, DisposeStops,
           DisposeEnds, Disposes, callVars, diskVars
  <1>4. /\ pc \in [Callers -> Places] /\ call \in [Callers -> Calls]
        /\ att \in [Attempts -> Owned] /\ begun \in 0..MaxAttempts
        /\ running \in 0..MaxAttempts /\ stopping \in 0..MaxAttempts /\ None \in 0..MaxAttempts
    BY <1>1, Types, AttType DEF TypeOK, None
  <1>5. CASE DisposeRuntime
    <2>1. UNCHANGED <<sessionVars, disposing, disposer>> /\ runtimeDisposed' = TRUE
      BY <1>5 DEF DisposeRuntime
    <2>2. Phase' = Phase BY <1>3, <2>1 DEF Phase, sessionVars
    <2>3. GateInv' /\ DisposalInv' BY <1>1, <1>3, <2>1 DEF GateInv, DisposalInv, sessionVars
    <2>4. SessionInv' /\ OwnedInv' BY <1>1, <2>1, <2>2, PhaseOnly DEF sessionVars, SameKind
    <2>5. CallInv' BY <1>1, <1>3, <2>1, CallSame DEF sessionVars
    <2>6. TypeOK' BY <1>1, <1>3, <2>1 DEF TypeOK, sessionVars
    <2> QED BY <2>3, <2>4, <2>5, <2>6 DEF Inv
  <1>6. CASE DisposeAsync
    <2>1. /\ UNCHANGED <<sessionVars, runtimeDisposed>> /\ disposing' = TRUE
          /\ disposer' = "gate" /\ ~disposing
      BY <1>6 DEF DisposeAsync
    <2>2. disposer = "idle" /\ gate # Disposer
      BY <1>1, <2>1 DEF DisposalInv, GateInv
    <2>3. Phase' = Phase BY <1>3, <2>1, <2>2 DEF Phase, sessionVars
    <2>4. GateInv' /\ DisposalInv'
      BY <1>1, <1>3, <2>1, <2>2 DEF GateInv, DisposalInv, sessionVars
    <2>5. SessionInv' /\ OwnedInv' BY <1>1, <2>1, <2>3, PhaseOnly DEF sessionVars, SameKind
    <2>6. CallInv' BY <1>1, <1>3, <2>1, CallSame DEF sessionVars
    <2>7. TypeOK' BY <1>1, <1>3, <2>1 DEF TypeOK, sessionVars
    <2> QED BY <2>4, <2>5, <2>6, <2>7 DEF Inv
  <1>7. ASSUME NEW from, NEW to \in {"stop", "stopping", "done"}, Disposes(from, to),
               from \in {"gate", "stop", "stopping"}
        PROVE  /\ UNCHANGED <<runtimeDisposed, disposing>> /\ DisposalInv'
               /\ disposer' = to /\ disposer = from
    BY <1>1, <1>7 DEF Disposes, DisposalInv
  <1>8. CASE DisposeTakesGate
    <2>1. /\ UNCHANGED <<runtimeDisposed, disposing>> /\ DisposalInv'
          /\ disposer' = "stop" /\ disposer = "gate"
      BY <1>7, <1>8 DEF DisposeTakesGate
    <2>2. /\ gate = Free /\ gate' = Disposer
          /\ UNCHANGED <<running, stopping, begun, att, trusted>>
      BY <1>8 DEF DisposeTakesGate, OnlyGateChanges
    <2>3. Phase = "free" /\ Phase' = "stop" BY <1>2, <2>1, <2>2 DEF Phase
    <2>4. GateInv'
      <3>1. \A c \in Callers : pc[c] \notin GateSteps BY <1>1, <1>2, <2>2 DEF GateInv
      <3> QED BY <1>2, <1>3, <2>1, <2>2, <3>1 DEF GateInv
    <2>5. SessionInv' /\ OwnedInv'
      BY <1>1, <2>2, <2>3, PhaseOnly DEF SameKind, Starting, Launched
    <2>6. CallInv' BY <1>1, <1>3, <2>2, CallSame
    <2>7. TypeOK' BY <1>1, <1>3, <2>1, <2>2 DEF TypeOK
    <2> QED BY <2>1, <2>4, <2>5, <2>6, <2>7 DEF Inv
  <1>9. CASE DisposeStops
    <2>1. /\ UNCHANGED <<runtimeDisposed, disposing>> /\ DisposalInv'
          /\ disposer' = "stopping" /\ disposer = "stop" /\ StopRunning
      BY <1>7, <1>9 DEF DisposeStops
    <2>2. gate = Disposer /\ UNCHANGED <<gate, begun>>
      BY <1>1, <2>1 DEF GateInv, StopRunning
    <2>3. Phase = "stop" /\ Phase' = "stopping" BY <1>2, <2>1, <2>2 DEF Phase
    <2>4. GateInv' BY <1>1, <1>3, <2>1, <2>2 DEF GateInv
    <2>5. /\ SessionInv' /\ OwnedInv' /\ att' \in [Attempts -> Owned]
          /\ running' \in 0..MaxAttempts /\ stopping' \in 0..MaxAttempts
          /\ trusted' \subseteq Attempts
          /\ \A i \in Attempts : att'[i].settings = att[i].settings
      BY <1>1, <2>1, <2>3, StopRunningKeeps
    <2>6. CallInv' BY <1>1, <1>3, <2>2, <2>5, CallSame
    <2>7. TypeOK' BY <1>1, <1>3, <1>4, <2>1, <2>2, <2>5, TypeFrom DEF TypeOK, diskVars
    <2> QED BY <2>1, <2>4, <2>5, <2>6, <2>7 DEF Inv
  <1>10. CASE DisposeEnds
    <2>1. /\ UNCHANGED <<runtimeDisposed, disposing>> /\ DisposalInv'
          /\ disposer' = "done" /\ disposer = "stopping" /\ Stopped /\ gate' = Free
      BY <1>7, <1>10 DEF DisposeEnds
    <2>2. gate = Disposer /\ UNCHANGED <<running, begun, trusted>> /\ stopping' = None
      BY <1>1, <2>1 DEF GateInv, Stopped
    <2>3. Phase = "stopping" /\ Phase' = "free" BY <1>2, <2>1, <2>2 DEF Phase
    <2>4. GateInv'
      <3>1. \A c \in Callers : pc[c] \notin GateSteps BY <1>1, <1>2, <2>2 DEF GateInv
      <3> QED BY <1>2, <1>3, <2>1, <3>1 DEF GateInv
    <2>5. /\ SessionInv' /\ OwnedInv' /\ att' \in [Attempts -> Owned]
          /\ \A i \in Attempts : att'[i].settings = att[i].settings
      BY <1>1, <2>1, <2>3, StoppedKeeps
    <2>6. CallInv' BY <1>1, <1>3, <2>2, <2>5, CallSame
    <2>7. TypeOK' BY <1>1, <1>3, <1>4, <2>1, <2>2, <2>5, TypeFrom DEF TypeOK, diskVars
    <2> QED BY <2>1, <2>4, <2>5, <2>6, <2>7 DEF Inv
  <1> QED BY <1>5, <1>6, <1>8, <1>9, <1>10 DEF DisposalStep, Disposal

\* The world changes an attempt that has begun, and starts or leases nothing in it.
LEMMA WorldKeeps ==
  ASSUME Inv, NEW i \in Attempts, i <= begun, NEW r \in Owned,
         World([att EXCEPT ![i] = r]),
         r.server = "up" => att[i].server = "up",
         r.leases = att[i].leases, r.key = att[i].key, r.settings = att[i].settings,
         r.callback = att[i].callback,
         r.monitor = "handled" /\ r.callback => r.server # "up"
  PROVE  Inv'
  <1>1. TypeOK /\ GateInv /\ DisposalInv /\ SessionInv /\ OwnedInv /\ CallInv BY DEF Inv
  <1>2. /\ UNCHANGED <<gate, running, stopping, begun, trusted>>
        /\ UNCHANGED <<pc, call, calls, runtimeDisposed, disposing, disposer, disk, edits>>
        /\ att' = [att EXCEPT ![i] = r]
    BY DEF World, OnlyAttChanges, callVars, lifeVars, diskVars
  <1>3. att \in [Attempts -> Owned] /\ begun \in Nat
    BY <1>1, AttType, Types
  <1>4. /\ att' \in [Attempts -> Owned] /\ att'[i] = r
        /\ \A j \in Attempts \ {i} : att'[j] = att[j]
    BY <1>2, <1>3
  <1>5. Phase' = Phase BY <1>2 DEF Phase
  <1>6. GateInv' /\ DisposalInv' BY <1>1, <1>2 DEF GateInv, DisposalInv
  <1>7. SessionInv' BY <1>1, <1>2, <1>5 DEF SessionInv
  <1>8. OwnedInv'
    <2> SUFFICES ASSUME NEW j \in Attempts
        PROVE  /\ j > begun => att'[j] = Unowned
               /\ att'[j].server = "up" => j = running \/ (j = begun /\ Phase \in Launched)
               /\ att'[j].leases # {} =>
                    j \in {running, stopping} \/ (j = begun /\ Phase \in Starting)
               /\ att'[j].key = "there" => j = begun /\ Phase \in Launched \cup {"cleanup_files"}
               /\ att'[j].monitor = "handled" /\ att'[j].callback => att'[j].server # "up"
               /\ j = begun /\ Phase \in {"runtime", "start", "launched"} => ~att'[j].callback
      BY <1>2, <1>5 DEF OwnedInv, Alive
    <2>1. CASE j = i
      <3>1. ~(i > begun) BY <1>3 DEF Attempts
      <3> QED BY <2>1, <3>1, <1>1, <1>4 DEF OwnedInv, Alive
    <2>2. CASE j # i
      <3>1. att'[j] = att[j] BY <2>2, <1>4
      <3> QED BY <3>1, <1>1 DEF OwnedInv, Alive
    <2> QED BY <2>1, <2>2
  <1>9. CallInv' BY <1>1, <1>2, <1>4, CallSame
  <1>10. TypeOK'
    BY <1>1, <1>2, <1>4 DEF TypeOK, Owned, Servers, Ports, Monitors, Keys
  <1> QED BY <1>6, <1>7, <1>8, <1>9, <1>10 DEF Inv

LEMMA EnvironmentKeeps == ASSUME Inv, Environment PROVE Inv'
  <1>1. TypeOK /\ GateInv /\ DisposalInv /\ SessionInv /\ OwnedInv /\ CallInv BY DEF Inv
  <1>2. att \in [Attempts -> Owned] /\ begun \in Nat /\ running \in Nat
    BY <1>1, AttType, Types
  <1>3. \A i \in Attempts : att[i] # Unowned => i <= begun
    <2> SUFFICES ASSUME NEW i \in Attempts, ~(i <= begun) PROVE att[i] = Unowned OBVIOUS
    <2>1. i > begun BY <1>2 DEF Attempts
    <2> QED BY <1>1, <2>1 DEF OwnedInv
  <1>4. CASE EditSettings
    <2>1. UNCHANGED <<pc, call, calls, runtimeDisposed, disposing, disposer, sessionVars>>
      BY <1>4 DEF EditSettings, callVars, lifeVars
    <2>2. Phase' = Phase BY <2>1 DEF Phase, sessionVars
    <2>3. GateInv' /\ DisposalInv' BY <1>1, <2>1 DEF GateInv, DisposalInv, sessionVars
    <2>4. SessionInv' /\ OwnedInv' BY <1>1, <2>1, <2>2, PhaseOnly DEF sessionVars, SameKind
    <2>5. CallInv' BY <1>1, <2>1, CallSame DEF sessionVars
    <2>6. disk' \in Settings \cup {NoSettings} /\ edits' \in 0..MaxEdits
      BY <1>1, <1>4, BoundsAreNatural DEF EditSettings, TypeOK
    <2>7. TypeOK' BY <1>1, <2>1, <2>6 DEF TypeOK, sessionVars
    <2> QED BY <2>3, <2>4, <2>5, <2>7 DEF Inv
  <1>5. ASSUME NEW i \in Attempts, ServerListens(i) PROVE Inv'
    <2> DEFINE r == [att[i] EXCEPT !.port = "server"]
    <2>1. World([att EXCEPT ![i] = r]) /\ att[i].server = "up"
      BY <1>5 DEF ServerListens, Alive
    <2>2. /\ r \in Owned /\ r.server = att[i].server /\ r.leases = att[i].leases
          /\ r.key = att[i].key /\ r.settings = att[i].settings
          /\ r.callback = att[i].callback /\ r.monitor = att[i].monitor
      BY <1>2 DEF Owned, Ports
    <2>3. att[i] # Unowned BY <2>1 DEF Unowned
    <2>4. r.monitor = "handled" /\ r.callback => r.server # "up"
      BY <1>1, <2>2 DEF OwnedInv, Alive
    <2> HIDE DEF r
    <2> QED BY <1>3, <2>1, <2>2, <2>3, <2>4, WorldKeeps
  <1>6. ASSUME NEW i \in Attempts, ServerExits(i) PROVE Inv'
    <2> DEFINE r == [att[i] EXCEPT !.server = "gone", !.port = IF @ = "server" THEN "none" ELSE @]
    <2>1. World([att EXCEPT ![i] = r]) /\ att[i].server \in {"up", "killed"}
      <3>1. [att EXCEPT ![i].server = "gone",
                        ![i].port = IF @ = "server" THEN "none" ELSE @]
              = [att EXCEPT ![i] = r]
        BY <1>2
      <3> QED BY <1>6, <3>1 DEF ServerExits
    <2>2. /\ r \in Owned /\ r.server = "gone" /\ r.leases = att[i].leases
          /\ r.key = att[i].key /\ r.settings = att[i].settings
          /\ r.callback = att[i].callback
      BY <1>2 DEF Owned, Ports, Servers
    <2>3. att[i] # Unowned BY <2>1 DEF Unowned
    <2> HIDE DEF r
    <2> QED BY <1>3, <2>1, <2>2, <2>3, WorldKeeps
  <1>7. ASSUME NEW i \in Attempts, StrangerListens(i) PROVE Inv'
    <2> DEFINE r == [att[i] EXCEPT !.port = "stranger"]
    <2>1. World([att EXCEPT ![i] = r]) /\ (i \in trusted \/ att[i].server = "up")
      BY <1>7 DEF StrangerListens, Alive
    <2>2. /\ r \in Owned /\ r.server = att[i].server /\ r.leases = att[i].leases
          /\ r.key = att[i].key /\ r.settings = att[i].settings
          /\ r.callback = att[i].callback /\ r.monitor = att[i].monitor
      BY <1>2 DEF Owned, Ports
    <2>3. i <= begun
      <3>1. CASE i \in trusted
        <4>1. i = running /\ running <= begun BY <1>1, <3>1 DEF SessionInv
        <4> QED BY <4>1
      <3>2. CASE att[i].server = "up"
        <4>1. att[i] # Unowned BY <3>2 DEF Unowned
        <4> QED BY <4>1, <1>3
      <3> QED BY <2>1, <3>1, <3>2
    <2>4. r.monitor = "handled" /\ r.callback => r.server # "up"
      BY <1>1, <2>2 DEF OwnedInv, Alive
    <2> HIDE DEF r
    <2> QED BY <2>1, <2>2, <2>3, <2>4, WorldKeeps
  <1>8. ASSUME NEW i \in Attempts, TreeChanges(i) PROVE Inv'
    <2> DEFINE r == [att[i] EXCEPT !.monitor = "changed"]
    <2>1. World([att EXCEPT ![i] = r]) /\ att[i].monitor = "watching"
      BY <1>8 DEF TreeChanges
    <2>2. /\ r \in Owned /\ r.server = att[i].server /\ r.leases = att[i].leases
          /\ r.key = att[i].key /\ r.settings = att[i].settings
          /\ r.callback = att[i].callback /\ r.monitor = "changed"
      BY <1>2 DEF Owned, Monitors
    <2>3. att[i] # Unowned BY <2>1 DEF Unowned
    <2> HIDE DEF r
    <2> QED BY <1>3, <2>1, <2>2, <2>3, WorldKeeps
  <1>9. ASSUME NEW i \in Attempts, Invalidate(i) PROVE Inv'
    <2> DEFINE q == [att[i] EXCEPT !.monitor = "handled"]
               b == [att EXCEPT ![i].monitor = "handled"]
               r == IF att[i].callback
                    THEN [q EXCEPT !.server = IF q.server = "up" THEN "killed" ELSE @] ELSE q
    <2>1. b = [att EXCEPT ![i] = q] /\ q \in Owned /\ b \in [Attempts -> Owned] /\ b[i] = q
      BY <1>2 DEF Owned, Monitors
    <2>2. /\ q.server = att[i].server /\ q.leases = att[i].leases
          /\ q.key = att[i].key /\ q.settings = att[i].settings
          /\ q.callback = att[i].callback /\ q.monitor = "handled"
      BY <1>2 DEF Owned
    <2>3. World(IF att[i].callback THEN Killed(b, i) ELSE b) /\ att[i].monitor = "changed"
      BY <1>9 DEF Invalidate
    <2> HIDE DEF b, q
    <2>4. /\ Changes(b, Killed(b, i), i) /\ Killed(b, i)[i].server # "up"
          /\ Killed(b, i)[i] = [q EXCEPT !.server = IF q.server = "up" THEN "killed" ELSE @]
      BY <2>1, KilledOnly
    <2>5. (IF att[i].callback THEN Killed(b, i) ELSE b) = [att EXCEPT ![i] = r]
      <3>1. CASE att[i].callback
        <4>1. r = Killed(b, i)[i] BY <2>4, <3>1
        <4>2. Killed(b, i) \in [Attempts -> Owned] BY <2>4 DEF Changes
        <4>3. \A j \in Attempts \ {i} : Killed(b, i)[j] = att[j]
          BY <2>1, <2>4, <1>2 DEF Changes
        <4> HIDE DEF r
        <4>4. Killed(b, i) = [att EXCEPT ![i] = r] BY <4>1, <4>2, <4>3, <1>2
        <4> QED BY <3>1, <4>4
      <3>2. CASE ~att[i].callback BY <3>2, <2>1
      <3> QED BY <3>1, <3>2
    <2>6. /\ r \in Owned /\ r.leases = q.leases /\ r.key = q.key /\ r.settings = q.settings
          /\ r.callback = q.callback
          /\ r.server = "up" => q.server = "up"
          /\ att[i].callback => r.server # "up"
      BY <2>1 DEF Owned, Servers
    <2>7. att[i] # Unowned BY <2>3 DEF Unowned
    <2> HIDE DEF r
    <2> QED BY <1>3, <2>2, <2>3, <2>5, <2>6, <2>7, WorldKeeps
  <1> QED BY <1>4, <1>5, <1>6, <1>7, <1>8, <1>9 DEF Environment
-----------------------------------------------------------------------------
(* The theorems. *)

LEMMA InitInv == Init => Inv
  <1> SUFFICES ASSUME Init PROVE Inv OBVIOUS
  <1>1. MaxAttempts \in Nat /\ 0 \in 0..MaxAttempts /\ 0 \in 0..MaxCalls /\ 0 \in 0..MaxEdits
    BY BoundsAreNatural
  <1>2. Unowned \in Owned BY DEF Unowned, Owned, Servers, Ports, Monitors, Keys
  <1>3. NoCall \in Calls BY <1>1 DEF NoCall, Calls, None
  <1>4. TypeOK
    <2>1. att \in [Attempts -> Owned] /\ call \in [Callers -> Calls]
          /\ pc \in [Callers -> Places] /\ calls \in [Callers -> 0 .. MaxCalls]
      BY <1>1, <1>2, <1>3 DEF Init, Places
    <2>2. {running, stopping, begun} \subseteq 0 .. MaxAttempts /\ trusted \subseteq Attempts
          /\ gate \in Callers \cup {Disposer, Free}
      BY <1>1 DEF Init, None
    <2>3. /\ disk \in Settings \cup {NoSettings} /\ edits \in 0 .. MaxEdits
          /\ runtimeDisposed \in BOOLEAN /\ disposing \in BOOLEAN
          /\ disposer \in {"idle", "gate", "stop", "stopping", "done"}
      BY <1>1 DEF Init
    <2> QED
      BY <2>1, <2>2, <2>3 DEF TypeOK, Owned, Servers, Ports, Monitors, Keys, Calls, Places
  <1>5. Free \notin Callers /\ Free # Disposer /\ \A c \in Callers : c # Free
    BY HoldersAreApart DEF Free, Disposer
  <1>6. GateInv BY <1>5 DEF Init, GateInv, GateSteps
  <1>7. Phase = "free" BY <1>5 DEF Init, Phase
  <1>8. SessionInv BY <1>7 DEF Init, SessionInv, Starting, None
  <1>9. OwnedInv
    <2>1. \A i \in Attempts : i # None /\ i # 0 /\ att[i] = Unowned
      BY DEF Attempts, None, Init
    <2> QED BY <2>1, <1>7 DEF Init, OwnedInv, Alive, Unowned
  <1>10. CallInv
    BY DEF Init, CallInv, NoCall, None, RequestSteps, Starting
  <1>11. DisposalInv BY DEF Init, DisposalInv
  <1> QED BY <1>4, <1>6, <1>8, <1>9, <1>10, <1>11 DEF Inv

LEMMA NextInv == Inv /\ [Next]_vars => Inv'
  <1> SUFFICES ASSUME Inv, [Next]_vars PROVE Inv' OBVIOUS
  <1>1. CASE UNCHANGED vars
    <2>1. UNCHANGED <<pc, call, calls, runtimeDisposed, disposing, disposer, disk, edits,
                      gate, running, stopping, begun, att, trusted>>
      BY <1>1 DEF vars, callVars, lifeVars, diskVars, sessionVars
    <2>2. Phase' = Phase BY <2>1 DEF Phase
    <2>3. SessionInv' /\ OwnedInv' BY <2>1, <2>2, PhaseOnly DEF Inv, SameKind
    <2> QED BY <2>1, <2>3 DEF Inv, TypeOK, GateInv, DisposalInv, CallInv
  <1>2. ASSUME NEW c \in Callers, GetSessionAsync(c) PROVE Inv'
    <2>1. CASE OutsideStep(c) BY <2>1, OutsideKeeps
    <2>2. CASE LookingStep(c) BY <2>2, LookingKeeps
    <2>3. CASE AttemptAction(c) BY <2>3, AttemptKeeps
    <2>4. CASE Stop(c) \/ StopEnds(c) \/ AcquireModel(c) \/ Publish(c)
      BY <2>4, StopKeeps, StopEndsKeeps, AcquireModelKeeps, PublishKeeps
    <2> QED
      BY <1>2, <2>1, <2>2, <2>3, <2>4
         DEF GetSessionAsync, OutsideStep, LookingStep, AttemptAction
  <1>3. ASSUME NEW c \in Callers, Begin(c) \/ StreamAsync(c) PROVE Inv'
    BY <1>3, OutsideKeeps DEF OutsideStep
  <1>4. CASE DisposeRuntime \/ DisposeAsync \/ Disposal
    BY <1>4, DisposalKeeps DEF DisposalStep
  <1>5. CASE Environment BY <1>5, EnvironmentKeeps
  <1> QED BY <1>1, <1>2, <1>3, <1>4, <1>5 DEF Next

\* Requests, a disposal, an editor of the settings, processes and strangers on
\* ports act at once.  In every reachable state the gate has one holder, what an
\* attempt owns belongs to the session or to the holder's own start, and a session
\* a caller has been given was started for the settings it had loaded.
THEOREM Invariant == Spec => []Inv
  <1> QED BY InitInv, NextInv, PTL DEF Spec

\* Every variable keeps its type, for any bounds.
THEOREM TypeCorrect == Spec => []TypeOK
  <1>1. Inv => TypeOK BY DEF Inv
  <1> QED BY <1>1, Invariant, PTL

\* The provider never owns two servers, leaves nothing of a call that failed, was
\* cancelled or was replaced once the gate is open, and kills a server whose
\* runtime directory changed, for any number of callers, starts and edits.
THEOREM ServersAlwaysOwned == Spec => []ServersAreOwned
  <1>1. Inv => ServersAreOwned
    <2> SUFFICES ASSUME Inv PROVE ServersAreOwned OBVIOUS
    <2>1. TypeOK /\ GateInv /\ SessionInv /\ OwnedInv BY DEF Inv
    <2>2. OneServer
      <3> DEFINE S == {i \in Attempts : Alive(i)}
      <3>1. \A i, j \in S : i = j
        BY <2>1 DEF OwnedInv, SessionInv, Attempts, None, Launched, Starting
      <3>2. CASE S = {}
        <4>1. Cardinality(S) = 0 BY <3>2, FS_EmptySet
        <4> QED BY <4>1 DEF OneServer
      <3>3. CASE S # {}
        <4>1. PICK i \in S : TRUE BY <3>3
        <4>2. S = {i} BY <3>1, <4>1
        <4> HIDE DEF S
        <4>3. Cardinality(S) = 1 BY <4>2, FS_Singleton
        <4> QED BY <4>3 DEF OneServer, S
      <3> QED BY <3>2, <3>3
    <2>3. NothingLeftBehind
      <3> SUFFICES ASSUME gate = Free
          PROVE  /\ stopping = None /\ trusted \subseteq {running}
                 /\ \A i \in Attempts : /\ i # running => ~Alive(i) /\ att[i].leases = {}
                                        /\ att[i].key # "there"
        BY DEF NothingLeftBehind
      <3>1. Phase = "free" BY HoldersAreApart DEF Phase, Free, Disposer
      <3>2. "free" \notin Launched \cup Starting \cup {"stopping", "cleanup_files"}
        BY DEF Launched, Starting
      <3>3. stopping = None /\ trusted \subseteq {running}
        BY <2>1, <3>1, <3>2 DEF SessionInv
      <3>4. None \notin Attempts BY DEF Attempts, None
      <3> QED BY <2>1, <3>1, <3>2, <3>3, <3>4 DEF OwnedInv
    <2>4. ChangedRuntimeIsKilled BY <2>1 DEF OwnedInv, ChangedRuntimeIsKilled
    <2> QED BY <2>2, <2>3, <2>4 DEF ServersAreOwned
  <1> QED BY <1>1, Invariant, PTL

\* A prompt goes to the process the provider started, not to whoever took its
\* port, and that process was started for the settings the caller had loaded.
THEOREM CallersAlwaysReachTheirs == Spec => []CallersReachTheirs
  <1>1. Inv => CallersReachTheirs
    BY DEF Inv, CallInv, CallersReachTheirs, PromptsReachOwnServer, SessionFitsSettings, Session
  <1> QED BY <1>1, Invariant, PTL
-----------------------------------------------------------------------------
(* The setup of the local model.                                           *)

\* The steps of a setup that has not come to its end, and of any setup.
Working == Awaiting \cup {"cleanup"}
Steps == Working \cup {"idle", "cancelled", "failed", "ending"}
Ops == [step : Steps, request : Requests \cup {NoRequest}, id : RequestIds,
        index : Nat \ {0}, attempt : Nat, received : 0 .. Size + 1,
        staged : SUBSET Artifacts]
Partials == [len : 0 .. Size + 1, clean : BOOLEAN]

DiskTypes ==
  /\ partial \in [Artifacts -> Partials]
  /\ file \in [Models -> {"none", "good", "bad"}]
  /\ installed \in [Backends -> SUBSET Artifacts]
  /\ settings \in Requests \cup {NoRequest}
  /\ accepted \in Models \cup {NoRequest}

OpTypes ==
  /\ op \in Ops
  /\ op.step # "idle" => op.request \in Requests /\ op.index <= Len(ArchivesOf) + 1

\* What is known of the disk where the setup is.
Whole(b) == installed[b] = SetOf(Archives[b])
Configuring == {"manifest", "config", "accept", "report"}
InstalledInv == \A b \in Backends : installed[b] = {} \/ Whole(b)
ProgressInv ==
  /\ op.step \in {"prepare", "find"} => op.index = 1 /\ op.staged = {}
  /\ op.step \in {"send", "read", "retry", "verify"} =>
       /\ IsArchive => op.staged = {}
       /\ ~IsArchive => Whole(op.request.backend)
  /\ op.step = "extract" =>
       IsArchive /\ op.staged = {ArchivesOf[i] : i \in 1 .. op.index - 1}
  /\ op.step = "publish" => op.staged = SetOf(ArchivesOf)
  /\ op.step \in {"cleanup", "model"} \cup Configuring => Whole(op.request.backend)
  /\ op.step \in {"model"} \cup Configuring => ~IsArchive
  /\ op.step \in Configuring => file[op.request.model] = "good"
  /\ op.step \in {"accept", "report"} => settings = op.request
  /\ op.step = "report" => accepted = op.request.model

DiskInv == DiskTypes /\ OpTypes /\ InstalledInv /\ ProgressInv /\ SettingsAreVerified
-----------------------------------------------------------------------------
(* The operation and its artifact.                                         *)

LEMMA Constants ==
  /\ Size \in Nat \ {0} /\ NoRequest \notin Requests /\ NoRequest \notin Models
  /\ Models \subseteq Artifacts
  /\ \A b \in Backends : /\ Archives[b] \in Seq(Artifacts) /\ Len(Archives[b]) \in Nat \ {0}
                         /\ DOMAIN Archives[b] = 1 .. Len(Archives[b])
                         /\ SetOf(Archives[b]) \subseteq Artifacts
                         /\ \A i \in 1 .. Len(Archives[b]) : Archives[b][i] \in Artifacts
  <1>1. ASSUME NEW b \in Backends
        PROVE  /\ Archives[b] \in Seq(Artifacts) /\ Len(Archives[b]) \in Nat \ {0}
               /\ DOMAIN Archives[b] = 1 .. Len(Archives[b])
               /\ SetOf(Archives[b]) \subseteq Artifacts
               /\ \A i \in 1 .. Len(Archives[b]) : Archives[b][i] \in Artifacts
    <2>1. Archives[b] \in Seq(Artifacts \ Models) /\ Archives[b] # << >>
      BY SetupAssumption
    <2>2. Len(Archives[b]) \in Nat /\ DOMAIN Archives[b] = 1 .. Len(Archives[b])
      BY <2>1, LenProperties
    <2>3. Len(Archives[b]) # 0 BY <2>1, EmptySeq
    <2>4. \A i \in 1 .. Len(Archives[b]) : Archives[b][i] \in Artifacts
      BY <2>1, ElementOfSeq
    <2>5. SetOf(Archives[b]) \subseteq Artifacts BY <2>2, <2>4 DEF SetOf
    <2>6. Archives[b] \in Seq(Artifacts) BY <2>1, SeqDef
    <2> QED BY <2>2, <2>3, <2>4, <2>5, <2>6
  <1>2. Models \subseteq Artifacts BY DEF Artifacts
  <1>3. Size \in Nat \ {0} /\ NoRequest \notin Requests /\ NoRequest \notin Models
    BY SetupAssumption
  <1> QED BY <1>1, <1>2, <1>3

LEMMA ItemFacts ==
  ASSUME OpTypes, op.step # "idle"
  PROVE  /\ op.request.backend \in Backends /\ op.request.model \in Models
         /\ Len(ArchivesOf) \in Nat \ {0} /\ SetOf(ArchivesOf) \subseteq Artifacts
         /\ DOMAIN ArchivesOf = 1 .. Len(ArchivesOf)
         /\ Item \in Artifacts /\ op.index \in Nat \ {0}
         /\ IsArchive => Item = ArchivesOf[op.index] /\ op.index \in 1 .. Len(ArchivesOf)
         /\ ~IsArchive => Item = op.request.model /\ op.index = Len(ArchivesOf) + 1
  <1>1. /\ op.request.backend \in Backends /\ op.request.model \in Models
        /\ op.index \in Nat \ {0} /\ op.index <= Len(ArchivesOf) + 1
    BY DEF OpTypes, Requests, Ops
  <1>2. /\ Len(ArchivesOf) \in Nat \ {0} /\ SetOf(ArchivesOf) \subseteq Artifacts
        /\ DOMAIN ArchivesOf = 1 .. Len(ArchivesOf)
        /\ \A i \in 1 .. Len(ArchivesOf) : ArchivesOf[i] \in Artifacts
    BY <1>1, Constants DEF ArchivesOf
  <1>3. IsArchive => Item = ArchivesOf[op.index] /\ op.index \in 1 .. Len(ArchivesOf)
    BY <1>1, <1>2 DEF IsArchive, Item
  <1>4. ~IsArchive => Item = op.request.model /\ op.index = Len(ArchivesOf) + 1
    BY <1>1, <1>2 DEF IsArchive, Item
  <1>5. Item \in Artifacts BY <1>1, <1>2, <1>3, <1>4, Constants
  <1> QED BY <1>1, <1>2, <1>3, <1>4, <1>5

\* What a step of the setup changes of its operation.
SameSetup == op'.request = op.request /\ op'.id = op.id
SameItem  == SameSetup /\ op'.index = op.index /\ op'.staged = op.staged

LEMMA GoesFacts ==
  ASSUME op \in Ops, NEW s \in Steps, OpGoes(s)
  PROVE  op' \in Ops /\ op'.step = s /\ SameItem
  <1>1. op' = [step |-> s, request |-> op.request, id |-> op.id, index |-> op.index,
               attempt |-> op.attempt, received |-> 0, staged |-> op.staged]
    BY DEF OpGoes, Ops
  <1>2. 0 \in 0 .. Size + 1 BY Constants
  <1> QED BY <1>1, <1>2 DEF Ops, SameItem, SameSetup

LEMMA SameTypes ==
  ASSUME OpTypes, op' \in Ops, SameItem, op.step # "idle"
  PROVE  OpTypes' /\ ArchivesOf' = ArchivesOf /\ (IsArchive <=> IsArchive')
  BY DEF OpTypes, SameItem, SameSetup, ArchivesOf, IsArchive

Over == {"idle", "cancelled", "failed", "ending"}

\* Only what was downloaded so far changes.
LEMMA OthersKept ==
  ASSUME DiskInv, UNCHANGED <<file, installed, settings, accepted>>,
         partial' \in [Artifacts -> Partials]
  PROVE  /\ DiskTypes' /\ InstalledInv' /\ SettingsAreVerified'
         /\ \A b \in Backends : Whole(b) <=> Whole(b)'
  <1>1. DiskTypes' BY DEF DiskInv, DiskTypes
  <1>2. SettingsAreVerified' BY DEF DiskInv, SettingsAreVerified
  <1>3. \A b \in Backends : Whole(b) <=> Whole(b)' BY DEF Whole
  <1>4. InstalledInv' BY <1>3 DEF DiskInv, InstalledInv
  <1> QED BY <1>1, <1>2, <1>3, <1>4

\* A setup that has ended knows nothing of the disk.
LEMMA EndedKeeps ==
  ASSUME DiskInv, UNCHANGED <<file, installed, settings, accepted>>,
         partial' \in [Artifacts -> Partials], OpTypes', op'.step \in Over
  PROVE  DiskInv'
  <1>1. ProgressInv' BY DEF ProgressInv, Configuring, Over
  <1> QED BY <1>1, OthersKept DEF DiskInv

\* A step within the download of one artifact.
Downloading == {"send", "read", "retry", "verify"}
LEMMA DownloadKeeps ==
  ASSUME DiskInv, UNCHANGED <<file, installed, settings, accepted>>,
         partial' \in [Artifacts -> Partials], op.step \in Downloading,
         op' \in Ops, op'.step \in Downloading \cup {"failed"}, SameItem
  PROVE  DiskInv'
  <1>1. OpTypes' /\ ArchivesOf' = ArchivesOf /\ (IsArchive <=> IsArchive')
    BY SameTypes DEF DiskInv, Downloading
  <1>2. op.request.backend \in Backends BY ItemFacts DEF DiskInv, Downloading
  <1>3. Whole(op.request.backend) => Whole(op.request.backend)'
    BY <1>2, OthersKept DEF Whole, SameItem, SameSetup
  <1>4. /\ IsArchive => op.staged = {}
        /\ ~IsArchive => Whole(op.request.backend)
    BY DEF DiskInv, ProgressInv, Downloading
  <1>5. ProgressInv'
    BY <1>1, <1>3, <1>4 DEF ProgressInv, Configuring, Downloading, SameItem
  <1> QED BY <1>1, <1>5, OthersKept DEF DiskInv
-----------------------------------------------------------------------------
(* The download.                                                           *)

LEMMA PartialFacts ==
  ASSUME DiskInv, op.step # "idle"
  PROVE  /\ partial \in [Artifacts -> Partials]
         /\ partial[Item] \in Partials /\ Existing \in 0 .. Size
         /\ Nothing \in Partials
         /\ [partial EXCEPT ![Item] = Nothing] \in [Artifacts -> Partials]
         /\ \A left \in BOOLEAN : TryDelete(partial, Item, left) \in [Artifacts -> Partials]
  <1>1. partial \in [Artifacts -> Partials] /\ Item \in Artifacts
    BY ItemFacts DEF DiskInv, DiskTypes
  <1>2. partial[Item] \in Partials BY <1>1
  <1>3. partial[Item].len \in 0 .. Size + 1 BY <1>2 DEF Partials
  <1>4. Existing \in 0 .. Size BY <1>3, Constants DEF Existing
  <1>5. Nothing \in Partials BY Constants DEF Nothing, Partials
  <1>6. [partial EXCEPT ![Item] = Nothing] \in [Artifacts -> Partials] BY <1>1, <1>5
  <1>7. \A left \in BOOLEAN : TryDelete(partial, Item, left) \in [Artifacts -> Partials]
    BY <1>1, <1>6 DEF TryDelete
  <1> QED BY <1>1, <1>2, <1>4, <1>5, <1>6, <1>7

LEMMA ReceivedFacts ==
  ASSUME op \in Ops, NEW s \in Steps, NEW n \in 0 .. Size + 1,
         op' = [op EXCEPT !.step = s, !.received = n]
  PROVE  op' \in Ops /\ op'.step = s /\ SameItem
  <1>1. op' = [step |-> s, request |-> op.request, id |-> op.id, index |-> op.index,
               attempt |-> op.attempt, received |-> n, staged |-> op.staged]
    BY DEF Ops
  <1> QED BY <1>1 DEF Ops, SameItem, SameSetup

LEMMA AttemptFacts ==
  ASSUME op \in Ops, NEW s \in Steps, op' = [op EXCEPT !.attempt = @ + 1, !.step = s]
  PROVE  op' \in Ops /\ op'.step = s /\ SameItem
  <1>1. op' = [step |-> s, request |-> op.request, id |-> op.id, index |-> op.index,
               attempt |-> op.attempt + 1, received |-> op.received, staged |-> op.staged]
    BY DEF Ops
  <1>2. op.attempt + 1 \in Nat BY DEF Ops
  <1> QED BY <1>1, <1>2 DEF Ops, SameItem, SameSetup

\* What the steps of a download have in common.
DownloadStep == DownloadOnce \/ Retry \/ VerifyBad
LEMMA DownloadShape ==
  ASSUME DiskInv, DownloadStep
  PROVE  /\ UNCHANGED <<file, installed, settings, accepted>>
         /\ partial' \in [Artifacts -> Partials] /\ op.step \in Downloading
         /\ op' \in Ops /\ op'.step \in Downloading \cup {"failed"} /\ SameItem
  <1> USE DEF OpAt
  <1>0. op \in Ops /\ Downloading \cup {"failed"} \subseteq Steps
    BY DEF DiskInv, OpTypes, Downloading, Steps, Working, Awaiting, Reporting
  <1>1. CASE AnsweredWhole
    <2>1. op.step = "send" /\ UNCHANGED <<file, installed, settings, accepted>>
      BY <1>1 DEF AnsweredWhole
    <2>2. partial' \in [Artifacts -> Partials]
      BY <1>1, <2>1, PartialFacts DEF AnsweredWhole
    <2>3. op' = [op EXCEPT !.step = "read", !.received = 0] BY <1>1 DEF AnsweredWhole
    <2>4. 0 \in 0 .. Size + 1 /\ "read" \in Steps BY Constants, <1>0 DEF Downloading
    <2> QED BY <2>1, <2>2, <2>3, <2>4, <1>0, ReceivedFacts DEF Downloading
  <1>2. CASE AnsweredRange
    <2>1. op.step = "send" /\ UNCHANGED onDisk BY <1>2 DEF AnsweredRange
    <2>2. UNCHANGED <<partial, file, installed, settings, accepted>> BY <2>1 DEF onDisk
    <2>3. partial' \in [Artifacts -> Partials] BY <2>1, <2>2, PartialFacts
    <2>4. op' = [op EXCEPT !.step = "read", !.received = Existing]
      BY <1>2 DEF AnsweredRange
    <2>5. Existing \in 0 .. Size + 1 /\ "read" \in Steps
      BY <2>1, PartialFacts, Constants, <1>0 DEF Downloading
    <2> QED BY <2>1, <2>2, <2>3, <2>4, <2>5, <1>0, ReceivedFacts DEF Downloading
  <1>3. CASE AnsweredComplete
    <2>1. op.step = "send" /\ UNCHANGED onDisk /\ OpGoes("verify")
      BY <1>3 DEF AnsweredComplete
    <2>2. UNCHANGED <<partial, file, installed, settings, accepted>> BY <2>1 DEF onDisk
    <2>3. partial' \in [Artifacts -> Partials] BY <2>1, <2>2, PartialFacts
    <2>4. "verify" \in Steps BY <1>0 DEF Downloading
    <2> QED BY <2>1, <2>2, <2>3, <2>4, <1>0, GoesFacts DEF Downloading
  <1>4. CASE AnsweredMismatch
    <2>1. /\ op.step = "send" /\ UNCHANGED <<file, installed, settings, accepted>>
          /\ OpGoes("retry")
      BY <1>4 DEF AnsweredMismatch
    <2>2. partial' \in [Artifacts -> Partials]
      BY <1>4, <2>1, PartialFacts DEF AnsweredMismatch
    <2>3. "retry" \in Steps BY <1>0 DEF Downloading
    <2> QED BY <2>1, <2>2, <2>3, <1>0, GoesFacts DEF Downloading
  <1>5. CASE ConnectionFails
    <2>1. op.step \in {"send", "read"} /\ UNCHANGED onDisk /\ OpGoes("retry")
      BY <1>5 DEF ConnectionFails
    <2>2. UNCHANGED <<partial, file, installed, settings, accepted>> BY <2>1 DEF onDisk
    <2>3. partial' \in [Artifacts -> Partials] BY <2>1, <2>2, PartialFacts
    <2>4. "retry" \in Steps BY <1>0 DEF Downloading
    <2> QED BY <2>1, <2>2, <2>3, <2>4, <1>0, GoesFacts DEF Downloading
  <1>6. CASE ReadChunk
    <2>1. op.step = "read" /\ UNCHANGED <<file, installed, settings, accepted>>
      BY <1>6 DEF ReadChunk
    <2>2. PICK good \in BOOLEAN :
            partial' = [partial EXCEPT ![Item] =
              [len |-> Longer(@.len), clean |-> @.clean /\ good /\ @.len = op.received]]
      BY <1>6 DEF ReadChunk
    <2>3. partial[Item] \in Partials BY <2>1, PartialFacts
    <2>4. Longer(partial[Item].len) \in 0 .. Size + 1
      BY <2>3, Constants DEF Longer, Partials
    <2>5. (partial[Item].clean /\ good /\ partial[Item].len = op.received) \in BOOLEAN
      OBVIOUS
    <2>6. [len |-> Longer(partial[Item].len),
           clean |-> partial[Item].clean /\ good /\ partial[Item].len = op.received]
            \in Partials
      BY <2>4, <2>5 DEF Partials
    <2>7. partial' \in [Artifacts -> Partials] BY <2>1, <2>2, <2>6, PartialFacts
    <2>8. Longer(op.received) \in 0 .. Size + 1 BY <1>0, Constants DEF Longer, Ops
    <2>9. PICK s \in {"retry", "read"} : op' = [op EXCEPT !.received = Longer(@), !.step = s]
      BY <1>6 DEF ReadChunk
    <2>10. op' = [op EXCEPT !.step = s, !.received = Longer(op.received)]
      BY <2>9, <1>0 DEF Ops
    <2>11. s \in Steps /\ s \in Downloading BY <1>0 DEF Downloading
    <2> QED BY <2>1, <2>7, <2>8, <2>10, <2>11, <1>0, ReceivedFacts DEF Downloading
  <1>7. CASE ReadEnd
    <2>1. op.step = "read" /\ UNCHANGED onDisk BY <1>7 DEF ReadEnd
    <2>2. PICK s \in {"verify", "retry"} : OpGoes(s) BY <1>7 DEF ReadEnd
    <2>3. UNCHANGED <<partial, file, installed, settings, accepted>> BY <2>1 DEF onDisk
    <2>4. partial' \in [Artifacts -> Partials] BY <2>1, <2>3, PartialFacts
    <2>5. s \in Steps /\ s \in Downloading BY <1>0 DEF Downloading
    <2> QED BY <2>1, <2>2, <2>3, <2>4, <2>5, <1>0, GoesFacts DEF Downloading
  <1>8. CASE Retry
    <2>1. op.step = "retry" /\ UNCHANGED onDisk BY <1>8 DEF Retry
    <2>2. UNCHANGED <<partial, file, installed, settings, accepted>> BY <2>1 DEF onDisk
    <2>3. partial' \in [Artifacts -> Partials] BY <2>1, <2>2, PartialFacts
    <2>4. "send" \in Steps /\ "failed" \in Steps BY <1>0 DEF Downloading
    <2>5. op' = [op EXCEPT !.attempt = @ + 1, !.step = "send"] \/ OpGoes("failed")
      BY <1>8 DEF Retry
    <2>6. CASE op' = [op EXCEPT !.attempt = @ + 1, !.step = "send"]
      BY <2>1, <2>2, <2>3, <2>4, <2>6, <1>0, AttemptFacts DEF Downloading
    <2>7. CASE OpGoes("failed")
      BY <2>1, <2>2, <2>3, <2>4, <2>7, <1>0, GoesFacts DEF Downloading
    <2> QED BY <2>5, <2>6, <2>7
  <1>9. CASE VerifyBad
    <2>1. /\ op.step = "verify" /\ UNCHANGED <<file, installed, settings, accepted>>
          /\ OpGoes("failed") /\ partial' = [partial EXCEPT ![Item] = Nothing]
      BY <1>9 DEF VerifyBad, MovedAway
    <2>2. partial' \in [Artifacts -> Partials] BY <2>1, PartialFacts
    <2>3. "failed" \in Steps BY <1>0
    <2> QED BY <2>1, <2>2, <2>3, <1>0, GoesFacts DEF Downloading
  <1> QED
    BY <1>1, <1>2, <1>3, <1>4, <1>5, <1>6, <1>7, <1>8, <1>9 DEF DownloadStep, DownloadOnce
-----------------------------------------------------------------------------
(* The runtime, the model and the settings.                                *)

LEMMA StepNames ==
  /\ Downloading \subseteq Working /\ Configuring \subseteq Working
  /\ {"prepare", "find", "extract", "publish", "cleanup", "model"} \subseteq Working
  /\ Working \subseteq Steps /\ Over \subseteq Steps /\ Working \cap Over = {}
  BY DEF Downloading, Configuring, Working, Steps, Over, Awaiting, Reporting

\* A step that changes nothing on disk and goes on to another one.
LEMMA GoesOn ==
  ASSUME DiskInv, UNCHANGED <<partial, file, installed, settings, accepted>>,
         op.step \in Working, NEW s \in Steps, OpGoes(s)
  PROVE  /\ DiskTypes' /\ InstalledInv' /\ SettingsAreVerified'
         /\ OpTypes' /\ op'.step = s /\ SameItem /\ ArchivesOf' = ArchivesOf
         /\ (IsArchive <=> IsArchive')
         /\ Whole(op.request.backend) => Whole(op.request.backend)'
         /\ op.request.backend \in Backends /\ op.request.model \in Models
  <1>1. op.step # "idle" /\ op \in Ops BY StepNames DEF Over, DiskInv, OpTypes
  <1>2. op' \in Ops /\ op'.step = s /\ SameItem BY <1>1, GoesFacts
  <1>3. OpTypes' /\ ArchivesOf' = ArchivesOf /\ (IsArchive <=> IsArchive')
    BY <1>1, <1>2, SameTypes DEF DiskInv
  <1>4. op.request.backend \in Backends /\ op.request.model \in Models
    BY <1>1, ItemFacts DEF DiskInv
  <1>5. partial' \in [Artifacts -> Partials] BY DEF DiskInv, DiskTypes
  <1>6. /\ DiskTypes' /\ InstalledInv' /\ SettingsAreVerified'
        /\ \A b \in Backends : Whole(b) <=> Whole(b)'
    BY <1>5, OthersKept
  <1>7. Whole(op.request.backend) => Whole(op.request.backend)'
    BY <1>2, <1>4, <1>6 DEF Whole, SameItem, SameSetup
  <1> QED BY <1>2, <1>3, <1>4, <1>6, <1>7

LEMMA PrepareKeeps ==
  ASSUME DiskInv, Prepare
  PROVE  DiskInv' /\ SameSetup /\ op'.step = "find"
  <1>1. op.step = "prepare" /\ OpGoes("find") BY DEF Prepare, OpAt
  <1>2. UNCHANGED <<partial, file, installed, settings, accepted>> BY DEF Prepare, onDisk
  <1>3. "find" \in Steps /\ op.step \in Working BY <1>1, StepNames
  <1>4. /\ DiskTypes' /\ InstalledInv' /\ SettingsAreVerified'
        /\ OpTypes' /\ op'.step = "find" /\ SameItem
    BY <1>1, <1>2, <1>3, GoesOn
  <1>5. op.index = 1 /\ op.staged = {} BY <1>1 DEF DiskInv, ProgressInv
  <1>6. ProgressInv' BY <1>4, <1>5 DEF ProgressInv, Configuring, SameItem
  <1> QED BY <1>4, <1>6 DEF DiskInv, SameItem

LEMMA FindKeeps ==
  ASSUME DiskInv, FindInstalledRuntime
  PROVE  DiskInv' /\ SameSetup /\ op'.step \in {"model", "send"}
  <1>1. op.step = "find" BY DEF FindInstalledRuntime, OpAt
  <1>2. UNCHANGED <<partial, file, installed, settings, accepted>>
    BY DEF FindInstalledRuntime, onDisk
  <1>3. op.index = 1 /\ op.staged = {} /\ op \in Ops /\ op.step # "idle"
    BY <1>1 DEF DiskInv, ProgressInv, OpTypes
  <1>4. Len(ArchivesOf) \in Nat \ {0} /\ op.request.backend \in Backends
    BY <1>1, ItemFacts DEF DiskInv
  <1>5. CASE installed[op.request.backend] # {}
    <2>1. op' = [op EXCEPT !.index = Len(ArchivesOf) + 1, !.step = "model"]
      BY <1>5 DEF FindInstalledRuntime
    <2>2. op' = [step |-> "model", request |-> op.request, id |-> op.id,
                 index |-> Len(ArchivesOf) + 1, attempt |-> op.attempt,
                 received |-> op.received, staged |-> op.staged]
      BY <2>1, <1>3 DEF Ops
    <2>3. Len(ArchivesOf) + 1 \in Nat \ {0} /\ "model" \in Steps BY <1>4, StepNames
    <2>4. op' \in Ops /\ SameSetup BY <2>2, <2>3, <1>3 DEF Ops, SameSetup
    <2>5. ArchivesOf' = ArchivesOf BY <2>4 DEF SameSetup, ArchivesOf
    <2>6. OpTypes' BY <2>2, <2>4, <2>5, <1>3, <1>4 DEF OpTypes, DiskInv
    <2>7. partial' \in [Artifacts -> Partials] BY <1>2 DEF DiskInv, DiskTypes
    <2>8. /\ DiskTypes' /\ InstalledInv' /\ SettingsAreVerified'
          /\ \A b \in Backends : Whole(b) <=> Whole(b)'
      BY <1>2, <2>7, OthersKept
    <2>9. Whole(op.request.backend) BY <1>4, <1>5 DEF DiskInv, InstalledInv
    <2>10. Whole(op.request.backend)' BY <2>4, <2>8, <2>9, <1>4 DEF Whole, SameSetup
    <2>11. ~IsArchive' BY <2>2, <2>3, <2>5, <1>4 DEF IsArchive
    <2>12. op'.step = "model" BY <2>2
    <2>13. ProgressInv' BY <2>10, <2>11, <2>12 DEF ProgressInv, Configuring
    <2> QED BY <2>4, <2>6, <2>8, <2>12, <2>13 DEF DiskInv
  <1>6. CASE installed[op.request.backend] = {}
    <2>1. OpGoes("send") BY <1>6 DEF FindInstalledRuntime
    <2>2. "send" \in Steps /\ op.step \in Working BY <1>1, StepNames DEF Downloading
    <2>3. /\ DiskTypes' /\ InstalledInv' /\ SettingsAreVerified'
          /\ OpTypes' /\ op'.step = "send" /\ SameItem /\ (IsArchive <=> IsArchive')
      BY <1>2, <2>1, <2>2, GoesOn
    <2>4. IsArchive BY <1>3, <1>4 DEF IsArchive
    <2>5. ProgressInv' BY <1>3, <2>3, <2>4 DEF ProgressInv, Configuring, SameItem
    <2> QED BY <2>3, <2>5 DEF DiskInv, SameItem
  <1> QED BY <1>5, <1>6

LEMMA VerifyModelKeeps ==
  ASSUME DiskInv, VerifyModel
  PROVE  DiskInv' /\ SameSetup /\ op'.step = "manifest"
  <1>1. /\ op.step = "verify" /\ ~IsArchive /\ OpGoes("manifest")
        /\ partial' = [partial EXCEPT ![Item] = Nothing]
        /\ file' = [file EXCEPT ![Item] = "good"]
        /\ UNCHANGED <<installed, settings, accepted>>
    BY DEF VerifyModel, OpAt, MovedAway
  <1>2. op \in Ops /\ "manifest" \in Steps /\ op.step # "idle"
    BY <1>1, StepNames DEF DiskInv, OpTypes, Configuring
  <1>3. op' \in Ops /\ op'.step = "manifest" /\ SameItem BY <1>1, <1>2, GoesFacts
  <1>4. OpTypes' /\ ArchivesOf' = ArchivesOf /\ (IsArchive <=> IsArchive')
    BY <1>2, <1>3, SameTypes DEF DiskInv
  <1>5. /\ Item = op.request.model /\ op.request.model \in Models
        /\ op.request.backend \in Backends
    BY <1>1, <1>2, ItemFacts DEF DiskInv
  <1>6. partial' \in [Artifacts -> Partials] BY <1>1, <1>2, PartialFacts
  <1>7. file \in [Models -> {"none", "good", "bad"}] BY DEF DiskInv, DiskTypes
  <1>8. /\ file' \in [Models -> {"none", "good", "bad"}] /\ file'[op.request.model] = "good"
        /\ \A m \in Models : file[m] = "good" => file'[m] = "good"
    BY <1>1, <1>5, <1>7
  <1>9. DiskTypes' BY <1>1, <1>6, <1>8 DEF DiskTypes, DiskInv
  <1>10. InstalledInv' BY <1>1 DEF InstalledInv, DiskInv, Whole
  <1>11. settings \in Requests \cup {NoRequest} BY DEF DiskInv, DiskTypes
  <1>12. SettingsAreVerified'
    BY <1>1, <1>8, <1>11 DEF DiskInv, SettingsAreVerified, Requests
  <1>13. Whole(op.request.backend) BY <1>1 DEF DiskInv, ProgressInv
  <1>14. Whole(op.request.backend)' BY <1>1, <1>3, <1>13 DEF Whole, SameItem, SameSetup
  <1>15. (file[op.request.model] = "good")' BY <1>3, <1>8 DEF SameItem, SameSetup
  <1>16. ProgressInv' BY <1>1, <1>3, <1>4, <1>14, <1>15 DEF ProgressInv, Configuring
  <1> QED BY <1>3, <1>4, <1>9, <1>10, <1>12, <1>16 DEF DiskInv, SameItem

LEMMA VerifyArchiveKeeps ==
  ASSUME DiskInv, VerifyArchive
  PROVE  DiskInv' /\ SameSetup /\ op'.step \in {"send", "extract"}
  <1>1. op.step = "verify" /\ IsArchive BY DEF VerifyArchive, OpAt
  <1>2. UNCHANGED <<partial, file, installed, settings, accepted>>
    BY DEF VerifyArchive, onDisk
  <1>3. op \in Ops /\ op.step # "idle" /\ op.staged = {}
    BY <1>1 DEF DiskInv, OpTypes, ProgressInv
  <1>4. /\ Len(ArchivesOf) \in Nat \ {0} /\ op.index \in 1 .. Len(ArchivesOf)
        /\ op.request \in Requests
    BY <1>1, <1>3, ItemFacts DEF DiskInv, OpTypes
  <1>5. PICK n \in 1 .. Len(ArchivesOf), s \in {"send", "extract"} :
          /\ op' = [op EXCEPT !.index = n, !.attempt = 1, !.step = s]
          /\ s = "extract" => n = 1
    <2>1. CASE op.index < Len(ArchivesOf)
      <3>1. op' = [op EXCEPT !.index = @ + 1, !.attempt = 1, !.step = "send"]
        BY <2>1 DEF VerifyArchive
      <3>2. op' = [op EXCEPT !.index = op.index + 1, !.attempt = 1, !.step = "send"]
        BY <3>1, <1>3 DEF Ops
      <3>3. op.index + 1 \in 1 .. Len(ArchivesOf) BY <1>4, <2>1
      <3> QED BY <3>2, <3>3
    <2>2. CASE ~(op.index < Len(ArchivesOf))
      <3>1. op' = [op EXCEPT !.index = 1, !.attempt = 1, !.step = "extract"]
        BY <2>2 DEF VerifyArchive
      <3>2. 1 \in 1 .. Len(ArchivesOf) BY <1>4
      <3> QED BY <3>1, <3>2
    <2> QED BY <2>1, <2>2
  <1>6. op' = [step |-> s, request |-> op.request, id |-> op.id, index |-> n,
               attempt |-> 1, received |-> op.received, staged |-> {}]
    BY <1>3, <1>5 DEF Ops
  <1>7. s \in Steps BY StepNames DEF Downloading
  <1>8. op' \in Ops /\ SameSetup BY <1>3, <1>4, <1>6, <1>7 DEF Ops, SameSetup
  <1>9. ArchivesOf' = ArchivesOf BY <1>8 DEF SameSetup, ArchivesOf
  <1>10. OpTypes' /\ IsArchive' BY <1>4, <1>6, <1>8, <1>9 DEF OpTypes, IsArchive
  <1>11. partial' \in [Artifacts -> Partials] BY <1>2 DEF DiskInv, DiskTypes
  <1>12. DiskTypes' /\ InstalledInv' /\ SettingsAreVerified' BY <1>2, <1>11, OthersKept
  <1>13. op'.step = s /\ op'.staged = {} /\ op'.index = n BY <1>6
  <1>14. s = "extract" => op'.staged = {ArchivesOf'[i] : i \in 1 .. op'.index - 1}
    BY <1>5, <1>13
  <1>15. ProgressInv' BY <1>10, <1>13, <1>14 DEF ProgressInv, Configuring
  <1> QED BY <1>8, <1>10, <1>12, <1>13, <1>15 DEF DiskInv

LEMMA ExtractKeeps ==
  ASSUME DiskInv, Extract
  PROVE  DiskInv' /\ SameSetup /\ op'.step \in {"extract", "publish"}
  <1>1. op.step = "extract" BY DEF Extract, OpAt
  <1>2. UNCHANGED <<partial, file, installed, settings, accepted>> BY DEF Extract, onDisk
  <1>3. /\ op \in Ops /\ op.step # "idle" /\ IsArchive
        /\ op.staged = {ArchivesOf[i] : i \in 1 .. op.index - 1}
    BY <1>1 DEF DiskInv, OpTypes, ProgressInv
  <1>4. /\ Len(ArchivesOf) \in Nat \ {0} /\ op.index \in 1 .. Len(ArchivesOf)
        /\ op.request \in Requests /\ Item = ArchivesOf[op.index] /\ Item \in Artifacts
        /\ DOMAIN ArchivesOf = 1 .. Len(ArchivesOf)
    BY <1>1, <1>3, ItemFacts DEF DiskInv, OpTypes
  <1>5. PICK n \in 1 .. Len(ArchivesOf), s \in {"extract", "publish"} :
          /\ op' = [op EXCEPT !.staged = @ \cup {Item}, !.index = n, !.step = s]
          /\ IF op.index < Len(ArchivesOf) THEN s = "extract" /\ n = op.index + 1
             ELSE s = "publish"
    <2>1. op' = [op EXCEPT !.staged = @ \cup {Item},
                           !.index = IF op.index < Len(ArchivesOf) THEN @ + 1 ELSE @,
                           !.step = IF op.index < Len(ArchivesOf) THEN "extract" ELSE "publish"]
      BY DEF Extract
    <2>2. CASE op.index < Len(ArchivesOf)
      <3>1. op.index + 1 \in 1 .. Len(ArchivesOf) BY <1>4, <2>2
      <3>2. op' = [op EXCEPT !.staged = @ \cup {Item}, !.index = op.index + 1,
                             !.step = "extract"]
        BY <2>1, <2>2, <1>3 DEF Ops
      <3> QED BY <2>2, <3>1, <3>2
    <2>3. CASE ~(op.index < Len(ArchivesOf))
      <3>1. op' = [op EXCEPT !.staged = @ \cup {Item}, !.index = op.index,
                             !.step = "publish"]
        BY <2>1, <2>3, <1>3 DEF Ops
      <3> QED BY <2>3, <3>1, <1>4
    <2> QED BY <2>2, <2>3
  <1>6. op' = [step |-> s, request |-> op.request, id |-> op.id, index |-> n,
               attempt |-> op.attempt, received |-> op.received,
               staged |-> op.staged \cup {Item}]
    BY <1>3, <1>5 DEF Ops
  <1>7. s \in Steps BY StepNames
  <1>8. op' \in Ops /\ SameSetup BY <1>3, <1>4, <1>6, <1>7 DEF Ops, SameSetup
  <1>9. ArchivesOf' = ArchivesOf BY <1>8 DEF SameSetup, ArchivesOf
  <1>10. OpTypes' /\ IsArchive' BY <1>4, <1>6, <1>8, <1>9 DEF OpTypes, IsArchive
  <1>11. partial' \in [Artifacts -> Partials] BY <1>2 DEF DiskInv, DiskTypes
  <1>12. DiskTypes' /\ InstalledInv' /\ SettingsAreVerified' BY <1>2, <1>11, OthersKept
  <1>13. op'.step = s /\ op'.staged = op.staged \cup {Item} /\ op'.index = n BY <1>6
  <1>14. op'.staged = {ArchivesOf[i] : i \in 1 .. op.index}
    <2>1. 1 .. op.index = (1 .. op.index - 1) \cup {op.index} BY <1>4
    <2> QED BY <2>1, <1>3, <1>4, <1>13
  <1>15. s = "extract" => op'.staged = {ArchivesOf'[i] : i \in 1 .. op'.index - 1}
    <2>1. s = "extract" => op'.index - 1 = op.index BY <1>4, <1>5, <1>13
    <2> QED BY <2>1, <1>9, <1>14
  <1>16. s = "publish" => op'.staged = SetOf(ArchivesOf')
    <2>1. s = "publish" => op.index = Len(ArchivesOf) BY <1>4, <1>5
    <2> QED BY <2>1, <1>4, <1>9, <1>14 DEF SetOf
  <1>17. ProgressInv' BY <1>10, <1>13, <1>15, <1>16 DEF ProgressInv, Configuring
  <1> QED BY <1>8, <1>10, <1>12, <1>13, <1>17 DEF DiskInv

LEMMA PublishRuntimeKeeps ==
  ASSUME DiskInv, PublishRuntime
  PROVE  DiskInv' /\ SameSetup /\ op'.step = "cleanup"
  <1> DEFINE b == op.request.backend
  <1>1. /\ op.step = "publish" /\ OpGoes("cleanup")
        /\ installed' = [installed EXCEPT ![op.request.backend] = op.staged]
        /\ UNCHANGED <<partial, file, settings, accepted>>
    BY DEF PublishRuntime, OpAt
  <1>2. op \in Ops /\ "cleanup" \in Steps /\ op.step # "idle"
    BY <1>1, StepNames DEF DiskInv, OpTypes
  <1>3. op' \in Ops /\ op'.step = "cleanup" /\ SameItem BY <1>1, <1>2, GoesFacts
  <1>4. OpTypes' /\ ArchivesOf' = ArchivesOf BY <1>2, <1>3, SameTypes DEF DiskInv
  <1>5. b \in Backends BY <1>2, ItemFacts DEF DiskInv
  <1>6. op.staged = SetOf(Archives[b]) /\ op.staged \in SUBSET Artifacts
    BY <1>1, <1>2 DEF DiskInv, ProgressInv, ArchivesOf, Ops
  <1>7. installed \in [Backends -> SUBSET Artifacts] BY DEF DiskInv, DiskTypes
  <1> HIDE DEF b
  <1>8. installed' = [installed EXCEPT ![b] = op.staged] BY <1>1 DEF b
  <1>9. /\ installed' \in [Backends -> SUBSET Artifacts] /\ installed'[b] = SetOf(Archives[b])
        /\ \A x \in Backends : x # b => installed'[x] = installed[x]
    BY <1>5, <1>6, <1>7, <1>8
  <1>10. DiskTypes' BY <1>1, <1>9 DEF DiskTypes, DiskInv
  <1>11. InstalledInv' BY <1>9 DEF InstalledInv, DiskInv, Whole
  <1>12. settings \in Requests \cup {NoRequest} BY DEF DiskInv, DiskTypes
  <1>13. SettingsAreVerified'
    BY <1>1, <1>9, <1>12 DEF DiskInv, SettingsAreVerified, Requests
  <1>14. Whole(op.request.backend)' BY <1>3, <1>9 DEF Whole, SameItem, SameSetup, b
  <1>15. ProgressInv' BY <1>3, <1>14 DEF ProgressInv, Configuring
  <1> QED BY <1>3, <1>4, <1>10, <1>11, <1>13, <1>15 DEF DiskInv, SameItem

LEMMA DeleteKeeps ==
  ASSUME DiskInv, DeleteArchives
  PROVE  DiskInv' /\ SameSetup /\ op'.step = "model"
  <1>1. /\ op.step = "cleanup" /\ UNCHANGED <<file, installed, settings, accepted>>
        /\ op' = [op EXCEPT !.index = Len(ArchivesOf) + 1, !.staged = {}, !.step = "model"]
    BY DEF DeleteArchives
  <1>2. op \in Ops /\ op.step # "idle" BY <1>1 DEF DiskInv, OpTypes
  <1>3. /\ Len(ArchivesOf) \in Nat \ {0} /\ op.request \in Requests
        /\ op.request.backend \in Backends
    BY <1>2, ItemFacts DEF DiskInv, OpTypes
  <1>4. op' = [step |-> "model", request |-> op.request, id |-> op.id,
               index |-> Len(ArchivesOf) + 1, attempt |-> op.attempt,
               received |-> op.received, staged |-> {}]
    BY <1>1, <1>2 DEF Ops
  <1>5. Len(ArchivesOf) + 1 \in Nat \ {0} /\ "model" \in Steps BY <1>3, StepNames
  <1>6. op' \in Ops /\ SameSetup BY <1>2, <1>4, <1>5 DEF Ops, SameSetup
  <1>7. ArchivesOf' = ArchivesOf BY <1>6 DEF SameSetup, ArchivesOf
  <1>8. OpTypes' /\ ~IsArchive' BY <1>3, <1>4, <1>6, <1>7 DEF OpTypes, IsArchive
  <1>9. partial' \in [Artifacts -> Partials]
    <2>1. PICK left \in SUBSET SetOf(ArchivesOf) :
            partial' = [a \in Artifacts |->
              IF a \in SetOf(ArchivesOf) \ left THEN Nothing ELSE partial[a]]
      BY DEF DeleteArchives
    <2>2. partial \in [Artifacts -> Partials] /\ Nothing \in Partials BY <1>2, PartialFacts
    <2> QED BY <2>1, <2>2
  <1>10. /\ DiskTypes' /\ InstalledInv' /\ SettingsAreVerified'
         /\ \A b \in Backends : Whole(b) <=> Whole(b)'
    BY <1>1, <1>9, OthersKept
  <1>11. Whole(op.request.backend) BY <1>1 DEF DiskInv, ProgressInv
  <1>12. Whole(op.request.backend)' BY <1>3, <1>6, <1>10, <1>11 DEF Whole, SameSetup
  <1>13. op'.step = "model" BY <1>4
  <1>14. ProgressInv' BY <1>8, <1>12, <1>13 DEF ProgressInv, Configuring
  <1> QED BY <1>6, <1>8, <1>10, <1>13, <1>14 DEF DiskInv

LEMMA CheckModelKeeps ==
  ASSUME DiskInv, CheckModelFile
  PROVE  DiskInv' /\ SameSetup /\ op'.step \in {"manifest", "send"}
  <1>1. /\ op.step = "model" /\ UNCHANGED <<partial, installed, settings, accepted>>
        /\ OpGoes(IF file[Item] = "good" THEN "manifest" ELSE "send")
        /\ file' = IF file[Item] = "bad" THEN [file EXCEPT ![Item] = "none"] ELSE file
    BY DEF CheckModelFile, OpAt
  <1> DEFINE s == IF file[Item] = "good" THEN "manifest" ELSE "send"
  <1>2. op \in Ops /\ s \in Steps /\ op.step # "idle"
    BY <1>1, StepNames DEF DiskInv, OpTypes, Configuring, Downloading
  <1>3. OpGoes(s) BY <1>1
  <1>4. ~IsArchive /\ Whole(op.request.backend) BY <1>1 DEF DiskInv, ProgressInv
  <1>5. /\ Item = op.request.model /\ op.request.model \in Models
        /\ op.request.backend \in Backends
    BY <1>2, <1>4, ItemFacts DEF DiskInv
  <1>6. file \in [Models -> {"none", "good", "bad"}] BY DEF DiskInv, DiskTypes
  <1>7. /\ file' \in [Models -> {"none", "good", "bad"}]
        /\ \A m \in Models : file[m] = "good" => file'[m] = "good"
    BY <1>1, <1>5, <1>6
  <1>8. s = "manifest" => file'[op.request.model] = "good" BY <1>5, <1>7
  <1>9. s \in {"manifest", "send"} OBVIOUS
  <1> HIDE DEF s
  <1>10. op' \in Ops /\ op'.step = s /\ SameItem BY <1>2, <1>3, GoesFacts
  <1>11. OpTypes' /\ ArchivesOf' = ArchivesOf /\ (IsArchive <=> IsArchive')
    BY <1>2, <1>10, SameTypes DEF DiskInv
  <1>12. DiskTypes' BY <1>1, <1>7 DEF DiskTypes, DiskInv
  <1>13. InstalledInv' BY <1>1 DEF InstalledInv, DiskInv, Whole
  <1>14. settings \in Requests \cup {NoRequest} BY DEF DiskInv, DiskTypes
  <1>15. SettingsAreVerified'
    BY <1>1, <1>7, <1>14 DEF DiskInv, SettingsAreVerified, Requests
  <1>16. Whole(op.request.backend)' BY <1>1, <1>4, <1>10 DEF Whole, SameItem, SameSetup
  <1>17. op'.step = "manifest" => (file[op.request.model] = "good")'
    BY <1>8, <1>10 DEF SameItem, SameSetup
  <1>18. ProgressInv'
    BY <1>4, <1>9, <1>10, <1>11, <1>16, <1>17 DEF ProgressInv, Configuring
  <1> QED BY <1>9, <1>10, <1>11, <1>12, <1>13, <1>15, <1>18 DEF DiskInv, SameItem

LEMMA ManifestKeeps ==
  ASSUME DiskInv, BuildRuntimeManifest
  PROVE  DiskInv' /\ SameSetup /\ op'.step = "config"
  <1>1. op.step = "manifest" /\ OpGoes("config") BY DEF BuildRuntimeManifest, OpAt
  <1>2. UNCHANGED <<partial, file, installed, settings, accepted>>
    BY DEF BuildRuntimeManifest, onDisk
  <1>3. "config" \in Steps /\ op.step \in Working BY <1>1, StepNames DEF Configuring
  <1>4. /\ DiskTypes' /\ InstalledInv' /\ SettingsAreVerified'
        /\ OpTypes' /\ op'.step = "config" /\ SameItem /\ (IsArchive <=> IsArchive')
        /\ Whole(op.request.backend) => Whole(op.request.backend)'
    BY <1>1, <1>2, <1>3, GoesOn
  <1>5. ~IsArchive /\ Whole(op.request.backend) /\ file[op.request.model] = "good"
    BY <1>1 DEF DiskInv, ProgressInv, Configuring
  <1>6. (file[op.request.model] = "good")' BY <1>2, <1>4, <1>5 DEF SameItem, SameSetup
  <1>7. ProgressInv' BY <1>4, <1>5, <1>6 DEF ProgressInv, Configuring
  <1> QED BY <1>4, <1>7 DEF DiskInv, SameItem

LEMMA WritesKeep ==
  ASSUME DiskInv, WriteConfiguration \/ WriteLicenseAcceptance
  PROVE  DiskInv' /\ SameSetup /\ op'.step \in {"accept", "report"}
  <1>1. PICK s \in {"accept", "report"} :
          /\ OpGoes(s) /\ op.step = IF s = "accept" THEN "config" ELSE "accept"
          /\ s = "accept" => settings' = op.request /\ accepted' = accepted
          /\ s = "report" => settings' = settings /\ accepted' = op.request.model
          /\ UNCHANGED <<partial, file, installed>>
    BY DEF WriteConfiguration, WriteLicenseAcceptance, OpAt
  <1>2. op \in Ops /\ s \in Steps /\ op.step # "idle"
    BY <1>1, StepNames DEF DiskInv, OpTypes, Configuring
  <1>3. op' \in Ops /\ op'.step = s /\ SameItem BY <1>1, <1>2, GoesFacts
  <1>4. OpTypes' /\ ArchivesOf' = ArchivesOf /\ (IsArchive <=> IsArchive')
    BY <1>2, <1>3, SameTypes DEF DiskInv
  <1>5. /\ op.request \in Requests /\ op.request.model \in Models
        /\ op.request.backend \in Backends
    BY <1>2, ItemFacts DEF DiskInv, OpTypes
  <1>6. ~IsArchive /\ Whole(op.request.backend) /\ file[op.request.model] = "good"
    BY <1>1 DEF DiskInv, ProgressInv, Configuring
  <1>7. settings' \in Requests \cup {NoRequest} /\ accepted' \in Models \cup {NoRequest}
    BY <1>1, <1>5 DEF DiskInv, DiskTypes
  <1>8. DiskTypes' BY <1>1, <1>7 DEF DiskTypes, DiskInv
  <1>9. InstalledInv' BY <1>1 DEF InstalledInv, DiskInv, Whole
  <1>10. SettingsAreVerified'
    BY <1>1, <1>6 DEF DiskInv, SettingsAreVerified, Whole
  <1>11. Whole(op.request.backend)' BY <1>1, <1>3, <1>6 DEF Whole, SameItem, SameSetup
  <1>12. (file[op.request.model] = "good")' BY <1>1, <1>3, <1>6 DEF SameItem, SameSetup
  <1>13. settings' = op'.request
    BY <1>1, <1>3 DEF DiskInv, ProgressInv, SameItem, SameSetup
  <1>14. s = "report" => accepted' = op'.request.model
    BY <1>1, <1>3 DEF SameItem, SameSetup
  <1>15. ProgressInv'
    BY <1>1, <1>3, <1>4, <1>6, <1>11, <1>12, <1>13, <1>14 DEF ProgressInv, Configuring
  <1> QED BY <1>3, <1>4, <1>8, <1>9, <1>10, <1>15 DEF DiskInv, SameItem
-----------------------------------------------------------------------------
(* The frames and the window.                                              *)

HostFrames == {Cancel} \cup {Start(id, r) : id \in RequestIds, r \in Requests}
Outcomes == {"refused", "completed", "cancelled", "failed"}
WindowFrames == {CutFrame} \cup {Terminal(id, s) : id \in RequestIds, s \in Outcomes}

TalkTypes ==
  /\ cancelled \in BOOLEAN /\ workerStops \in BOOLEAN
  /\ active \in BOOLEAN /\ requestId \in RequestIds /\ asked \in Requests \cup {NoRequest}
  /\ silent \in BOOLEAN /\ shown \in {"none"} \cup Outcomes
  /\ toHost \in Seq(HostFrames) /\ toWindow \in Seq(WindowFrames)

IsEnd(f, id) == f.kind = "end" /\ f.id = id
Ended(q, id) == \E i \in DOMAIN q : IsEnd(q[i], id)
StartWaits == \E i \in DOMAIN toHost : toHost[i].kind = "start"

\* One start at most is on its way, that of the setup the window waits for; no
\* end of this one is, until it has run or was refused.
OneStart ==
  \A i \in DOMAIN toHost : toHost[i].kind = "start" =>
    /\ active /\ toHost[i].id = requestId /\ toHost[i].request = asked
    /\ \A j \in DOMAIN toHost : toHost[j].kind = "start" => i = j
StartInv ==
  /\ OneStart
  /\ StartWaits /\ op.step # "idle" => op.id # requestId
  /\ StartWaits \/ op.step \in Working => ~Ended(toWindow, requestId)

\* A window that waits can expect an end, and an end that says "completed" is true.
CompletedArrives(f) == IsEnd(f, requestId) /\ f.stage = "completed"
WaitInv ==
  /\ op.step \in Working => active /\ op.id = requestId /\ op.request = asked
  /\ active => shown = "none"
  /\ active => \/ silent \/ EndInFlight
               \/ op.step \in Working \cup {"cancelled", "failed"} /\ op.id = requestId
  /\ active => \A i \in DOMAIN toWindow : CompletedArrives(toWindow[i]) =>
                 settings = asked /\ accepted = asked.model
  /\ CompletedIsTrue

\* The ends behind the n-th frame are of one setup: of the one that runs, if any.
OneAfter(q, p, n) ==
  \E o \in RequestIds :
    /\ \A i \in DOMAIN q : i > n /\ q[i].kind = "end" => q[i].id = o
    /\ p.step # "idle" => p.id = o
OrderInv ==
  /\ ~active \/ StartWaits => OneAfter(toWindow, op, 0)
  /\ \A i \in DOMAIN toWindow : IsEnd(toWindow[i], requestId) => OneAfter(toWindow, op, i)

TalkInv == TalkTypes /\ StartInv /\ WaitInv /\ OrderInv
SetupInv == DiskInv /\ TalkInv
-----------------------------------------------------------------------------
(* Queues.                                                                 *)

LEMMA AppendFacts ==
  ASSUME NEW S, NEW q \in Seq(S), NEW f \in S
  PROVE  /\ Append(q, f) \in Seq(S) /\ Len(q) \in Nat /\ DOMAIN q = 1 .. Len(q)
         /\ DOMAIN Append(q, f) = 1 .. Len(q) + 1
         /\ \A i \in DOMAIN q : Append(q, f)[i] = q[i]
         /\ Append(q, f)[Len(q) + 1] = f
  <1>1. Len(q) \in Nat /\ DOMAIN q = 1 .. Len(q) BY LenProperties
  <1>2. /\ Append(q, f) \in Seq(S) /\ Len(Append(q, f)) = Len(q) + 1
        /\ \A i \in 1 .. Len(q) : Append(q, f)[i] = q[i]
        /\ Append(q, f)[Len(q) + 1] = f
    BY AppendProperties
  <1>3. DOMAIN Append(q, f) = 1 .. Len(q) + 1 BY <1>2, LenProperties
  <1> QED BY <1>1, <1>2, <1>3

LEMMA TailFacts ==
  ASSUME NEW S, NEW q \in Seq(S), q # << >>
  PROVE  /\ Tail(q) \in Seq(S) /\ Len(q) \in Nat \ {0} /\ DOMAIN q = 1 .. Len(q)
         /\ DOMAIN Tail(q) = 1 .. Len(q) - 1 /\ Head(q) = q[1] /\ q[1] \in S
         /\ \A i \in 1 .. Len(q) - 1 : Tail(q)[i] = q[i + 1]
  <1>1. Len(q) \in Nat /\ DOMAIN q = 1 .. Len(q) BY LenProperties
  <1>2. Len(q) # 0 BY EmptySeq
  <1>3. /\ Tail(q) \in Seq(S) /\ Len(Tail(q)) = Len(q) - 1
        /\ \A i \in 1 .. Len(Tail(q)) : Tail(q)[i] = q[i + 1]
    BY HeadTailProperties
  <1>4. DOMAIN Tail(q) = 1 .. Len(q) - 1 BY <1>3, LenProperties
  <1>5. Head(q) = q[1] OBVIOUS
  <1>6. q[1] \in S BY <1>1, <1>2, ElementOfSeq
  <1> QED BY <1>1, <1>2, <1>3, <1>4, <1>5, <1>6

LEMMA FrameFacts ==
  /\ \A f \in WindowFrames : f.kind = "end" => f.id \in RequestIds /\ f.stage \in Outcomes
  /\ \A id \in RequestIds, s \in Outcomes :
       /\ Terminal(id, s) \in WindowFrames /\ Terminal(id, s).kind = "end"
       /\ Terminal(id, s).id = id /\ Terminal(id, s).stage = s
  /\ \A id \in RequestIds : Refused(id) = Terminal(id, "refused")
  /\ CutFrame \in WindowFrames /\ CutFrame.kind = "cut"
  /\ Cancel \in HostFrames /\ Cancel.kind = "cancel"
  /\ \A id \in RequestIds, r \in Requests :
       /\ Start(id, r) \in HostFrames /\ Start(id, r).kind = "start"
       /\ Start(id, r).id = id /\ Start(id, r).request = r
  /\ \A f \in HostFrames : f.kind = "start" => f.id \in RequestIds /\ f.request \in Requests
  <1>1. ASSUME NEW f \in WindowFrames, f.kind = "end"
        PROVE  f.id \in RequestIds /\ f.stage \in Outcomes
    <2>1. f # CutFrame BY <1>1 DEF CutFrame
    <2>2. PICK id \in RequestIds, s \in Outcomes : f = Terminal(id, s)
      BY <2>1 DEF WindowFrames
    <2> QED BY <2>2 DEF Terminal
  <1>2. ASSUME NEW f \in HostFrames, f.kind = "start"
        PROVE  f.id \in RequestIds /\ f.request \in Requests
    <2>1. f # Cancel BY <1>2 DEF Cancel
    <2>2. PICK id \in RequestIds, r \in Requests : f = Start(id, r)
      BY <2>1 DEF HostFrames
    <2> QED BY <2>2 DEF Start
  <1>3. \A id \in RequestIds, s \in Outcomes :
       /\ Terminal(id, s) \in WindowFrames /\ Terminal(id, s).kind = "end"
       /\ Terminal(id, s).id = id /\ Terminal(id, s).stage = s
    BY DEF WindowFrames, Terminal
  <1>4. \A id \in RequestIds : Refused(id) = Terminal(id, "refused")
    BY DEF Refused, Terminal
  <1>5. CutFrame \in WindowFrames /\ CutFrame.kind = "cut" BY DEF WindowFrames, CutFrame
  <1>6. Cancel \in HostFrames /\ Cancel.kind = "cancel" BY DEF HostFrames, Cancel
  <1>7. \A id \in RequestIds, r \in Requests :
       /\ Start(id, r) \in HostFrames /\ Start(id, r).kind = "start"
       /\ Start(id, r).id = id /\ Start(id, r).request = r
    BY DEF HostFrames, Start
  <1> QED BY <1>1, <1>2, <1>3, <1>4, <1>5, <1>6, <1>7

\* The setup may send an end of its own, or another frame.
LEMMA OwnAppended ==
  ASSUME NEW q \in Seq(WindowFrames), NEW f \in WindowFrames, NEW p, NEW r, NEW n \in Nat,
         p.step # "idle", f.kind = "end" => f.id = p.id,
         r.step # "idle" => r.id = p.id, OneAfter(q, p, n)
  PROVE  OneAfter(Append(q, f), r, n)
  <1>1. PICK o \in RequestIds :
          /\ \A i \in DOMAIN q : i > n /\ q[i].kind = "end" => q[i].id = o
          /\ p.step # "idle" => p.id = o
    BY DEF OneAfter
  <1>2. /\ Len(q) \in Nat /\ DOMAIN q = 1 .. Len(q)
        /\ DOMAIN Append(q, f) = 1 .. Len(q) + 1
        /\ \A i \in DOMAIN q : Append(q, f)[i] = q[i]
        /\ Append(q, f)[Len(q) + 1] = f
    BY AppendFacts
  <1>3. ASSUME NEW i \in DOMAIN Append(q, f), i > n, Append(q, f)[i].kind = "end"
        PROVE  Append(q, f)[i].id = o
    <2>1. CASE i = Len(q) + 1 BY <1>1, <1>2, <1>3, <2>1
    <2>2. CASE i # Len(q) + 1
      <3>1. i \in DOMAIN q BY <1>2, <2>2
      <3> QED BY <1>1, <1>2, <1>3, <3>1
    <2> QED BY <2>1, <2>2
  <1> QED BY <1>1, <1>3 DEF OneAfter

\* Nothing is behind the last frame.
LEMMA LastIsOne ==
  ASSUME NEW q \in Seq(WindowFrames), NEW f \in WindowFrames, NEW r,
         r.step # "idle" => r.id \in RequestIds
  PROVE  OneAfter(Append(q, f), r, Len(q) + 1)
  <1>1. DOMAIN Append(q, f) = 1 .. Len(q) + 1 /\ Len(q) \in Nat BY AppendFacts
  <1>2. PICK o \in RequestIds : r.step # "idle" => r.id = o BY DEF RequestIds
  <1> QED BY <1>1, <1>2 DEF OneAfter

LEMMA SameOne ==
  ASSUME NEW q, NEW p, NEW r, NEW n, OneAfter(q, p, n),
         r.step # "idle" => p.step # "idle" /\ r.id = p.id
  PROVE  OneAfter(q, r, n)
  BY DEF OneAfter

LEMMA TailIsOne ==
  ASSUME NEW q \in Seq(WindowFrames), q # << >>, NEW p, NEW n \in Nat,
         OneAfter(q, p, n + 1) \/ OneAfter(q, p, n)
  PROVE  OneAfter(Tail(q), p, n)
  <1>1. /\ Len(q) \in Nat \ {0} /\ DOMAIN q = 1 .. Len(q)
        /\ DOMAIN Tail(q) = 1 .. Len(q) - 1
        /\ \A i \in 1 .. Len(q) - 1 : Tail(q)[i] = q[i + 1]
    BY TailFacts
  <1>2. PICK o \in RequestIds :
          /\ \A i \in DOMAIN q : i > n + 1 /\ q[i].kind = "end" => q[i].id = o
          /\ p.step # "idle" => p.id = o
    BY <1>1 DEF OneAfter
  <1>3. ASSUME NEW i \in DOMAIN Tail(q), i > n, Tail(q)[i].kind = "end"
        PROVE  Tail(q)[i].id = o
    <2>1. i + 1 \in DOMAIN q /\ i + 1 > n + 1 /\ Tail(q)[i] = q[i + 1] BY <1>1, <1>3
    <2> QED BY <1>2, <1>3, <2>1
  <1> QED BY <1>2, <1>3 DEF OneAfter
-----------------------------------------------------------------------------
(* The setup, as far as the window hears of it.                            *)

Going == Working \cup {"cancelled", "failed"}

\* A step of the setup that sends nothing.
LEMMA NothingSentKeeps ==
  ASSUME TalkInv, UNCHANGED <<toHost, toWindow, active, requestId, asked, shown>>,
         cancelled' \in BOOLEAN, workerStops' \in BOOLEAN, silent' \in BOOLEAN,
         op'.step # "idle" => op.step # "idle" /\ op'.id = op.id,
         op'.step \in Working => op.step \in Working /\ SameSetup,
         UNCHANGED <<settings, accepted>> \/ op.step \in Working,
         silent' = TRUE
           \/ (silent' = silent /\ (op.step \in Going => op'.step \in Going /\ op'.id = op.id))
  PROVE  TalkInv'
  <1>1. TalkTypes' BY DEF TalkInv, TalkTypes
  <1>2. StartWaits' <=> StartWaits BY DEF StartWaits
  <1>3. OneStart' BY DEF TalkInv, StartInv, OneStart
  <1>4. Ended(toWindow, requestId)' <=> Ended(toWindow, requestId) BY DEF Ended, IsEnd
  <1>5. StartInv' BY <1>2, <1>3, <1>4 DEF TalkInv, StartInv
  <1>6. op'.step \in Working => active' /\ op'.id = requestId' /\ op'.request = asked'
    BY DEF TalkInv, WaitInv, SameSetup
  <1>7. EndInFlight' <=> EndInFlight BY DEF EndInFlight
  <1>8. active' => silent' \/ EndInFlight' \/ (op'.step \in Going /\ op'.id = requestId')
    <2>1. active => silent \/ EndInFlight \/ (op.step \in Going /\ op.id = requestId)
      BY DEF TalkInv, WaitInv, Going
    <2>2. CASE silent' = TRUE BY <2>2
    <2>3. CASE silent' = silent /\ (op.step \in Going => op'.step \in Going /\ op'.id = op.id)
      BY <1>7, <2>1, <2>3
    <2> QED BY <2>2, <2>3
  <1>9. active' => \A i \in DOMAIN toWindow' : CompletedArrives(toWindow[i])' =>
                     settings' = asked' /\ accepted' = asked'.model
    <2>1. CASE UNCHANGED <<settings, accepted>>
      BY <2>1 DEF TalkInv, WaitInv, CompletedArrives, IsEnd
    <2>2. CASE op.step \in Working
      BY <2>2 DEF TalkInv, StartInv, CompletedArrives, Ended, IsEnd
    <2> QED BY <2>1, <2>2
  <1>10. CompletedIsTrue'
    <2>1. CASE UNCHANGED <<settings, accepted>>
      BY <2>1 DEF TalkInv, WaitInv, CompletedIsTrue
    <2>2. CASE op.step \in Working BY <2>2 DEF TalkInv, WaitInv, CompletedIsTrue
    <2> QED BY <2>1, <2>2
  <1>11. (active => shown = "none")' BY DEF TalkInv, WaitInv
  <1>12. WaitInv' BY <1>6, <1>8, <1>9, <1>10, <1>11 DEF WaitInv, Going
  <1>13. ASSUME NEW n, OneAfter(toWindow, op, n) PROVE OneAfter(toWindow, op, n)'
    <2>1. OneAfter(toWindow, op', n) BY <1>13, SameOne
    <2> QED BY <2>1 DEF OneAfter
  <1>14. OrderInv' BY <1>2, <1>13 DEF TalkInv, OrderInv, IsEnd
  <1> QED BY <1>1, <1>5, <1>12, <1>14 DEF TalkInv

\* A setup that sends its end, or cuts a frame.
LEMMA SentKeeps ==
  ASSUME TalkInv, ProgressInv, NEW f \in WindowFrames, toWindow' = Append(toWindow, f),
         UNCHANGED <<toHost, active, requestId, asked, shown, settings, accepted>>,
         UNCHANGED <<cancelled, workerStops>>,
         op.step \in Going, op'.step \in {"cancelled", "ending"}, op'.id = op.id,
         op.id \in RequestIds,
         f.kind = "end" => f.id = op.id /\ silent' = silent,
         f.kind = "end" /\ f.stage = "completed" => op.step = "report",
         f.kind # "end" => silent' = TRUE
  PROVE  TalkInv'
  <1>1. toWindow \in Seq(WindowFrames) /\ silent \in BOOLEAN BY DEF TalkInv, TalkTypes
  <1>2. /\ toWindow' \in Seq(WindowFrames)
        /\ Len(toWindow) \in Nat /\ DOMAIN toWindow = 1 .. Len(toWindow)
        /\ DOMAIN toWindow' = 1 .. Len(toWindow) + 1
        /\ \A i \in DOMAIN toWindow : toWindow'[i] = toWindow[i]
        /\ toWindow'[Len(toWindow) + 1] = f
    BY <1>1, AppendFacts
  <1>3. op.step # "idle" /\ op'.step \notin Working /\ op'.step # "idle"
    BY StepNames DEF Over, Going
  <1>4. TalkTypes' BY <1>1, <1>2 DEF TalkInv, TalkTypes
  <1>5. StartWaits' <=> StartWaits BY DEF StartWaits
  <1>6. OneStart' BY DEF TalkInv, StartInv, OneStart
  <1>7. StartWaits => ~Ended(toWindow, requestId)'
    BY <1>2, <1>3 DEF TalkInv, StartInv, Ended, IsEnd
  <1>8. StartInv' BY <1>3, <1>5, <1>6, <1>7 DEF TalkInv, StartInv
  <1>9. Ended(toWindow, requestId) => Ended(toWindow, requestId)' BY <1>2 DEF Ended, IsEnd
  <1>10. EndInFlight => EndInFlight'
    <2>1. EndInFlight <=> Ended(toWindow, requestId) \/ StartWaits
      BY DEF EndInFlight, Ended, IsEnd, StartWaits
    <2>2. (EndInFlight <=> Ended(toWindow, requestId) \/ StartWaits)'
      BY DEF EndInFlight, Ended, IsEnd, StartWaits
    <2> QED BY <1>5, <1>9, <2>1, <2>2
  <1>11. active' => silent' \/ EndInFlight'
    <2>1. CASE f.kind # "end" BY <2>1
    <2>2. CASE f.kind = "end" /\ op.id = requestId
      BY <1>2, <2>2 DEF EndInFlight
    <2>3. CASE f.kind = "end" /\ op.id # requestId
      BY <1>10, <2>3 DEF TalkInv, WaitInv
    <2> QED BY <2>1, <2>2, <2>3
  <1>12. ASSUME active', NEW i \in DOMAIN toWindow', CompletedArrives(toWindow[i])'
         PROVE  settings' = asked' /\ accepted' = asked'.model
    <2>1. CASE i \in DOMAIN toWindow
      BY <1>2, <1>12, <2>1 DEF TalkInv, WaitInv, CompletedArrives, IsEnd
    <2>2. CASE i = Len(toWindow) + 1
      <3>1. op.step = "report" BY <1>2, <1>12, <2>2 DEF CompletedArrives, IsEnd
      <3>2. settings = op.request /\ accepted = op.request.model BY <3>1 DEF ProgressInv
      <3>3. op.step \in Working BY <3>1, StepNames DEF Configuring
      <3>4. op.request = asked BY <3>3 DEF TalkInv, WaitInv
      <3> QED BY <3>2, <3>4
    <2> QED BY <1>2, <2>1, <2>2
  <1>13. CompletedIsTrue' BY DEF TalkInv, WaitInv, CompletedIsTrue
  <1>14. (active => shown = "none")' BY DEF TalkInv, WaitInv
  <1>15. WaitInv' BY <1>3, <1>11, <1>12, <1>13, <1>14 DEF WaitInv
  <1>16. \A n \in Nat : OneAfter(toWindow, op, n) => OneAfter(toWindow', op', n)
    BY <1>1, <1>3, OwnAppended
  <1>17. OneAfter(toWindow', op', Len(toWindow) + 1) BY <1>1, LastIsOne
  <1>18. ~active' \/ StartWaits' => OneAfter(toWindow, op, 0)'
    BY <1>5, <1>16 DEF TalkInv, OrderInv
  <1>19. ASSUME NEW i \in DOMAIN toWindow', IsEnd(toWindow[i], requestId)'
         PROVE  OneAfter(toWindow', op', i)
    <2>1. CASE i \in DOMAIN toWindow
      <3>1. IsEnd(toWindow[i], requestId) BY <1>2, <1>19, <2>1 DEF IsEnd
      <3>2. OneAfter(toWindow, op, i) BY <2>1, <3>1 DEF TalkInv, OrderInv
      <3>3. i \in Nat BY <1>2, <2>1
      <3> QED BY <1>16, <3>2, <3>3
    <2>2. CASE i = Len(toWindow) + 1 BY <1>17, <2>2
    <2> QED BY <1>2, <2>1, <2>2
  <1>20. OrderInv' BY <1>18, <1>19 DEF OrderInv
  <1> QED BY <1>4, <1>8, <1>15, <1>20 DEF TalkInv

\* Another frame than a start is put into the host's queue or taken out of it.
LEMMA HostQueueKeeps ==
  ASSUME TalkInv, toHost' \in Seq(HostFrames), OneStart', StartWaits' <=> StartWaits,
         UNCHANGED <<op, workerStops, toWindow, window, silent, settings, accepted>>,
         cancelled' \in BOOLEAN
  PROVE  TalkInv'
  <1>1. UNCHANGED <<active, requestId, asked, shown>> BY DEF window
  <1>2. TalkTypes' BY <1>1 DEF TalkInv, TalkTypes
  <1>3. Ended(toWindow, requestId)' <=> Ended(toWindow, requestId) BY <1>1 DEF Ended, IsEnd
  <1>4. StartInv' BY <1>1, <1>3 DEF TalkInv, StartInv
  <1>5. EndInFlight <=> Ended(toWindow, requestId) \/ StartWaits
    BY DEF EndInFlight, Ended, IsEnd, StartWaits
  <1>6. (EndInFlight <=> Ended(toWindow, requestId) \/ StartWaits)'
    BY DEF EndInFlight, Ended, IsEnd, StartWaits
  <1>7. active => silent \/ EndInFlight \/ (op.step \in Going /\ op.id = requestId)
    BY DEF TalkInv, WaitInv, Going
  <1>8. (active => silent \/ EndInFlight \/ (op.step \in Going /\ op.id = requestId))'
    BY <1>1, <1>3, <1>5, <1>6, <1>7
  <1>9. CompletedIsTrue' BY <1>1 DEF TalkInv, WaitInv, CompletedIsTrue
  <1>10. (active => \A i \in DOMAIN toWindow : CompletedArrives(toWindow[i]) =>
                 settings = asked /\ accepted = asked.model)'
    BY <1>1 DEF TalkInv, WaitInv, CompletedArrives, IsEnd
  <1>11. WaitInv' BY <1>1, <1>8, <1>9, <1>10 DEF TalkInv, WaitInv, Going
  <1>12. \A n : OneAfter(toWindow, op, n)' <=> OneAfter(toWindow, op, n) BY DEF OneAfter
  <1>13. OrderInv' BY <1>1, <1>12 DEF TalkInv, OrderInv, IsEnd
  <1> QED BY <1>2, <1>4, <1>11, <1>13 DEF TalkInv

\* The first frame is taken: no start is left but those it was not.
LEMMA HeadTaken ==
  ASSUME TalkInv, toHost # << >>, toHost' = Tail(toHost),
         UNCHANGED <<active, requestId, asked>>
  PROVE  /\ toHost' \in Seq(HostFrames) /\ OneStart' /\ Head(toHost) \in HostFrames
         /\ Head(toHost).kind # "start" => (StartWaits' <=> StartWaits)
         /\ Head(toHost).kind = "start" =>
              /\ ~StartWaits' /\ StartWaits
              /\ active /\ Head(toHost).id = requestId /\ Head(toHost).request = asked
  <1>1. toHost \in Seq(HostFrames) BY DEF TalkInv, TalkTypes
  <1>2. /\ toHost' \in Seq(HostFrames) /\ Len(toHost) \in Nat \ {0}
        /\ DOMAIN toHost = 1 .. Len(toHost) /\ DOMAIN toHost' = 1 .. Len(toHost) - 1
        /\ Head(toHost) = toHost[1] /\ toHost[1] \in HostFrames
        /\ \A i \in 1 .. Len(toHost) - 1 : toHost'[i] = toHost[i + 1]
    BY <1>1, TailFacts
  <1>3. \A i \in DOMAIN toHost' : i + 1 \in DOMAIN toHost /\ toHost'[i] = toHost[i + 1]
    BY <1>2
  <1>4. \A i \in DOMAIN toHost : i # 1 => i - 1 \in DOMAIN toHost' /\ toHost'[i - 1] = toHost[i]
    BY <1>2
  <1>5. OneStart BY DEF TalkInv, StartInv
  <1>6. OneStart'
    <2>1. SUFFICES ASSUME NEW i \in DOMAIN toHost', toHost'[i].kind = "start"
                   PROVE  /\ active /\ toHost'[i].id = requestId /\ toHost'[i].request = asked
                          /\ \A j \in DOMAIN toHost' : toHost'[j].kind = "start" => i = j
      BY DEF OneStart
    <2>2. i + 1 \in DOMAIN toHost /\ toHost'[i] = toHost[i + 1] BY <1>3
    <2>3. ASSUME NEW j \in DOMAIN toHost', toHost'[j].kind = "start" PROVE i = j
      <3>1. j + 1 \in DOMAIN toHost /\ toHost'[j] = toHost[j + 1] BY <1>3
      <3>2. i + 1 = j + 1 BY <2>1, <2>2, <2>3, <3>1, <1>5 DEF OneStart
      <3> QED BY <3>2, <1>2
    <2> QED BY <2>1, <2>2, <2>3, <1>5 DEF OneStart
  <1>7. StartWaits' => StartWaits BY <1>3 DEF StartWaits
  <1>8. Head(toHost).kind # "start" => (StartWaits => StartWaits')
    BY <1>2, <1>4 DEF StartWaits
  <1>9. ASSUME Head(toHost).kind = "start"
        PROVE  /\ ~StartWaits' /\ StartWaits
               /\ active /\ Head(toHost).id = requestId /\ Head(toHost).request = asked
    <2>1. 1 \in DOMAIN toHost /\ toHost[1].kind = "start" BY <1>2, <1>9
    <2>2. ~StartWaits'
      <3>1. SUFFICES ASSUME NEW i \in DOMAIN toHost', toHost'[i].kind = "start" PROVE FALSE
        BY DEF StartWaits
      <3>2. 1 = i + 1 BY <1>3, <1>5, <2>1, <3>1 DEF OneStart
      <3> QED BY <3>2, <1>2
    <2> QED BY <2>1, <2>2, <1>2, <1>5 DEF StartWaits, OneStart
  <1> QED BY <1>2, <1>6, <1>7, <1>8, <1>9

LEMMA RecvCancelKeeps ==
  ASSUME TalkInv, RecvCancel
  PROVE  TalkInv'
  <1>1. /\ toHost # << >> /\ Head(toHost).kind = "cancel" /\ toHost' = Tail(toHost)
        /\ cancelled' = (cancelled \/ op.step # "idle")
        /\ UNCHANGED <<op, workerStops, toWindow, window, silent, settings, accepted>>
    BY DEF RecvCancel, Quiet, onDisk
  <1>2. UNCHANGED <<active, requestId, asked>> BY <1>1 DEF window
  <1>3. toHost' \in Seq(HostFrames) /\ OneStart' /\ (StartWaits' <=> StartWaits)
    BY <1>1, <1>2, HeadTaken
  <1>4. cancelled' \in BOOLEAN BY <1>1
  <1> QED BY <1>1, <1>3, <1>4, HostQueueKeeps

LEMMA CancelClickKeeps ==
  ASSUME TalkInv, OnAiSetupCancelClick
  PROVE  TalkInv'
  <1>1. /\ toHost' = Append(toHost, Cancel)
        /\ UNCHANGED <<op, cancelled, workerStops, toWindow, window, silent, settings, accepted>>
    BY DEF OnAiSetupCancelClick, WindowFrame, host, onDisk
  <1>2. UNCHANGED <<active, requestId, asked>> BY <1>1 DEF window
  <1>3. toHost \in Seq(HostFrames) /\ Cancel \in HostFrames /\ Cancel.kind # "start"
    BY FrameFacts DEF TalkInv, TalkTypes
  <1>4. /\ toHost' \in Seq(HostFrames) /\ Len(toHost) \in Nat
        /\ DOMAIN toHost = 1 .. Len(toHost) /\ DOMAIN toHost' = 1 .. Len(toHost) + 1
        /\ \A i \in DOMAIN toHost : toHost'[i] = toHost[i]
        /\ toHost'[Len(toHost) + 1] = Cancel
    BY <1>1, <1>3, AppendFacts
  <1>5. \A i \in DOMAIN toHost' : toHost'[i].kind = "start" =>
          i \in DOMAIN toHost /\ toHost'[i] = toHost[i]
    BY <1>3, <1>4
  <1>6. OneStart'
    <2>1. OneStart BY DEF TalkInv, StartInv
    <2> QED BY <1>2, <1>5, <2>1 DEF OneStart
  <1>7. StartWaits' <=> StartWaits BY <1>4, <1>5 DEF StartWaits
  <1>8. cancelled' \in BOOLEAN BY <1>1 DEF TalkInv, TalkTypes
  <1> QED BY <1>1, <1>4, <1>6, <1>7, <1>8, HostQueueKeeps

LEMMA StopAsyncKeeps ==
  ASSUME TalkInv, StopAsync
  PROVE  TalkInv'
  <1>1. /\ workerStops' = TRUE /\ cancelled' = (op.step # "idle")
        /\ UNCHANGED <<op, toHost, toWindow, active, requestId, asked, shown, silent,
                       settings, accepted>>
    BY DEF StopAsync, Quiet, onDisk, window
  <1>2. cancelled' \in BOOLEAN /\ workerStops' \in BOOLEAN /\ silent' \in BOOLEAN
    BY <1>1 DEF TalkInv, TalkTypes
  <1> QED BY <1>1, <1>2, NothingSentKeeps DEF SameSetup

Begun(f) == [Idle EXCEPT !.step = "prepare", !.request = f.request, !.id = f.id]

LEMMA IdleFacts ==
  Idle \in Ops /\ Idle.step = "idle" /\ Idle.index = 1 /\ Idle.staged = {}
  <1>1. 0 \in 0 .. Size + 1 BY Constants
  <1>2. "idle" \in Steps BY DEF Steps
  <1>3. 0 \in RequestIds BY DEF RequestIds
  <1> QED BY <1>1, <1>2, <1>3 DEF Idle, Ops

LEMMA RequestSet ==
  ASSUME NEW p \in Ops, NEW r, NEW d, NEW q,
         q = [p EXCEPT !.step = "prepare", !.request = r, !.id = d]
  PROVE  q = [step |-> "prepare", request |-> r, id |-> d, index |-> p.index,
              attempt |-> p.attempt, received |-> p.received, staged |-> p.staged]
  BY DEF Ops

LEMMA BegunFacts ==
  ASSUME NEW f, f.request \in Requests, f.id \in RequestIds
  PROVE  /\ Begun(f) \in Ops /\ Begun(f).step = "prepare"
         /\ Begun(f).request = f.request /\ Begun(f).id = f.id
         /\ Begun(f).index = 1 /\ Begun(f).staged = {}
  <1>1. 0 \in 0 .. Size + 1 BY Constants
  <1>2. Idle \in Ops /\ Idle.index = 1 /\ Idle.staged = {} BY IdleFacts
  <1> DEFINE p == Idle
  <1>4. p \in Ops /\ p.index = 1 /\ p.staged = {} BY <1>2
  <1>5. Begun(f) = [p EXCEPT !.step = "prepare", !.request = f.request, !.id = f.id]
    BY DEF Begun
  <1> HIDE DEF p
  <1>6. Begun(f) = [step |-> "prepare", request |-> f.request, id |-> f.id, index |-> p.index,
                    attempt |-> p.attempt, received |-> p.received, staged |-> p.staged]
    BY <1>4, <1>5, RequestSet
  <1>7. "prepare" \in Steps BY StepNames
  <1> QED BY <1>4, <1>6, <1>7 DEF Ops

\* The setup the window asked for begins, ...
LEMMA AcceptKeeps ==
  ASSUME DiskInv, TalkInv, toHost # << >>, Head(toHost).kind = "start", op.step = "idle",
         toHost' = Tail(toHost), cancelled' = FALSE,
         op' = Begun(Head(toHost)),
         UNCHANGED <<toWindow, silent, onDisk, workerStops, window>>
  PROVE  DiskInv' /\ TalkInv'
  <1>1. /\ UNCHANGED <<active, requestId, asked, shown>>
        /\ UNCHANGED <<partial, file, installed, settings, accepted>>
    BY DEF window, onDisk
  <1>2. /\ toHost' \in Seq(HostFrames) /\ OneStart' /\ ~StartWaits' /\ StartWaits
        /\ active /\ Head(toHost).id = requestId /\ Head(toHost).request = asked
        /\ Head(toHost) \in HostFrames
    BY <1>1, HeadTaken
  <1>3. asked \in Requests /\ requestId \in RequestIds BY <1>2, FrameFacts
  <1>4. Head(toHost).request \in Requests /\ Head(toHost).id \in RequestIds
    BY <1>2, <1>3
  <1>5. /\ op'.step = "prepare" /\ op'.request = asked /\ op'.id = requestId
        /\ op'.index = 1 /\ op'.staged = {} /\ op' \in Ops
    BY <1>2, <1>4, BegunFacts
  <1>6. "prepare" \in Working BY StepNames
  <1>7. op' \in Ops BY <1>5
  <1>8. DiskInv'
    <2>1. partial' \in [Artifacts -> Partials] BY <1>1 DEF DiskInv, DiskTypes
    <2>2. DiskTypes' /\ InstalledInv' /\ SettingsAreVerified' BY <1>1, <2>1, OthersKept
    <2>3. asked.backend \in Backends BY <1>3 DEF Requests
    <2>4. Len(Archives[asked.backend]) \in Nat \ {0} BY <2>3, Constants
    <2>5. OpTypes' BY <1>3, <1>5, <1>7, <2>4 DEF OpTypes, ArchivesOf
    <2>6. ProgressInv' BY <1>5 DEF ProgressInv, Configuring
    <2> QED BY <2>2, <2>5, <2>6 DEF DiskInv
  <1>9. TalkTypes' BY <1>1, <1>2 DEF TalkInv, TalkTypes
  <1>10. ~Ended(toWindow, requestId)' /\ ~Ended(toWindow, requestId)
    BY <1>1, <1>2 DEF TalkInv, StartInv, Ended, IsEnd
  <1>11. StartInv' BY <1>2, <1>10 DEF StartInv
  <1>12. CompletedIsTrue' BY <1>1 DEF TalkInv, WaitInv, CompletedIsTrue
  <1>13. (active => shown = "none")' BY <1>1 DEF TalkInv, WaitInv
  <1>14. \A i \in DOMAIN toWindow' : ~CompletedArrives(toWindow[i])'
    BY <1>10 DEF Ended, CompletedArrives
  <1>15. WaitInv' BY <1>1, <1>2, <1>5, <1>6, <1>12, <1>13, <1>14 DEF WaitInv
  <1>16. \A i \in DOMAIN toWindow' : ~IsEnd(toWindow[i], requestId)' BY <1>10 DEF Ended
  <1>17. OrderInv' BY <1>1, <1>2, <1>16 DEF OrderInv
  <1> QED BY <1>8, <1>9, <1>11, <1>15, <1>17 DEF TalkInv

\* ... or is refused, since the one before has not ended.
LEMMA RefuseKeeps ==
  ASSUME DiskInv, TalkInv, toHost # << >>, Head(toHost).kind = "start", op.step # "idle",
         toHost' = Tail(toHost), toWindow' = Append(toWindow, Refused(Head(toHost).id)),
         UNCHANGED <<op, cancelled, silent, onDisk, workerStops, window>>
  PROVE  TalkInv'
  <1>1. /\ UNCHANGED <<active, requestId, asked, shown>>
        /\ UNCHANGED <<partial, file, installed, settings, accepted>>
    BY DEF window, onDisk
  <1>2. /\ toHost' \in Seq(HostFrames) /\ OneStart' /\ ~StartWaits' /\ StartWaits
        /\ active /\ Head(toHost).id = requestId
    BY <1>1, HeadTaken
  <1>3. toWindow \in Seq(WindowFrames) /\ requestId \in RequestIds BY DEF TalkInv, TalkTypes
  <1> DEFINE f == Terminal(requestId, "refused")
  <1>4. /\ f \in WindowFrames /\ f.kind = "end" /\ f.id = requestId /\ f.stage = "refused"
        /\ toWindow' = Append(toWindow, f)
    BY <1>2, <1>3, FrameFacts DEF Outcomes
  <1> HIDE DEF f
  <1>5. /\ toWindow' \in Seq(WindowFrames)
        /\ Len(toWindow) \in Nat /\ DOMAIN toWindow = 1 .. Len(toWindow)
        /\ DOMAIN toWindow' = 1 .. Len(toWindow) + 1
        /\ \A i \in DOMAIN toWindow : toWindow'[i] = toWindow[i]
        /\ toWindow'[Len(toWindow) + 1] = f
    BY <1>3, <1>4, AppendFacts
  <1>6. ~Ended(toWindow, requestId) /\ op.id # requestId BY <1>2 DEF TalkInv, StartInv
  <1>7. op.step \notin Working BY <1>6 DEF TalkInv, WaitInv
  <1>8. TalkTypes' BY <1>1, <1>2, <1>5 DEF TalkInv, TalkTypes
  <1>9. StartInv' BY <1>2, <1>7 DEF StartInv
  <1>10. EndInFlight' BY <1>1, <1>4, <1>5 DEF EndInFlight
  <1>11. CompletedIsTrue' BY <1>1 DEF TalkInv, WaitInv, CompletedIsTrue
  <1>12. (active => shown = "none")' BY <1>1 DEF TalkInv, WaitInv
  <1>13. \A i \in DOMAIN toWindow' : ~CompletedArrives(toWindow[i])'
    <2>1. SUFFICES ASSUME NEW i \in DOMAIN toWindow', IsEnd(toWindow'[i], requestId),
                          toWindow'[i].stage = "completed"
                   PROVE  FALSE
      BY <1>1 DEF CompletedArrives, IsEnd
    <2>2. CASE i \in DOMAIN toWindow BY <1>5, <1>6, <2>1, <2>2 DEF Ended
    <2>3. CASE i = Len(toWindow) + 1 BY <1>4, <1>5, <2>1, <2>3
    <2> QED BY <1>5, <2>2, <2>3
  <1>14. WaitInv' BY <1>7, <1>10, <1>11, <1>12, <1>13 DEF WaitInv
  <1>15. op.step # "idle" => op.id \in RequestIds BY DEF DiskInv, OpTypes, Ops
  <1>16. OneAfter(toWindow', op', Len(toWindow) + 1) BY <1>3, <1>4, <1>15, LastIsOne
  <1>17. ASSUME NEW i \in DOMAIN toWindow', IsEnd(toWindow[i], requestId)'
         PROVE  OneAfter(toWindow', op', i)
    <2>1. CASE i \in DOMAIN toWindow BY <1>1, <1>5, <1>6, <1>17, <2>1 DEF Ended, IsEnd
    <2>2. CASE i = Len(toWindow) + 1 BY <1>16, <2>2
    <2> QED BY <1>5, <2>1, <2>2
  <1>18. OrderInv' BY <1>1, <1>2, <1>17 DEF OrderInv
  <1> QED BY <1>8, <1>9, <1>14, <1>18 DEF TalkInv

\* A new identifier: the window waits for nothing, so what is on its way is of one
\* setup, and there are enough.
LEMMA NewIdentifier ==
  ASSUME DiskInv, TalkInv, ~active
  PROVE  /\ NewRequestId \in RequestIds /\ NewRequestId \notin {op.id, requestId}
         /\ \A i \in DOMAIN toWindow : toWindow[i].kind = "end" => toWindow[i].id # NewRequestId
  <1>1. PICK o \in RequestIds :
          \A i \in DOMAIN toWindow : i > 0 /\ toWindow[i].kind = "end" => toWindow[i].id = o
    BY DEF TalkInv, OrderInv, OneAfter
  <1>2. Len(toWindow) \in Nat /\ DOMAIN toWindow = 1 .. Len(toWindow)
    BY LenProperties DEF TalkInv, TalkTypes
  <1>3. \A i \in DOMAIN toWindow : toWindow[i].kind = "end" => toWindow[i].id = o
    BY <1>1, <1>2
  <1>4. PICK n \in RequestIds : n # op.id /\ n # requestId /\ n # o
    <2>1. {0, 1, 2, 3} \subseteq RequestIds BY DEF RequestIds
    <2> QED BY <2>1
  <1>5. n \notin {op.id, requestId}
    BY <1>4
  <1>6. \A i \in DOMAIN toWindow : toWindow[i].kind = "end" => toWindow[i].id # n
    BY <1>3, <1>4
  <1> DEFINE P(id) == /\ id \notin {op.id, requestId}
                     /\ \A i \in DOMAIN toWindow :
                          toWindow[i].kind = "end" => toWindow[i].id # id
  <1>7. P(n) BY <1>5, <1>6
  <1>8. NewRequestId = CHOOSE id \in RequestIds : P(id) BY DEF NewRequestId
  <1> HIDE DEF P
  <1>9. NewRequestId \in RequestIds /\ P(NewRequestId) BY <1>7, <1>8
  <1> QED BY <1>9 DEF P

LEMMA SetupClickKeeps ==
  ASSUME DiskInv, TalkInv, NEW r \in Requests, OnAiSetupClick(r)
  PROVE  TalkInv'
  <1> DEFINE n == NewRequestId
             f == Start(n, r)
  <1>1. /\ ~active /\ active' = TRUE /\ requestId' = n /\ asked' = r /\ shown' = "none"
        /\ toHost' = Append(toHost, f)
        /\ UNCHANGED <<toWindow, op, cancelled, workerStops, silent, settings, accepted>>
    BY DEF OnAiSetupClick, WindowFrame, onDisk, host
  <1>2. /\ n \in RequestIds /\ n # op.id
        /\ \A i \in DOMAIN toWindow : toWindow[i].kind = "end" => toWindow[i].id # n
    BY <1>1, NewIdentifier
  <1>3. f \in HostFrames /\ f.kind = "start" /\ f.id = n /\ f.request = r
    BY <1>2, FrameFacts
  <1> HIDE DEF n, f
  <1>4. toHost \in Seq(HostFrames) BY DEF TalkInv, TalkTypes
  <1>5. /\ toHost' \in Seq(HostFrames) /\ Len(toHost) \in Nat
        /\ DOMAIN toHost = 1 .. Len(toHost) /\ DOMAIN toHost' = 1 .. Len(toHost) + 1
        /\ \A i \in DOMAIN toHost : toHost'[i] = toHost[i]
        /\ toHost'[Len(toHost) + 1] = f
    BY <1>1, <1>3, <1>4, AppendFacts
  <1>6. \A i \in DOMAIN toHost : toHost[i].kind # "start"
    BY <1>1 DEF TalkInv, StartInv, OneStart
  <1>7. \A i \in DOMAIN toHost' : toHost'[i].kind = "start" => i = Len(toHost) + 1
    BY <1>5, <1>6
  <1>8. OneStart' BY <1>1, <1>3, <1>5, <1>7 DEF OneStart
  <1>9. StartWaits' BY <1>3, <1>5 DEF StartWaits
  <1>10. op.step \notin Working BY <1>1 DEF TalkInv, WaitInv
  <1>11. TalkTypes' BY <1>1, <1>2, <1>5 DEF TalkInv, TalkTypes
  <1>12. \A i \in DOMAIN toWindow : ~IsEnd(toWindow[i], n) BY <1>2 DEF IsEnd
  <1>13. \A i \in DOMAIN toWindow' : ~IsEnd(toWindow[i], requestId)'
    BY <1>1, <1>12 DEF IsEnd
  <1>14. ~Ended(toWindow, requestId)' BY <1>13 DEF Ended
  <1>15. StartInv' BY <1>1, <1>2, <1>8, <1>14 DEF StartInv
  <1>16. EndInFlight' BY <1>9 DEF EndInFlight, StartWaits
  <1>17. CompletedIsTrue' BY <1>1 DEF CompletedIsTrue
  <1>18. \A i \in DOMAIN toWindow' : ~CompletedArrives(toWindow[i])'
    BY <1>13 DEF CompletedArrives
  <1>19. WaitInv' BY <1>1, <1>10, <1>16, <1>17, <1>18 DEF WaitInv
  <1>20. OneAfter(toWindow, op, 0) BY <1>1 DEF TalkInv, OrderInv
  <1>21. OneAfter(toWindow, op, 0)' BY <1>1, <1>20 DEF OneAfter
  <1>22. OrderInv' BY <1>13, <1>21 DEF OrderInv
  <1> QED BY <1>11, <1>15, <1>19, <1>22 DEF TalkInv

LEMMA HandleEndKeeps ==
  ASSUME TalkInv, HandleEnd
  PROVE  TalkInv'
  <1>1. /\ toWindow # << >> /\ Head(toWindow).kind = "end" /\ toWindow' = Tail(toWindow)
        /\ UNCHANGED <<toHost, requestId, asked, op, cancelled, workerStops, silent,
                       settings, accepted>>
    BY DEF HandleEnd, WindowFrame, onDisk, host
  <1>2. toWindow \in Seq(WindowFrames) BY DEF TalkInv, TalkTypes
  <1>3. /\ toWindow' \in Seq(WindowFrames) /\ Len(toWindow) \in Nat \ {0}
        /\ DOMAIN toWindow = 1 .. Len(toWindow) /\ DOMAIN toWindow' = 1 .. Len(toWindow) - 1
        /\ Head(toWindow) = toWindow[1] /\ toWindow[1] \in WindowFrames
        /\ \A i \in 1 .. Len(toWindow) - 1 : toWindow'[i] = toWindow[i + 1]
    BY <1>1, <1>2, TailFacts
  <1>4. \A i \in DOMAIN toWindow' :
          i \in Nat /\ i + 1 \in DOMAIN toWindow /\ toWindow'[i] = toWindow[i + 1]
    BY <1>3
  <1>5. \A i \in DOMAIN toWindow : i # 1 =>
          i - 1 \in DOMAIN toWindow' /\ toWindow'[i - 1] = toWindow[i]
    BY <1>3
  <1>6. 1 \in DOMAIN toWindow /\ toWindow[1].kind = "end" /\ toWindow[1].stage \in Outcomes
    BY <1>1, <1>3, FrameFacts
  <1>7. StartWaits' <=> StartWaits BY <1>1 DEF StartWaits
  <1>8. Ended(toWindow, requestId)' => Ended(toWindow, requestId)
    BY <1>1, <1>4 DEF Ended, IsEnd
  <1>9. ASSUME NEW i \in DOMAIN toWindow', IsEnd(toWindow[i], requestId)'
        PROVE  OneAfter(toWindow, op, i)'
    <2>1. i \in Nat /\ i + 1 \in DOMAIN toWindow /\ IsEnd(toWindow[i + 1], requestId)
      BY <1>1, <1>4, <1>9 DEF IsEnd
    <2>2. OneAfter(toWindow, op, i + 1) BY <2>1 DEF TalkInv, OrderInv
    <2>3. OneAfter(toWindow', op, i) BY <1>1, <1>2, <2>1, <2>2, TailIsOne
    <2> QED BY <1>1, <2>3 DEF OneAfter
  <1>10. ASSUME OneAfter(toWindow, op, 0) \/ OneAfter(toWindow, op, 1)
         PROVE  OneAfter(toWindow, op, 0)'
    <2>1. OneAfter(toWindow, op, 0 + 1) \/ OneAfter(toWindow, op, 0) BY <1>10
    <2>2. OneAfter(toWindow', op, 0) BY <1>1, <1>2, <2>1, TailIsOne
    <2> QED BY <1>1, <2>2 DEF OneAfter
  <1>11. CASE active /\ Head(toWindow).id = requestId
    <2>1. active' = FALSE /\ shown' = Head(toWindow).stage BY <1>11 DEF HandleEnd
    <2>2. IsEnd(toWindow[1], requestId) BY <1>3, <1>6, <1>11 DEF IsEnd
    <2>3. Ended(toWindow, requestId) BY <1>6, <2>2 DEF Ended
    <2>4. ~StartWaits /\ op.step \notin Working BY <2>3 DEF TalkInv, StartInv
    <2>5. TalkTypes' BY <1>1, <1>3, <1>6, <2>1 DEF TalkInv, TalkTypes
    <2>6. OneStart' BY <1>1, <2>4 DEF OneStart, StartWaits
    <2>7. StartInv' BY <1>1, <1>7, <2>4, <2>6 DEF StartInv
    <2>8. CompletedIsTrue'
      <3>1. SUFFICES ASSUME toWindow[1].stage = "completed"
                     PROVE  settings = asked /\ accepted = asked.model
        BY <1>1, <1>3, <2>1 DEF CompletedIsTrue
      <3>2. CompletedArrives(toWindow[1]) BY <2>2, <3>1 DEF CompletedArrives
      <3> QED BY <1>6, <1>11, <3>2 DEF TalkInv, WaitInv
    <2>9. WaitInv' BY <1>1, <2>1, <2>4, <2>8 DEF WaitInv
    <2>10. OneAfter(toWindow, op, 1) BY <1>6, <2>2 DEF TalkInv, OrderInv
    <2>11. OrderInv' BY <1>9, <1>10, <2>10 DEF OrderInv
    <2> QED BY <2>5, <2>7, <2>9, <2>11 DEF TalkInv
  <1>12. CASE ~(active /\ Head(toWindow).id = requestId)
    <2>1. UNCHANGED <<active, shown>> BY <1>12 DEF HandleEnd
    <2>2. TalkTypes' BY <1>1, <1>3, <2>1 DEF TalkInv, TalkTypes
    <2>3. OneStart' BY <1>1, <2>1 DEF TalkInv, StartInv, OneStart
    <2>4. StartInv' BY <1>1, <1>7, <1>8, <2>3 DEF TalkInv, StartInv
    <2>5. active /\ Ended(toWindow, requestId) => Ended(toWindow, requestId)'
      BY <1>1, <1>3, <1>5, <1>12 DEF Ended, IsEnd
    <2>6. active /\ EndInFlight => EndInFlight'
      <3>1. EndInFlight <=> Ended(toWindow, requestId) \/ StartWaits
        BY DEF EndInFlight, Ended, IsEnd, StartWaits
      <3>2. (EndInFlight <=> Ended(toWindow, requestId) \/ StartWaits)'
        BY DEF EndInFlight, Ended, IsEnd, StartWaits
      <3> QED BY <1>7, <2>5, <3>1, <3>2
    <2>7. active => silent \/ EndInFlight \/ (op.step \in Going /\ op.id = requestId)
      BY DEF TalkInv, WaitInv, Going
    <2>8. (active => silent \/ EndInFlight \/ (op.step \in Going /\ op.id = requestId))'
      BY <1>1, <2>1, <2>6, <2>7
    <2>9. (active => \A i \in DOMAIN toWindow : CompletedArrives(toWindow[i]) =>
                   settings = asked /\ accepted = asked.model)'
      BY <1>1, <1>4, <2>1 DEF TalkInv, WaitInv, CompletedArrives, IsEnd
    <2>10. CompletedIsTrue' BY <1>1, <2>1 DEF TalkInv, WaitInv, CompletedIsTrue
    <2>11. WaitInv' BY <1>1, <2>1, <2>8, <2>9, <2>10 DEF TalkInv, WaitInv, Going
    <2>12. (~active \/ StartWaits)' => OneAfter(toWindow, op, 0)'
      BY <1>7, <1>10, <2>1 DEF TalkInv, OrderInv
    <2>13. OrderInv' BY <1>9, <2>12 DEF OrderInv
    <2> QED BY <2>2, <2>4, <2>11, <2>13 DEF TalkInv
  <1> QED BY <1>11, <1>12

LEMMA ReplacedKeeps ==
  ASSUME DiskInv, TalkInv, HostIsReplaced
  PROVE  DiskInv' /\ TalkInv'
  <1>1. /\ op' = Idle /\ cancelled' = FALSE /\ workerStops' = FALSE
        /\ toHost' = << >> /\ toWindow' = << >> /\ silent' = FALSE
        /\ active' = FALSE /\ shown' = "none"
        /\ UNCHANGED <<partial, file, installed, settings, accepted, requestId, asked>>
    BY DEF HostIsReplaced, onDisk
  <1>2. Idle \in Ops /\ Idle.step = "idle" BY IdleFacts
  <1>3. OpTypes' /\ op'.step \in Over BY <1>1, <1>2 DEF OpTypes, Over
  <1>4. partial' \in [Artifacts -> Partials] BY <1>1 DEF DiskInv, DiskTypes
  <1>5. DiskInv' BY <1>1, <1>3, <1>4, EndedKeeps
  <1>6. op'.step = "idle" /\ "idle" \notin Working BY <1>1, <1>2, StepNames DEF Over
  <1>7. DOMAIN toHost' = {} /\ DOMAIN toWindow' = {} BY <1>1, EmptySeq
  <1>8. toHost' \in Seq(HostFrames) /\ toWindow' \in Seq(WindowFrames) BY <1>1, EmptySeq
  <1>9. TalkTypes' BY <1>1, <1>8 DEF TalkInv, TalkTypes
  <1>10. ~StartWaits' /\ OneStart' /\ ~Ended(toWindow, requestId)'
    BY <1>7 DEF StartWaits, OneStart, Ended
  <1>11. StartInv' BY <1>6, <1>10 DEF StartInv
  <1>12. CompletedIsTrue' BY <1>1 DEF CompletedIsTrue
  <1>13. WaitInv' BY <1>1, <1>6, <1>12 DEF WaitInv
  <1>14. OneAfter(toWindow, op, 0)'
    <2>1. 0 \in RequestIds BY DEF RequestIds
    <2> QED BY <1>6, <1>7, <2>1 DEF OneAfter
  <1>15. OrderInv' BY <1>7, <1>14 DEF OrderInv
  <1> QED BY <1>5, <1>9, <1>11, <1>13, <1>15 DEF TalkInv
-----------------------------------------------------------------------------
(* Every step.                                                             *)

QuietInstall ==
  \/ Prepare \/ FindInstalledRuntime \/ DownloadStep
  \/ VerifyModel \/ VerifyArchive
  \/ Extract \/ PublishRuntime \/ DeleteArchives
  \/ CheckModelFile \/ BuildRuntimeManifest
  \/ WriteConfiguration \/ WriteLicenseAcceptance

\* A setup that goes on tells the window nothing it acts on.
LEMMA QuietFrame ==
  ASSUME QuietInstall
  PROVE  UNCHANGED <<cancelled, workerStops, toHost, toWindow, window, silent>>
  <1> USE DEF OpAt, Quiet
  <1>1. CASE Prepare \/ FindInstalledRuntime \/ VerifyModel \/ VerifyArchive
    BY <1>1 DEF Prepare, FindInstalledRuntime, VerifyModel, VerifyArchive
  <1>2. CASE DownloadStep
    <2>1. CASE AnsweredWhole \/ AnsweredRange \/ AnsweredComplete \/ AnsweredMismatch
      BY <2>1 DEF AnsweredWhole, AnsweredRange, AnsweredComplete, AnsweredMismatch
    <2>2. CASE ConnectionFails \/ ReadChunk \/ ReadEnd
      BY <2>2 DEF ConnectionFails, ReadChunk, ReadEnd
    <2>3. CASE Retry \/ VerifyBad BY <2>3 DEF Retry, VerifyBad
    <2> QED BY <1>2, <2>1, <2>2, <2>3 DEF DownloadStep, DownloadOnce
  <1>3. CASE Extract \/ PublishRuntime BY <1>3 DEF Extract, PublishRuntime
  <1>4. CASE DeleteArchives BY <1>4 DEF DeleteArchives
  <1>5. CASE CheckModelFile \/ BuildRuntimeManifest
    BY <1>5 DEF CheckModelFile, BuildRuntimeManifest
  <1>6. CASE WriteConfiguration \/ WriteLicenseAcceptance
    BY <1>6 DEF WriteConfiguration, WriteLicenseAcceptance
  <1> QED BY <1>1, <1>2, <1>3, <1>4, <1>5, <1>6 DEF QuietInstall

LEMMA QuietDisk ==
  ASSUME DiskInv, QuietInstall
  PROVE  DiskInv' /\ op.step \in Working /\ op'.step \in Going /\ SameSetup
  <1>0. Downloading \cup {"model", "manifest", "config", "accept", "report", "find", "extract",
                          "publish", "cleanup", "prepare"} \subseteq Working
    BY StepNames DEF Configuring
  <1>1. CASE DownloadStep
    BY <1>0, <1>1, DownloadShape, DownloadKeeps DEF Going, SameItem
  <1>2. CASE Prepare BY <1>0, <1>2, PrepareKeeps DEF Going, Prepare, OpAt
  <1>3. CASE FindInstalledRuntime
    BY <1>0, <1>3, FindKeeps DEF Going, FindInstalledRuntime, OpAt, Downloading
  <1>4. CASE VerifyModel
    BY <1>0, <1>4, VerifyModelKeeps DEF Going, VerifyModel, OpAt, Downloading
  <1>5. CASE VerifyArchive
    BY <1>0, <1>5, VerifyArchiveKeeps DEF Going, VerifyArchive, OpAt, Downloading
  <1>6. CASE Extract BY <1>0, <1>6, ExtractKeeps DEF Going, Extract, OpAt
  <1>7. CASE PublishRuntime BY <1>0, <1>7, PublishRuntimeKeeps DEF Going, PublishRuntime, OpAt
  <1>8. CASE DeleteArchives BY <1>0, <1>8, DeleteKeeps DEF Going, DeleteArchives
  <1>9. CASE CheckModelFile
    BY <1>0, <1>9, CheckModelKeeps DEF Going, CheckModelFile, OpAt, Downloading
  <1>10. CASE BuildRuntimeManifest
    BY <1>0, <1>10, ManifestKeeps DEF Going, BuildRuntimeManifest, OpAt
  <1>11. CASE WriteConfiguration \/ WriteLicenseAcceptance
    BY <1>0, <1>11, WritesKeep DEF Going, WriteConfiguration, WriteLicenseAcceptance, OpAt
  <1> QED
    BY <1>1, <1>2, <1>3, <1>4, <1>5, <1>6, <1>7, <1>8, <1>9, <1>10, <1>11 DEF QuietInstall

LEMMA QuietInstallKeeps ==
  ASSUME SetupInv, QuietInstall
  PROVE  SetupInv'
  <1>1. DiskInv' /\ op.step \in Working /\ op'.step \in Going /\ SameSetup
    BY QuietDisk DEF SetupInv
  <1>2. /\ UNCHANGED <<cancelled, workerStops, toHost, toWindow, silent>>
        /\ UNCHANGED <<active, requestId, asked, shown>>
    BY QuietFrame DEF window
  <1>3. op.step # "idle" BY <1>1, StepNames DEF Over
  <1>4. cancelled' \in BOOLEAN /\ workerStops' \in BOOLEAN /\ silent' \in BOOLEAN
    BY <1>2 DEF SetupInv, TalkInv, TalkTypes
  <1>5. TalkInv' BY <1>1, <1>2, <1>3, <1>4, NothingSentKeeps DEF SetupInv, SameSetup
  <1> QED BY <1>1, <1>5 DEF SetupInv

\* A setup that comes to its end leaves the disk as it is.
LEMMA OverFacts ==
  ASSUME DiskInv, op.step # "idle", NEW s \in {"cancelled", "failed", "ending"}, OpGoes(s),
         UNCHANGED <<partial, file, installed, settings, accepted>>
  PROVE  DiskInv' /\ op'.step = s /\ SameSetup /\ op.id \in RequestIds
  <1>1. op \in Ops /\ s \in Steps BY StepNames DEF DiskInv, OpTypes, Over
  <1>2. op' \in Ops /\ op'.step = s /\ SameItem BY <1>1, GoesFacts
  <1>3. OpTypes' BY <1>2, SameTypes DEF DiskInv
  <1>4. partial' \in [Artifacts -> Partials] BY DEF DiskInv, DiskTypes
  <1>5. op'.step \in Over BY <1>2 DEF Over
  <1>6. DiskInv' BY <1>3, <1>4, <1>5, EndedKeeps
  <1> QED BY <1>1, <1>2, <1>6 DEF Ops, SameItem

LEMMA SetupCancelledKeeps ==
  ASSUME SetupInv, SetupCancelled
  PROVE  SetupInv'
  <1>1. /\ op.step \in Awaiting /\ OpGoes("cancelled")
        /\ UNCHANGED <<partial, file, installed, settings, accepted>>
        /\ UNCHANGED <<cancelled, workerStops, toHost>>
        /\ UNCHANGED <<active, requestId, asked, shown>>
    BY DEF SetupCancelled, onDisk, window
  <1>2. op.step \in Working /\ op.step # "idle" BY <1>1, StepNames DEF Working, Over
  <1>3. DiskInv' /\ op'.step = "cancelled" /\ SameSetup /\ op.id \in RequestIds
    BY <1>1, <1>2, OverFacts DEF SetupInv
  <1>4. op.step \in Going /\ op'.step \in Going BY <1>2, <1>3 DEF Going
  <1>5. cancelled' \in BOOLEAN /\ workerStops' \in BOOLEAN /\ silent \in BOOLEAN
    BY <1>1 DEF SetupInv, TalkInv, TalkTypes
  <1>6. ASSUME UNCHANGED <<toWindow, silent>> PROVE TalkInv'
    BY <1>1, <1>2, <1>3, <1>4, <1>5, <1>6, NothingSentKeeps DEF SetupInv, SameSetup
  <1>7. ASSUME toWindow' = Append(toWindow, CutFrame), silent' = TRUE PROVE TalkInv'
    <2>1. CutFrame \in WindowFrames /\ CutFrame.kind # "end" BY FrameFacts
    <2> QED
      BY <1>1, <1>3, <1>4, <1>7, <2>1, SentKeeps DEF SetupInv, DiskInv, SameSetup
  <1>8. ASSUME op.step = "report", toWindow' = Append(toWindow, Terminal(op.id, "completed")),
               UNCHANGED silent
        PROVE  TalkInv'
    <2> DEFINE f == Terminal(op.id, "completed")
    <2>1. f \in WindowFrames /\ f.id = op.id /\ f.kind = "end"
      BY <1>3, FrameFacts DEF Outcomes
    <2>2. toWindow' = Append(toWindow, f) BY <1>8
    <2> HIDE DEF f
    <2> QED
      BY <1>1, <1>3, <1>4, <1>8, <2>1, <2>2, SentKeeps DEF SetupInv, DiskInv, SameSetup
  <1>9. TalkInv' BY <1>6, <1>7, <1>8 DEF SetupCancelled, Quiet
  <1> QED BY <1>3, <1>9 DEF SetupInv

LEMMA SetupFailsKeeps ==
  ASSUME SetupInv, SetupFails
  PROVE  SetupInv'
  <1>1. /\ op.step \in Awaiting /\ OpGoes("failed")
        /\ UNCHANGED <<partial, file, installed, settings, accepted>>
        /\ UNCHANGED <<cancelled, workerStops, toHost, toWindow, silent>>
        /\ UNCHANGED <<active, requestId, asked, shown>>
    BY DEF SetupFails, onDisk, window, OpAt, Quiet
  <1>2. op.step \in Working /\ op.step # "idle" BY <1>1, StepNames DEF Working, Over
  <1>3. DiskInv' /\ op'.step = "failed" /\ SameSetup BY <1>1, <1>2, OverFacts DEF SetupInv
  <1>4. op'.step \in Going BY <1>3 DEF Going
  <1>5. cancelled' \in BOOLEAN /\ workerStops' \in BOOLEAN /\ silent' \in BOOLEAN
    BY <1>1 DEF SetupInv, TalkInv, TalkTypes
  <1>6. TalkInv' BY <1>1, <1>2, <1>3, <1>4, <1>5, NothingSentKeeps DEF SetupInv, SameSetup
  <1> QED BY <1>3, <1>6 DEF SetupInv

LEMMA TryReportKeeps ==
  ASSUME SetupInv, TryReportTerminal
  PROVE  SetupInv'
  <1>1. /\ op.step \in {"cancelled", "failed"} /\ OpGoes("ending")
        /\ UNCHANGED <<partial, file, installed, settings, accepted>>
        /\ UNCHANGED <<cancelled, workerStops, toHost>>
        /\ UNCHANGED <<active, requestId, asked, shown>>
    BY DEF TryReportTerminal, onDisk, window
  <1>2. op.step \in Going /\ op.step # "idle" BY <1>1 DEF Going
  <1>3. DiskInv' /\ op'.step = "ending" /\ SameSetup /\ op.id \in RequestIds
    BY <1>1, <1>2, OverFacts DEF SetupInv
  <1>4. op'.step \notin Working BY <1>3, StepNames DEF Over
  <1>5. cancelled' \in BOOLEAN /\ workerStops' \in BOOLEAN
    BY <1>1 DEF SetupInv, TalkInv, TalkTypes
  <1>6. ASSUME toWindow' = Append(toWindow, Terminal(op.id, op.step)), UNCHANGED silent
        PROVE  TalkInv'
    <2> DEFINE f == Terminal(op.id, op.step)
    <2>1. op.step \in Outcomes /\ op.step # "completed" BY <1>1 DEF Outcomes
    <2>2. f \in WindowFrames /\ f.id = op.id /\ f.kind = "end" /\ f.stage # "completed"
      BY <1>3, <2>1, FrameFacts
    <2>3. toWindow' = Append(toWindow, f) BY <1>6
    <2> HIDE DEF f
    <2> QED
      BY <1>1, <1>2, <1>3, <1>6, <2>2, <2>3, SentKeeps DEF SetupInv, DiskInv, SameSetup
  <1>7. ASSUME toWindow' = Append(toWindow, CutFrame), silent' = TRUE PROVE TalkInv'
    <2>1. CutFrame \in WindowFrames /\ CutFrame.kind # "end" BY FrameFacts
    <2> QED
      BY <1>1, <1>2, <1>3, <1>7, <2>1, SentKeeps DEF SetupInv, DiskInv, SameSetup
  <1>8. ASSUME toWindow' = toWindow, silent' = TRUE PROVE TalkInv'
    BY <1>1, <1>2, <1>3, <1>4, <1>5, <1>8, NothingSentKeeps DEF SetupInv, SameSetup
  <1>9. TalkInv' BY <1>6, <1>7, <1>8 DEF TryReportTerminal
  <1> QED BY <1>3, <1>9 DEF SetupInv

LEMMA SetupEndsKeeps ==
  ASSUME SetupInv, SetupEnds
  PROVE  SetupInv'
  <1>1. /\ op.step = "ending" /\ op' = Idle /\ cancelled' = FALSE
        /\ UNCHANGED <<partial, file, installed, settings, accepted>>
        /\ UNCHANGED <<workerStops, toHost, toWindow, silent>>
        /\ UNCHANGED <<active, requestId, asked, shown>>
    BY DEF SetupEnds, onDisk, window, Quiet
  <1>2. op' \in Ops /\ op'.step = "idle" BY <1>1, IdleFacts
  <1>3. OpTypes' /\ op'.step \in Over BY <1>2 DEF OpTypes, Over
  <1>4. partial' \in [Artifacts -> Partials] BY <1>1 DEF SetupInv, DiskInv, DiskTypes
  <1>5. DiskInv' BY <1>1, <1>3, <1>4, EndedKeeps DEF SetupInv
  <1>6. op.step \notin Going /\ op'.step \notin Working
    BY <1>1, <1>2, StepNames DEF Over, Going
  <1>7. cancelled' \in BOOLEAN /\ workerStops' \in BOOLEAN /\ silent' \in BOOLEAN
    BY <1>1 DEF SetupInv, TalkInv, TalkTypes
  <1>8. TalkInv' BY <1>1, <1>2, <1>6, <1>7, NothingSentKeeps DEF SetupInv
  <1> QED BY <1>5, <1>8 DEF SetupInv

LEMMA CompletedKeeps ==
  ASSUME SetupInv, ReportCompleted
  PROVE  SetupInv'
  <1>1. /\ op.step = "report" /\ OpGoes("ending")
        /\ UNCHANGED <<partial, file, installed, settings, accepted>>
        /\ UNCHANGED <<cancelled, workerStops, toHost, silent>>
        /\ UNCHANGED <<active, requestId, asked, shown>>
        /\ toWindow' = Append(toWindow, Terminal(op.id, "completed"))
    BY DEF ReportCompleted, onDisk, window, OpAt
  <1>2. op.step \in Going /\ op.step # "idle" BY <1>1, StepNames DEF Going, Configuring
  <1>3. DiskInv' /\ op'.step = "ending" /\ SameSetup /\ op.id \in RequestIds
    BY <1>1, <1>2, OverFacts DEF SetupInv
  <1> DEFINE f == Terminal(op.id, "completed")
  <1>4. f \in WindowFrames /\ f.id = op.id /\ f.kind = "end"
    BY <1>3, FrameFacts DEF Outcomes
  <1>5. toWindow' = Append(toWindow, f) BY <1>1
  <1> HIDE DEF f
  <1>6. TalkInv'
    BY <1>1, <1>2, <1>3, <1>4, <1>5, SentKeeps DEF SetupInv, DiskInv, SameSetup
  <1> QED BY <1>3, <1>6 DEF SetupInv

\* A step of the window or of the queues leaves the disk and the setup alone.
LEMMA DiskStays ==
  ASSUME DiskInv, UNCHANGED <<onDisk, op>>
  PROVE  DiskInv'
  <1>1. UNCHANGED <<partial, file, installed, settings, accepted>> BY DEF onDisk
  <1>2. partial' \in [Artifacts -> Partials] BY <1>1 DEF DiskInv, DiskTypes
  <1>3. DiskTypes' /\ InstalledInv' /\ SettingsAreVerified' BY <1>1, <1>2, OthersKept
  <1>4. OpTypes' BY DEF DiskInv, OpTypes, ArchivesOf
  <1>5. ProgressInv'
    BY <1>1 DEF DiskInv, ProgressInv, Configuring, Whole, IsArchive, ArchivesOf
  <1> QED BY <1>3, <1>4, <1>5 DEF DiskInv

LEMMA TryStartKeeps ==
  ASSUME SetupInv, TryStart
  PROVE  SetupInv'
  <1>1. /\ toHost # << >> /\ Head(toHost).kind = "start" /\ toHost' = Tail(toHost)
        /\ UNCHANGED <<onDisk, workerStops, window>>
    BY DEF TryStart
  <1>2. ASSUME op.step = "idle", UNCHANGED <<toWindow, silent>>, cancelled' = FALSE,
               op' = Begun(Head(toHost))
        PROVE  SetupInv'
    BY <1>1, <1>2, AcceptKeeps DEF SetupInv
  <1>3. ASSUME op.step # "idle", UNCHANGED <<op, cancelled, silent>>,
               toWindow' = Append(toWindow, Refused(Head(toHost).id))
        PROVE  SetupInv'
    <2>1. TalkInv' BY <1>1, <1>3, RefuseKeeps DEF SetupInv
    <2>2. DiskInv' BY <1>1, <1>3, DiskStays DEF SetupInv
    <2> QED BY <2>1, <2>2 DEF SetupInv
  <1> QED BY <1>2, <1>3 DEF TryStart, Quiet, Begun

LEMMA SetupInitInv ==
  ASSUME SetupInit
  PROVE  SetupInv
  <1>1. Idle \in Ops /\ Idle.step = "idle" BY IdleFacts
  <1>2. op = Idle /\ op.step = "idle" BY <1>1 DEF SetupInit
  <1>3. op.step \notin Working BY <1>2, StepNames DEF Over
  <1>4. OpTypes BY <1>1, <1>2 DEF OpTypes
  <1>5. DiskTypes
    <2>1. Nothing \in Partials BY Constants DEF Nothing, Partials
    <2>2. partial \in [Artifacts -> Partials] BY <2>1 DEF SetupInit
    <2>3. file \in [Models -> {"none", "good", "bad"}] BY DEF SetupInit
    <2>4. installed \in [Backends -> SUBSET Artifacts] BY DEF SetupInit
    <2> QED BY <2>2, <2>3, <2>4 DEF SetupInit, DiskTypes
  <1>6. InstalledInv BY DEF SetupInit, InstalledInv
  <1>7. ProgressInv BY <1>2 DEF ProgressInv, Configuring
  <1>8. SettingsAreVerified BY DEF SetupInit, SettingsAreVerified
  <1>9. DiskInv BY <1>4, <1>5, <1>6, <1>7, <1>8 DEF DiskInv
  <1>10. toHost = << >> /\ toWindow = << >> /\ active = FALSE /\ shown = "none"
    BY DEF SetupInit
  <1>11. DOMAIN toHost = {} /\ DOMAIN toWindow = {} BY <1>10, EmptySeq
  <1>12. TalkTypes
    <2>1. toHost \in Seq(HostFrames) /\ toWindow \in Seq(WindowFrames) BY <1>10, EmptySeq
    <2>2. 0 \in RequestIds BY DEF RequestIds
    <2> QED BY <2>1, <2>2 DEF SetupInit, TalkTypes
  <1>13. StartInv BY <1>3, <1>11 DEF StartInv, StartWaits, OneStart
  <1>14. CompletedIsTrue BY <1>10 DEF CompletedIsTrue
  <1>15. WaitInv BY <1>3, <1>10, <1>14 DEF WaitInv
  <1>16. OneAfter(toWindow, op, 0)
    <2>1. 0 \in RequestIds BY DEF RequestIds
    <2> QED BY <1>2, <1>11, <2>1 DEF OneAfter
  <1>17. OrderInv BY <1>11, <1>16 DEF OrderInv
  <1> QED BY <1>9, <1>12, <1>13, <1>15, <1>17 DEF SetupInv, TalkInv

LEMMA SetupNextInv ==
  ASSUME SetupInv, [SetupNext]_setupVars
  PROVE  SetupInv'
  <1>1. CASE Coordinator
    <2>1. CASE TryStart BY <2>1, TryStartKeeps
    <2>2. CASE RecvCancel
      <3>1. TalkInv' BY <2>2, RecvCancelKeeps DEF SetupInv
      <3>2. DiskInv' BY <2>2, DiskStays DEF SetupInv, RecvCancel
      <3> QED BY <3>1, <3>2 DEF SetupInv
    <2>3. CASE StopAsync
      <3>1. TalkInv' BY <2>3, StopAsyncKeeps DEF SetupInv
      <3>2. DiskInv' BY <2>3, DiskStays DEF SetupInv, StopAsync
      <3> QED BY <3>1, <3>2 DEF SetupInv
    <2>4. CASE SetupCancelled BY <2>4, SetupCancelledKeeps
    <2>5. CASE SetupFails BY <2>5, SetupFailsKeeps
    <2>6. CASE TryReportTerminal BY <2>6, TryReportKeeps
    <2>7. CASE SetupEnds BY <2>7, SetupEndsKeeps
    <2> QED BY <1>1, <2>1, <2>2, <2>3, <2>4, <2>5, <2>6, <2>7 DEF Coordinator
  <1>2. CASE Install
    <2>1. QuietInstall \/ ReportCompleted
      BY <1>2 DEF Install, QuietInstall, DownloadStep
    <2> QED BY <2>1, QuietInstallKeeps, CompletedKeeps
  <1>3. CASE Window
    <2>1. CASE \E r \in Requests : OnAiSetupClick(r)
      <3>1. PICK r \in Requests : OnAiSetupClick(r) BY <2>1
      <3>2. TalkInv' BY <3>1, SetupClickKeeps DEF SetupInv
      <3>3. DiskInv' BY <3>1, DiskStays DEF SetupInv, OnAiSetupClick, WindowFrame, host
      <3> QED BY <3>2, <3>3 DEF SetupInv
    <2>2. CASE OnAiSetupCancelClick
      <3>1. TalkInv' BY <2>2, CancelClickKeeps DEF SetupInv
      <3>2. DiskInv' BY <2>2, DiskStays DEF SetupInv, OnAiSetupCancelClick, WindowFrame, host
      <3> QED BY <3>1, <3>2 DEF SetupInv
    <2>3. CASE HandleEnd
      <3>1. TalkInv' BY <2>3, HandleEndKeeps DEF SetupInv
      <3>2. DiskInv' BY <2>3, DiskStays DEF SetupInv, HandleEnd, WindowFrame, host
      <3> QED BY <3>1, <3>2 DEF SetupInv
    <2> QED BY <1>3, <2>1, <2>2, <2>3 DEF Window
  <1>4. CASE Host
    <2>1. HostIsReplaced BY <1>4 DEF Host, HostCrashes, CutFrameIsRead, HostStops
    <2> QED BY <2>1, ReplacedKeeps DEF SetupInv
  <1>5. CASE UNCHANGED setupVars
    <2>1. /\ UNCHANGED <<op, cancelled, workerStops, toHost, toWindow, window, silent>>
          /\ UNCHANGED onDisk
      BY <1>5 DEF setupVars, host
    <2>2. DiskInv' BY <2>1, DiskStays DEF SetupInv
    <2>3. /\ UNCHANGED <<active, requestId, asked, shown, settings, accepted>>
      BY <2>1 DEF window, onDisk
    <2>4. cancelled' \in BOOLEAN /\ workerStops' \in BOOLEAN /\ silent' \in BOOLEAN
      BY <2>1 DEF SetupInv, TalkInv, TalkTypes
    <2>5. TalkInv' BY <2>1, <2>3, <2>4, NothingSentKeeps DEF SetupInv, SameSetup
    <2> QED BY <2>2, <2>5 DEF SetupInv
  <1> QED BY <1>1, <1>2, <1>3, <1>4, <1>5 DEF SetupNext

\* The inductive invariant of the setup.
THEOREM SetupInvariant == SetupSpec => []SetupInv
  <1>1. SetupInit => SetupInv BY SetupInitInv
  <1>2. SetupInv /\ [SetupNext]_setupVars => SetupInv' BY SetupNextInv
  <1> QED BY <1>1, <1>2, PTL DEF SetupSpec

\* Types of LocalModelSetup.
THEOREM SetupTypeCorrect == SetupSpec => []SetupTypeOK
  <1>1. SetupInv => SetupTypeOK
    <2> SUFFICES ASSUME SetupInv PROVE SetupTypeOK OBVIOUS
    <2>1. DiskTypes /\ TalkTypes /\ op \in Ops BY DEF SetupInv, DiskInv, TalkInv, OpTypes
    <2>2. op.request \in Requests \cup {NoRequest} BY <2>1 DEF Ops
    <2>3. partial \in [Artifacts -> [len : 0 .. Size + 1, clean : BOOLEAN]]
      BY <2>1 DEF DiskTypes, Partials
    <2> QED BY <2>1, <2>2, <2>3 DEF SetupTypeOK, DiskTypes, TalkTypes
  <1> QED BY <1>1, SetupInvariant, PTL

\* What the window was told of a setup is true (LocalModelSetupCoordinator.RunAsync).
THEOREM WindowAlwaysTold == SetupSpec => []WindowIsTold
  <1>1. SetupInv => WindowIsTold
    <2> SUFFICES ASSUME SetupInv PROVE WindowIsTold OBVIOUS
    <2>1. CompletedIsTrue /\ WaitInv BY DEF SetupInv, TalkInv, WaitInv
    <2>2. op.step \in Awaiting \cup {"cleanup"} =>
            active /\ op.id = requestId /\ op.request = asked
      BY <2>1 DEF WaitInv, Working
    <2>3. ASSUME op.step = "idle", ~workerStops, ~EndInFlight PROVE ~active \/ silent
      <3>1. op.step \notin Working \cup {"cancelled", "failed"}
        BY <2>3, StepNames DEF Over
      <3> QED BY <2>1, <2>3, <3>1 DEF WaitInv
    <2>4. EndIsTold BY <2>2, <2>3 DEF EndIsTold
    <2> QED BY <2>1, <2>4 DEF WindowIsTold
  <1> QED BY <1>1, SetupInvariant, PTL

KeepsDownloads ==
  \A a \in Artifacts :
    partial'[a].len < partial[a].len =>
      \/ a = Item /\ op.step = "send" /\ op'.step \in {"read", "retry"}
      \/ a = Item /\ op.step = "verify" /\ op'.step \in {"failed", "manifest"}
      \/ op.step = "cleanup" /\ installed[op.request.backend] = SetOf(ArchivesOf)

LEMMA PartialSame ==
  ASSUME DiskInv, UNCHANGED partial
  PROVE  KeepsDownloads
  <1>1. \A a \in Artifacts : partial[a].len \in Nat
    BY Constants DEF DiskInv, DiskTypes, Partials
  <1> QED BY <1>1 DEF KeepsDownloads

LEMMA OnlyItem ==
  ASSUME DiskInv, op.step # "idle", NEW v, partial' = [partial EXCEPT ![Item] = v],
         NEW a \in Artifacts, partial'[a].len < partial[a].len
  PROVE  a = Item
  <1>1. partial \in [Artifacts -> Partials] /\ Item \in Artifacts
    BY PartialFacts, ItemFacts DEF DiskInv
  <1>2. partial[a].len \in Nat BY <1>1, Constants DEF Partials
  <1>3. a # Item => partial'[a] = partial[a] BY <1>1
  <1> QED BY <1>2, <1>3

LEMMA DownloadsKept ==
  ASSUME SetupInv, [SetupNext]_setupVars
  PROVE  KeepsDownloads
  <1> USE DEF OpAt
  <1>0. DiskInv /\ op \in Ops BY DEF SetupInv, DiskInv, OpTypes
  <1>1. CASE AnsweredWhole \/ AnsweredMismatch
    <2>1. /\ op.step = "send" /\ op.step # "idle" /\ op'.step \in {"read", "retry"}
      BY <1>0, <1>1 DEF AnsweredWhole, AnsweredMismatch, OpGoes, Ops
    <2>2. PICK left \in BOOLEAN : partial' = TryDelete(partial, Item, left)
      BY <1>1 DEF AnsweredWhole, AnsweredMismatch
    <2>3. CASE left BY <1>0, <2>2, <2>3, PartialSame DEF TryDelete
    <2>4. CASE ~left
      <3>1. partial' = [partial EXCEPT ![Item] = Nothing] BY <2>2, <2>4 DEF TryDelete
      <3>2. \A a \in Artifacts : partial'[a].len < partial[a].len => a = Item
        BY <1>0, <2>1, <3>1, OnlyItem
      <3> QED BY <2>1, <3>2 DEF KeepsDownloads
    <2> QED BY <2>3, <2>4
  <1>2. CASE ReadChunk
    <2>1. op.step # "idle" BY <1>2 DEF ReadChunk
    <2>2. PICK good \in BOOLEAN :
            partial' = [partial EXCEPT ![Item] =
              [len |-> Longer(@.len), clean |-> @.clean /\ good /\ @.len = op.received]]
      BY <1>2 DEF ReadChunk
    <2>3. partial \in [Artifacts -> Partials] /\ Item \in Artifacts
      BY <1>0, <2>1, PartialFacts, ItemFacts DEF DiskInv
    <2>4. partial'[Item].len = Longer(partial[Item].len) BY <2>2, <2>3
    <2>5. partial[Item].len \in Nat BY <2>3, Constants DEF Partials
    <2>6. ~(partial'[Item].len < partial[Item].len) BY <2>4, <2>5, Constants DEF Longer
    <2>7. \A a \in Artifacts : partial'[a].len < partial[a].len => a = Item
      BY <1>0, <2>1, <2>2, OnlyItem
    <2> QED BY <2>6, <2>7 DEF KeepsDownloads
  <1>3. CASE VerifyBad \/ VerifyModel
    <2>1. /\ op.step = "verify" /\ op.step # "idle" /\ op'.step \in {"failed", "manifest"}
          /\ partial' = [partial EXCEPT ![Item] = Nothing]
      BY <1>0, <1>3 DEF VerifyBad, VerifyModel, OpGoes, Ops, MovedAway
    <2>2. \A a \in Artifacts : partial'[a].len < partial[a].len => a = Item
      BY <1>0, <2>1, OnlyItem
    <2> QED BY <2>1, <2>2 DEF KeepsDownloads
  <1>4. CASE DeleteArchives
    <2>1. op.step = "cleanup" BY <1>4 DEF DeleteArchives
    <2>2. installed[op.request.backend] = SetOf(ArchivesOf)
      BY <2>1 DEF SetupInv, DiskInv, ProgressInv, Whole, ArchivesOf
    <2> QED BY <2>1, <2>2 DEF KeepsDownloads
  <1>5. ASSUME UNCHANGED partial PROVE KeepsDownloads BY <1>0, <1>5, PartialSame
  <1>6. CASE AnsweredRange \/ AnsweredComplete \/ ConnectionFails \/ ReadEnd \/ Retry
    BY <1>5, <1>6 DEF AnsweredRange, AnsweredComplete, ConnectionFails, ReadEnd, Retry, onDisk
  <1>7. CASE \/ Prepare \/ FindInstalledRuntime \/ VerifyArchive \/ Extract
             \/ PublishRuntime \/ CheckModelFile
    BY <1>5, <1>7 DEF Prepare, FindInstalledRuntime, VerifyArchive, Extract, PublishRuntime,
                      CheckModelFile, onDisk
  <1>8. CASE \/ BuildRuntimeManifest \/ WriteConfiguration \/ WriteLicenseAcceptance
             \/ ReportCompleted
    BY <1>5, <1>8 DEF BuildRuntimeManifest, WriteConfiguration, WriteLicenseAcceptance,
                      ReportCompleted, onDisk
  <1>9. CASE Coordinator
    BY <1>5, <1>9 DEF Coordinator, TryStart, RecvCancel, StopAsync, SetupCancelled,
                      SetupFails, TryReportTerminal, SetupEnds, onDisk
  <1>10. CASE Window
    BY <1>5, <1>10 DEF Window, OnAiSetupClick, OnAiSetupCancelClick, HandleEnd, WindowFrame,
                       onDisk
  <1>11. CASE Host
    BY <1>5, <1>11 DEF Host, HostCrashes, CutFrameIsRead, HostStops, HostIsReplaced, onDisk
  <1>12. CASE UNCHANGED setupVars BY <1>5, <1>12 DEF setupVars, onDisk
  <1>13. CASE Install
    BY <1>1, <1>2, <1>3, <1>4, <1>6, <1>7, <1>8, <1>13 DEF Install, DownloadOnce
  <1> QED BY <1>9, <1>10, <1>11, <1>12, <1>13 DEF SetupNext

\* The settings on disk name verified files, and no download is thrown away but by a
\* check or an answer of the server (DownloadAndVerifyAsync, InstallRuntimeAsync).
THEOREM DiskAlwaysSound == SetupSpec => DiskIsSound
  <1>1. SetupInv => SettingsAreVerified BY DEF SetupInv, DiskInv
  <1>2. SetupInv /\ [SetupNext]_setupVars => [KeepsDownloads]_setupVars BY DownloadsKept
  <1>3. SetupSpec => []SettingsAreVerified BY <1>1, SetupInvariant, PTL
  <1>4. SetupSpec => [][KeepsDownloads]_setupVars
    BY <1>2, SetupInvariant, PTL DEF SetupSpec
  <1>5. SetupSpec => DownloadsAreKept BY <1>4 DEF DownloadsAreKept, KeepsDownloads
  <1> QED BY <1>3, <1>5 DEF DiskIsSound
=============================================================================
