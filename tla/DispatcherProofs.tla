------------------------- MODULE DispatcherProofs -------------------------
(***************************************************************************)
(* The safety of McpDispatcher for any number of workers and any limit.     *)
(***************************************************************************)
EXTENDS McpDispatcher, FiniteSetTheorems, TLAPS

\* The initial state satisfies the inductive invariant.
LEMMA InitInv == Init => IInv
  <1>1. SUFFICES ASSUME Init PROVE IInv OBVIOUS
  <1>2. TypeOK
    <2>1. IsFiniteSet(commands) /\ Cardinality(commands) <= QueueLimit
      <3>1. commands = {} BY <1>1 DEF Init
      <3>2. IsFiniteSet({}) /\ Cardinality({}) = 0 BY FS_EmptySet
      <3> QED BY <3>1, <3>2, DispatcherAssumption
    <2> QED
      BY <1>1, <2>1, DispatcherAssumption
      DEF Init, TypeOK, WorkersTypeOK, QueueTypeOK, RenderTypeOK, HistoryTypeOK, AccessModes,
          WorkerSteps, RenderSteps, Answers, Frame, NoRequest
  <1>3. HolderInv /\ RenderInv /\ OutcomeInv /\ AuthorityInv
    BY <1>1, DispatcherAssumption
    DEF Init, HolderInv, Held, RenderInv, OutcomeInv, AuthorityInv, Authorized, Frame, NoRequest,
        Outcomes
  <1> QED BY <1>2, <1>3 DEF IInv

\* What settling promises does to the types.
LEMMA SetValueType ==
  ASSUME QueueTypeOK, HistoryTypeOK, NEW ws, NEW outcome \in Outcomes, SetValue(ws, outcome)
  PROVE  /\ promise' \in [Workers -> Outcomes \cup {"none"}]
         /\ sets' \in [Workers -> Nat]
  BY DEF QueueTypeOK, HistoryTypeOK, SetValue

\* What a worker's answer does to the types.
LEMMA AnswerType ==
  ASSUME TypeOK, NEW w \in Workers, NEW answer \in Answers, Answer(w, answer)
  PROVE  /\ worker' \in [Workers -> WorkerSteps]
         /\ told' \in [Workers -> Answers]
  BY DEF TypeOK, WorkersTypeOK, HistoryTypeOK, Answer, WorkerSteps

\* Taking commands out of the queue keeps it within its limit.
LEMMA SmallerQueue ==
  ASSUME QueueTypeOK, NEW ws, ws \subseteq commands
  PROVE  IsFiniteSet(ws) /\ Cardinality(ws) <= QueueLimit
  <1>1. IsFiniteSet(ws) /\ Cardinality(ws) <= Cardinality(commands)
    BY FS_Subset DEF QueueTypeOK
  <1>2. Cardinality(ws) \in Nat /\ Cardinality(commands) \in Nat
    BY <1>1, FS_CardinalityType DEF QueueTypeOK
  <1> QED BY <1>1, <1>2, DispatcherAssumption DEF QueueTypeOK

\* A command that is taken out to run was queued and may run.
LEMMA FirstEligibleWorks ==
  ASSUME NEW ws \in SUBSET Workers, NEW ready \in FirstEligible(ws)
  PROVE  ready = None \/ (ready \in ws /\ Eligible(ready))
  BY DEF FirstEligible

\* Each kind of step keeps the types.
LEMMA WorkerStepType ==
  ASSUME TypeOK, NEW w \in Workers,
         \/ \E mutation, granted \in BOOLEAN : ReadSettings(w, mutation, granted)
         \/ WorkerTask(w) \/ DeadlinePasses(w)
  PROVE  TypeOK'
  <1> USE DispatcherAssumption
  <1>1. CASE \E mutation, granted \in BOOLEAN : ReadSettings(w, mutation, granted)
    <2>1. PICK mutation \in BOOLEAN, granted \in BOOLEAN : ReadSettings(w, mutation, granted)
      BY <1>1
    <2>2. /\ worker' \in [Workers -> WorkerSteps] /\ told' \in [Workers -> Answers]
      <3>1. CASE Answer(w, "readOnly") BY <3>1, AnswerType DEF Answers
      <3>2. CASE worker' = [worker EXCEPT ![w] = "submit"] /\ UNCHANGED told
        BY <3>2 DEF TypeOK, WorkersTypeOK, HistoryTypeOK, WorkerSteps
      <3> QED BY <2>1, <3>1, <3>2 DEF ReadSettings
    <2>3. request' \in [Workers -> [mutation: BOOLEAN, granted: BOOLEAN, mode: AccessModes]]
      BY <2>1 DEF ReadSettings, TypeOK, WorkersTypeOK, RenderTypeOK
    <2> QED
      BY <2>1, <2>2, <2>3 DEF ReadSettings, queueVars, TypeOK, WorkersTypeOK, QueueTypeOK,
         RenderTypeOK, HistoryTypeOK
  <1>2. CASE Submit(w)
    <2>1. CASE Cardinality(commands) >= QueueLimit
      <3>1. worker' \in [Workers -> WorkerSteps] /\ told' \in [Workers -> Answers]
        BY <1>2, <2>1, AnswerType DEF Submit, Answers
      <3> QED
        BY <1>2, <2>1, <3>1 DEF Submit, TypeOK, WorkersTypeOK, QueueTypeOK, RenderTypeOK,
           HistoryTypeOK
    <2>2. CASE ~(Cardinality(commands) >= QueueLimit)
      <3>1. IsFiniteSet(commands \cup {w})
            /\ Cardinality(commands \cup {w}) \in {Cardinality(commands), Cardinality(commands) + 1}
        BY FS_AddElement DEF TypeOK, QueueTypeOK
      <3>2. Cardinality(commands) \in Nat BY FS_CardinalityType DEF TypeOK, QueueTypeOK
      <3>3. Cardinality(commands \cup {w}) <= QueueLimit BY <2>2, <3>1, <3>2
      <3>4. worker' \in [Workers -> WorkerSteps]
        BY <1>2, <2>2 DEF Submit, TypeOK, WorkersTypeOK, WorkerSteps
      <3>5. QueueTypeOK'
        <4>1. /\ commands' = commands \cup {w}
              /\ id' = [id EXCEPT ![w] = nextId] /\ nextId' = nextId + 1
              /\ UNCHANGED <<approved, promise>>
          BY <1>2, <2>2 DEF Submit
        <4>2. IsFiniteSet(commands') /\ Cardinality(commands') <= QueueLimit
          BY <3>1, <3>3, <4>1
        <4>3. id' \in [Workers -> Nat] /\ nextId' \in Nat
          BY <4>1 DEF TypeOK, QueueTypeOK
        <4> QED BY <4>1, <4>2, <4>3 DEF TypeOK, QueueTypeOK
      <3> QED
        BY <1>2, <2>2, <3>4, <3>5 DEF Submit, TypeOK, WorkersTypeOK, RenderTypeOK, HistoryTypeOK
    <2> QED BY <2>1, <2>2
  <1>3. CASE GetResult(w)
    <2>1. promise[w] \in Answers BY <1>3 DEF TypeOK, QueueTypeOK, Answers
    <2>2. worker' \in [Workers -> WorkerSteps] /\ told' \in [Workers -> Answers]
      BY <1>3, <2>1, AnswerType DEF GetResult
    <2> QED
      BY <1>3, <2>2 DEF GetResult, queueVars, TypeOK, WorkersTypeOK, QueueTypeOK, RenderTypeOK,
         HistoryTypeOK
  <1>4. CASE WaitTimesOut(w) \/ DeadlinePasses(w)
    BY <1>4 DEF WaitTimesOut, DeadlinePasses, queueVars, history, TypeOK, WorkersTypeOK,
       QueueTypeOK, RenderTypeOK, HistoryTypeOK, WorkerSteps
  <1>5. CASE Cancel(w)
    <2>1. worker' \in [Workers -> WorkerSteps] /\ told' \in [Workers -> Answers]
      BY <1>5, AnswerType DEF Cancel, Answers
    <2>2. /\ promise' \in [Workers -> Outcomes \cup {"none"}] /\ sets' \in [Workers -> Nat]
      BY <1>5, SetValueType DEF Cancel, TypeOK, Outcomes
    <2>3. IsFiniteSet(commands') /\ Cardinality(commands') <= QueueLimit
      BY <1>5, SmallerQueue DEF Cancel, TypeOK
    <2> QED
      BY <1>5, <2>1, <2>2, <2>3 DEF Cancel, TypeOK, WorkersTypeOK, QueueTypeOK, RenderTypeOK,
         HistoryTypeOK
  <1> QED BY <1>1, <1>2, <1>3, <1>4, <1>5 DEF WorkerTask

LEMMA RenderStepType ==
  ASSUME TypeOK,
         \/ RenderThread \/ StopMcpServer
         \/ \E w \in Workers : Approve(w) \/ Reject(w)
         \/ \E mode \in Modes : SetAccessMode(mode)
  PROVE  TypeOK'
  <1> USE DispatcherAssumption
  <1>1. CASE ProcessOne
    <2>1. PICK ready \in FirstEligible(commands \ late) : TakeOut(commands \cap late, ready)
      BY <1>1 DEF ProcessOne
    <2>2. commands \ late \in SUBSET Workers BY DEF TypeOK, QueueTypeOK
    <2>3. ready \in Workers \cup {None} BY <2>2, FirstEligibleWorks
    <2>4. IsFiniteSet(commands') /\ Cardinality(commands') <= QueueLimit
      BY <2>1, SmallerQueue DEF TakeOut, TypeOK
    <2>5. RenderTypeOK'
      BY <2>1, <2>3 DEF TakeOut, TypeOK, RenderTypeOK, QueueTypeOK, RenderSteps
    <2> QED
      BY <2>1, <2>4, <2>5 DEF TakeOut, history, TypeOK, WorkersTypeOK, QueueTypeOK,
         HistoryTypeOK
  <1>2. CASE Settle
    <2>1. CASE render.outcome \in Outcomes
      <3>1. promise' \in [Workers -> Outcomes \cup {"none"}] /\ sets' \in [Workers -> Nat]
        BY <1>2, <2>1, SetValueType DEF Settle, TypeOK
      <3>2. RenderTypeOK'
        BY <1>2 DEF Settle, TypeOK, RenderTypeOK, RenderSteps, Frame
      <3>3. runs' \in [Workers -> Nat]
        BY <1>2 DEF Settle, TypeOK, HistoryTypeOK, RenderTypeOK
      <3> QED
        BY <1>2, <3>1, <3>2, <3>3 DEF Settle, queueVars, TypeOK, WorkersTypeOK, QueueTypeOK,
           HistoryTypeOK
    <2>2. CASE render.outcome = "none"
      <3>1. promise' \in [Workers -> Outcomes \cup {"none"}] /\ sets' \in [Workers -> Nat]
        BY <1>2, <2>2 DEF Settle, SetValue, TypeOK, QueueTypeOK, HistoryTypeOK
      <3>2. RenderTypeOK'
        BY <1>2 DEF Settle, TypeOK, RenderTypeOK, RenderSteps, Frame
      <3>3. runs' \in [Workers -> Nat]
        BY <1>2 DEF Settle, TypeOK, HistoryTypeOK, RenderTypeOK
      <3> QED
        BY <1>2, <3>1, <3>2, <3>3 DEF Settle, queueVars, TypeOK, WorkersTypeOK, QueueTypeOK,
           HistoryTypeOK
    <2> QED BY <2>1, <2>2 DEF TypeOK, RenderTypeOK, Outcomes
  <1>3. CASE Execute
    <2>1. promise' \in [Workers -> Outcomes \cup {"none"}] /\ sets' \in [Workers -> Nat]
      BY <1>3, SetValueType DEF Execute, TypeOK, Outcomes
    <2> QED
      BY <1>3, <2>1 DEF Execute, queueVars, TypeOK, WorkersTypeOK, QueueTypeOK, RenderTypeOK,
         HistoryTypeOK, Frame, RenderSteps
  <1>4. CASE StopJoins
    BY <1>4 DEF StopJoins, queueVars, history, TypeOK, WorkersTypeOK, QueueTypeOK, RenderTypeOK,
       HistoryTypeOK, Frame, RenderSteps
  <1>5. CASE StopMcpServer
    <2>1. IsFiniteSet(commands') /\ Cardinality(commands') <= QueueLimit
      BY <1>5, SmallerQueue DEF StopMcpServer, TypeOK
    <2> QED
      BY <1>5, <2>1 DEF StopMcpServer, history, TypeOK, WorkersTypeOK, QueueTypeOK, RenderTypeOK,
         HistoryTypeOK, RenderSteps
  <1>6. ASSUME NEW w \in Workers, Approve(w) PROVE TypeOK'
    BY <1>6 DEF Approve, TypeOK, WorkersTypeOK, QueueTypeOK, RenderTypeOK, HistoryTypeOK
  <1>7. ASSUME NEW w \in Workers, Reject(w) PROVE TypeOK'
    <2>1. promise' \in [Workers -> Outcomes \cup {"none"}] /\ sets' \in [Workers -> Nat]
      BY <1>7, SetValueType DEF Reject, TypeOK, Outcomes
    <2>2. IsFiniteSet(commands') /\ Cardinality(commands') <= QueueLimit
      BY <1>7, SmallerQueue DEF Reject, TypeOK
    <2> QED
      BY <1>7, <2>1, <2>2 DEF Reject, TypeOK, WorkersTypeOK, QueueTypeOK, RenderTypeOK,
         HistoryTypeOK
  <1>8. ASSUME NEW mode \in Modes, SetAccessMode(mode) PROVE TypeOK'
    BY <1>8 DEF SetAccessMode, queueVars, history, TypeOK, WorkersTypeOK, QueueTypeOK,
       RenderTypeOK, HistoryTypeOK
  <1> QED BY <1>1, <1>2, <1>3, <1>4, <1>5, <1>6, <1>7, <1>8 DEF RenderThread

-----------------------------------------------------------------------------
\* Every step keeps the types.
LEMMA NextType == TypeOK /\ [Next]_vars => TypeOK'
  <1>1. SUFFICES ASSUME TypeOK, [Next]_vars PROVE TypeOK' OBVIOUS
  <1>2. CASE Next
    BY <1>1, <1>2, WorkerStepType, RenderStepType DEF Next
  <1>3. CASE UNCHANGED vars
    BY <1>1, <1>3 DEF vars, queueVars, history, TypeOK, WorkersTypeOK, QueueTypeOK, RenderTypeOK,
       HistoryTypeOK
  <1> QED BY <1>1, <1>2, <1>3

\* Settling promises and answering, one command at a time.
LEMMA SetValueAt ==
  ASSUME TypeOK, NEW ws, NEW outcome, SetValue(ws, outcome), NEW v \in Workers
  PROVE  /\ promise'[v] = IF v \in ws THEN outcome ELSE promise[v]
         /\ sets'[v] = IF v \in ws THEN sets[v] + 1 ELSE sets[v]
  BY DEF SetValue

LEMMA AnswerAt ==
  ASSUME TypeOK, NEW w \in Workers, NEW answer, Answer(w, answer), NEW v \in Workers
  PROVE  /\ worker'[v] = IF v = w THEN "done" ELSE worker[v]
         /\ told'[v] = IF v = w THEN answer ELSE told[v]
  BY DEF Answer, TypeOK, WorkersTypeOK, HistoryTypeOK

\* The invariant of one command.
LEMMA ReadSettingsInv ==
  ASSUME IInv, NEW w \in Workers, NEW mutation \in BOOLEAN, NEW granted \in BOOLEAN,
         ReadSettings(w, mutation, granted)
  PROVE  HolderInv' /\ RenderInv' /\ OutcomeInv' /\ AuthorityInv'
  <1> USE DispatcherAssumption
  <1>1. /\ UNCHANGED <<commands, approved, promise, render, sets, runs, userApproved>>
        /\ worker[w] = "idle"
    BY DEF ReadSettings, queueVars
  <1>2. \A v \in Workers :
          /\ v # w => worker'[v] = worker[v] /\ told'[v] = told[v] /\ request'[v] = request[v]
          /\ \/ worker'[w] = "done" /\ told'[w] = "readOnly"
             \/ worker'[w] = "submit" /\ told'[w] = told[w]
          /\ worker'[w] = "submit" /\ request'[w].mutation => request'[w].mode # "ReadOnly"
    <2>1. request'[w] = [mutation |-> mutation, granted |-> granted, mode |-> accessMode]
      BY DEF ReadSettings, IInv, TypeOK, WorkersTypeOK
    <2> QED BY <2>1 DEF ReadSettings, Answer, IInv, TypeOK, WorkersTypeOK, HistoryTypeOK
  <1>3. ~Held(w) /\ promise[w] = "none" /\ told[w] = "none" /\ runs[w] = 0 /\ sets[w] = 0
    <2>1. ~Held(w) /\ promise[w] = "none" BY <1>1 DEF IInv, HolderInv
    <2>2. render.ready # w BY <2>1 DEF Held
    <2> QED BY <1>1, <2>1, <2>2 DEF IInv, OutcomeInv
  <1>4. HolderInv' BY <1>1, <1>2, <1>3 DEF IInv, HolderInv, Held
  <1>5. RenderInv' BY <1>1 DEF IInv, RenderInv
  <1>6. OutcomeInv' BY <1>1, <1>2, <1>3 DEF IInv, OutcomeInv, Outcomes
  <1>7. AuthorityInv'
    BY <1>1, <1>2, <1>3 DEF IInv, AuthorityInv, Authorized, Held
  <1> QED BY <1>4, <1>5, <1>6, <1>7

\* A worker's other steps.
LEMMA WorkerTaskInv ==
  ASSUME IInv, NEW w \in Workers, WorkerTask(w) \/ DeadlinePasses(w)
  PROVE  HolderInv' /\ RenderInv' /\ OutcomeInv' /\ AuthorityInv'
  <1> USE DispatcherAssumption
  <1>0. IInv /\ TypeOK BY DEF IInv
  <1>1. CASE Submit(w)
    <2>1. /\ worker[w] = "submit"
          /\ UNCHANGED <<request, approved, promise, render, sets, runs, userApproved>>
      BY <1>1 DEF Submit
    <2>2. ~Held(w) /\ promise[w] = "none" /\ told[w] = "none" /\ runs[w] = 0 /\ sets[w] = 0
      <3>1. ~Held(w) /\ promise[w] = "none" BY <2>1 DEF IInv, HolderInv
      <3>2. render.ready # w BY <3>1 DEF Held
      <3> QED BY <2>1, <3>1, <3>2 DEF IInv, OutcomeInv
    <2>3. \/ /\ commands' = commands
             /\ \A v \in Workers : /\ worker'[v] = IF v = w THEN "done" ELSE worker[v]
                                   /\ told'[v] = IF v = w THEN "full" ELSE told[v]
          \/ /\ commands' = commands \cup {w}
             /\ \A v \in Workers : /\ worker'[v] = IF v = w THEN "waiting" ELSE worker[v]
                                   /\ told'[v] = told[v]
      BY <1>1, <1>0 DEF Submit, Answer, TypeOK, WorkersTypeOK, HistoryTypeOK
    <2>4. HolderInv' BY <2>1, <2>2, <2>3 DEF IInv, HolderInv, Held
    <2>5. RenderInv' BY <2>1 DEF IInv, RenderInv
    <2>6. OutcomeInv' BY <2>1, <2>2, <2>3 DEF IInv, OutcomeInv, Outcomes
    <2>7. AuthorityInv' BY <2>1, <2>3 DEF IInv, AuthorityInv, Authorized
    <2> QED BY <2>4, <2>5, <2>6, <2>7
  <1>2. CASE GetResult(w)
    <2>1. /\ worker[w] = "waiting" /\ promise[w] # "none"
          /\ UNCHANGED <<commands, request, approved, promise, render, sets, runs, userApproved>>
      BY <1>2 DEF GetResult, queueVars
    <2>2. \A v \in Workers : /\ worker'[v] = IF v = w THEN "done" ELSE worker[v]
                             /\ told'[v] = IF v = w THEN promise[w] ELSE told[v]
      BY <1>0, <1>2, AnswerAt DEF GetResult
    <2>3. promise[w] \in Outcomes BY <1>0, <2>1 DEF TypeOK, QueueTypeOK
    <2>4. HolderInv' BY <2>1, <2>2 DEF IInv, HolderInv, Held
    <2>5. RenderInv' BY <2>1 DEF IInv, RenderInv
    <2>6. OutcomeInv' BY <2>1, <2>2, <2>3 DEF IInv, OutcomeInv, Outcomes
    <2>7. AuthorityInv' BY <2>1, <2>2 DEF IInv, AuthorityInv, Authorized
    <2> QED BY <2>4, <2>5, <2>6, <2>7
  <1>3. CASE WaitTimesOut(w)
    <2>1. /\ worker[w] = "waiting"
          /\ UNCHANGED <<commands, request, approved, promise, render, history>>
      BY <1>3 DEF WaitTimesOut, queueVars
    <2>2. \A v \in Workers : worker'[v] = IF v = w THEN "cancel" ELSE worker[v]
      BY <1>0, <1>3 DEF WaitTimesOut, TypeOK, WorkersTypeOK
    <2>4. HolderInv' BY <2>1, <2>2 DEF IInv, HolderInv, Held, history
    <2>5. RenderInv' BY <2>1 DEF IInv, RenderInv
    <2>6. OutcomeInv' BY <2>1, <2>2 DEF IInv, OutcomeInv, Outcomes, history
    <2>7. AuthorityInv' BY <2>1, <2>2 DEF IInv, AuthorityInv, Authorized, history
    <2> QED BY <2>4, <2>5, <2>6, <2>7
  <1>4. CASE Cancel(w)
    <2>1. /\ worker[w] = "cancel" /\ commands' = commands \ {w}
          /\ UNCHANGED <<request, approved, render, runs, userApproved>>
      BY <1>4 DEF Cancel
    <2>2. \A v \in Workers : /\ worker'[v] = IF v = w THEN "done" ELSE worker[v]
                             /\ told'[v] = IF v = w THEN "timedOut" ELSE told[v]
      BY <1>0, <1>4, AnswerAt DEF Cancel
    <2>3. \A v \in Workers :
            /\ promise'[v] = IF v = w /\ w \in commands THEN "cancelled" ELSE promise[v]
            /\ sets'[v] = IF v = w /\ w \in commands THEN sets[v] + 1 ELSE sets[v]
      BY <1>0, <1>4, SetValueAt DEF Cancel
    <2>4. HolderInv' BY <2>1, <2>2, <2>3 DEF IInv, HolderInv, Held
    <2>5. RenderInv' BY <2>1 DEF IInv, RenderInv
    <2>6. w \in commands => promise[w] = "none" /\ render.ready # w
      BY DEF IInv, HolderInv, Held
    <2>7. OutcomeInv' BY <2>1, <2>2, <2>3, <2>6 DEF IInv, OutcomeInv, Outcomes
    <2>8. AuthorityInv' BY <2>1, <2>2 DEF IInv, AuthorityInv, Authorized
    <2> QED BY <2>4, <2>5, <2>7, <2>8
  <1>5. CASE DeadlinePasses(w)
    <2>1. UNCHANGED <<worker, commands, request, approved, promise, render, history>>
      BY <1>5 DEF DeadlinePasses, queueVars
    <2> QED
      BY <2>1 DEF IInv, HolderInv, Held, RenderInv, OutcomeInv, AuthorityInv, Authorized, history
  <1> QED BY <1>1, <1>2, <1>3, <1>4, <1>5 DEF WorkerTask

\* The render thread's frame: it takes commands out, answers them, runs one.
LEMMA FrameInv ==
  ASSUME IInv, RenderThread
  PROVE  HolderInv' /\ RenderInv' /\ OutcomeInv' /\ AuthorityInv'
  <1> USE DispatcherAssumption
  <1>0. IInv /\ TypeOK BY DEF IInv
  <1>1. CASE ProcessOne
    <2>1. PICK ready \in FirstEligible(commands \ late) : TakeOut(commands \cap late, ready)
      BY <1>1 DEF ProcessOne
    <2>2. ready = None \/ (ready \in commands \ late /\ Eligible(ready))
      <3>1. commands \ late \in SUBSET Workers BY <1>0 DEF TypeOK, QueueTypeOK
      <3> QED BY <3>1, FirstEligibleWorks
    <2>3. /\ render.at = "frame" /\ render.settle = {} /\ render.ready = None
          /\ commands' = (commands \ late) \ {ready}
          /\ render'.at = "settle" /\ render'.settle = commands \cap late
          /\ render'.outcome = "expired" /\ render'.ready = ready
          /\ UNCHANGED <<worker, request, approved, promise, history>>
      BY <1>1, <2>1 DEF ProcessOne, TakeOut, IInv, RenderInv
    <2>4. HolderInv' BY <1>0, <2>2, <2>3 DEF IInv, HolderInv, Held, history
    <2>5. RenderInv' BY <2>3 DEF RenderInv
    <2>6. OutcomeInv' BY <2>3 DEF IInv, OutcomeInv, history
    <2>7. ready # None => Authorized(ready)
      <3>1. SUFFICES ASSUME ready # None PROVE Authorized(ready) OBVIOUS
      <3>2. ready \in Workers /\ ready \in commands /\ Eligible(ready)
        BY <1>0, <2>2, <3>1 DEF TypeOK, QueueTypeOK
      <3>3. worker[ready] \in {"waiting", "cancel"} BY <3>2 DEF IInv, HolderInv
      <3>4. request[ready].mode \in AccessModes BY <1>0, <3>2 DEF TypeOK, WorkersTypeOK
      <3> QED
        BY <3>2, <3>3, <3>4 DEF IInv, AuthorityInv, Authorized, Eligible, RequiresApproval,
           AccessModes
    <2>8. AuthorityInv'
      BY <2>3, <2>7 DEF IInv, AuthorityInv, Authorized, history
    <2> QED BY <2>4, <2>5, <2>6, <2>8
  <1>2. CASE Settle
    <2>1. /\ render.at = "settle" /\ render.outcome \in {"expired", "stopped"}
          /\ UNCHANGED <<worker, request, commands, approved, told, userApproved>>
      BY <1>0, <1>2 DEF Settle, queueVars, IInv, RenderInv, TypeOK, RenderTypeOK
    <2>2. \A v \in Workers :
            /\ promise'[v] = IF v \in render.settle THEN render.outcome ELSE promise[v]
            /\ sets'[v] = IF v \in render.settle THEN sets[v] + 1 ELSE sets[v]
      BY <1>0, <1>2, SetValueAt DEF Settle
    <2>3. /\ render'.settle = {} /\ render'.ready = render.ready
          /\ render'.at \in {"execute", "join", "frame"}
          /\ render'.at = "execute" <=> render.ready # None
          /\ \A v \in Workers :
               runs'[v] = IF render.ready = v THEN runs[v] + 1 ELSE runs[v]
      <3>1. CASE render.ready = None
        BY <1>0, <1>2, <3>1 DEF Settle, Frame
      <3>2. CASE render.ready # None
        BY <1>0, <1>2, <3>2 DEF Settle, Frame, TypeOK, RenderTypeOK, HistoryTypeOK
      <3> QED BY <3>1, <3>2
    <2>4. HolderInv' BY <2>1, <2>2, <2>3 DEF IInv, HolderInv, Held
    <2>5. RenderInv' BY <2>3 DEF RenderInv
    <2>6. \A v \in Workers :
            /\ v \in render.settle \/ render.ready = v =>
                 promise[v] = "none" /\ told[v] \in {"none", "timedOut"}
            /\ ~(v \in render.settle /\ render.ready = v)
      BY DEF IInv, HolderInv, Held
    <2>7. OutcomeInv'
      BY <2>1, <2>2, <2>3, <2>6 DEF IInv, OutcomeInv, Outcomes
    <2>8. AuthorityInv'
      BY <2>1, <2>3 DEF IInv, AuthorityInv, Authorized
    <2> QED BY <2>4, <2>5, <2>7, <2>8
  <1>3. CASE Execute
    <2>1. /\ render.at = "execute" /\ render.settle = {} /\ render.ready # None
          /\ UNCHANGED <<worker, request, commands, approved, runs, told, userApproved>>
          /\ render'.at = "frame" /\ render'.settle = {} /\ render'.ready = None
      BY <1>3 DEF Execute, queueVars, IInv, RenderInv, Frame
    <2>2. \A v \in Workers :
            /\ promise'[v] = IF v = render.ready THEN "executed" ELSE promise[v]
            /\ sets'[v] = IF v = render.ready THEN sets[v] + 1 ELSE sets[v]
      BY <1>0, <1>3, SetValueAt DEF Execute
    <2>3. HolderInv' BY <1>0, <2>1, <2>2 DEF IInv, HolderInv, Held, TypeOK, QueueTypeOK
    <2>4. RenderInv' BY <2>1 DEF RenderInv
    <2>5. \A v \in Workers :
            render.ready = v => promise[v] = "none" /\ told[v] \in {"none", "timedOut"}
      BY DEF IInv, HolderInv, Held
    <2>6. OutcomeInv'
      BY <2>1, <2>2, <2>5 DEF IInv, OutcomeInv, Outcomes
    <2>7. AuthorityInv' BY <2>1 DEF IInv, AuthorityInv, Authorized
    <2> QED BY <2>3, <2>4, <2>6, <2>7
  <1>4. CASE StopJoins
    <2>1. /\ render.at = "join" /\ render.settle = {} /\ render.ready = None
          /\ UNCHANGED <<worker, request, commands, approved, promise, history>>
          /\ render'.at = "frame" /\ render'.settle = {} /\ render'.ready = None
      BY <1>4 DEF StopJoins, queueVars, IInv, RenderInv, Frame
    <2> QED
      BY <2>1 DEF IInv, HolderInv, Held, RenderInv, OutcomeInv, AuthorityInv, Authorized, history
  <1> QED BY <1>1, <1>2, <1>3, <1>4 DEF RenderThread

\* What the user does through the render thread.
LEMMA UserInv ==
  ASSUME IInv,
         \/ \E w \in Workers : Approve(w) \/ Reject(w)
         \/ \E mode \in Modes : SetAccessMode(mode)
         \/ StopMcpServer
  PROVE  HolderInv' /\ RenderInv' /\ OutcomeInv' /\ AuthorityInv'
  <1> USE DispatcherAssumption
  <1>0. IInv /\ TypeOK BY DEF IInv
  <1>1. ASSUME NEW w \in Workers, Approve(w)
        PROVE  HolderInv' /\ RenderInv' /\ OutcomeInv' /\ AuthorityInv'
    <2>1. /\ approved' = approved \cup {w} /\ userApproved' = userApproved \cup {w}
          /\ UNCHANGED <<worker, request, commands, promise, render, sets, runs, told>>
      BY <1>1 DEF Approve
    <2> QED
      BY <2>1 DEF IInv, HolderInv, Held, RenderInv, OutcomeInv, AuthorityInv, Authorized
  <1>2. ASSUME NEW w \in Workers, Reject(w)
        PROVE  HolderInv' /\ RenderInv' /\ OutcomeInv' /\ AuthorityInv'
    <2>1. /\ w \in commands /\ commands' = commands \ {w}
          /\ UNCHANGED <<worker, request, approved, render, runs, told, userApproved>>
      BY <1>2 DEF Reject
    <2>2. \A v \in Workers :
            /\ promise'[v] = IF v = w THEN "rejected" ELSE promise[v]
            /\ sets'[v] = IF v = w THEN sets[v] + 1 ELSE sets[v]
      BY <1>0, <1>2, SetValueAt DEF Reject
    <2>3. promise[w] = "none" /\ render.ready # w /\ told[w] \in {"none", "timedOut"}
      BY <2>1 DEF IInv, HolderInv, Held
    <2>4. HolderInv' BY <2>1, <2>2, <2>3 DEF IInv, HolderInv, Held
    <2>5. RenderInv' BY <2>1 DEF IInv, RenderInv
    <2>6. OutcomeInv' BY <2>1, <2>2, <2>3 DEF IInv, OutcomeInv, Outcomes
    <2>7. AuthorityInv' BY <2>1 DEF IInv, AuthorityInv, Authorized
    <2> QED BY <2>4, <2>5, <2>6, <2>7
  <1>3. ASSUME NEW mode \in Modes, SetAccessMode(mode)
        PROVE  HolderInv' /\ RenderInv' /\ OutcomeInv' /\ AuthorityInv'
    <2>1. UNCHANGED <<worker, request, commands, approved, promise, render, history>>
      BY <1>3 DEF SetAccessMode, queueVars
    <2> QED
      BY <2>1 DEF IInv, HolderInv, Held, RenderInv, OutcomeInv, AuthorityInv, Authorized, history
  <1>4. CASE StopMcpServer
    <2>1. /\ render.at = "frame" /\ render.settle = {} /\ render.ready = None
          /\ commands' = {}
          /\ render'.at = "settle" /\ render'.settle = commands
          /\ render'.outcome = "stopped" /\ render'.ready = None
          /\ UNCHANGED <<worker, request, approved, promise, history>>
      BY <1>4 DEF StopMcpServer, IInv, RenderInv
    <2>2. HolderInv' BY <2>1 DEF IInv, HolderInv, Held, history
    <2>3. RenderInv' BY <2>1 DEF RenderInv
    <2>4. OutcomeInv' BY <2>1 DEF IInv, OutcomeInv, history
    <2>5. AuthorityInv' BY <2>1 DEF IInv, AuthorityInv, Authorized, history
    <2> QED BY <2>2, <2>3, <2>4, <2>5
  <1> QED BY <1>1, <1>2, <1>3, <1>4

\* Every step keeps the invariant.
LEMMA NextInv == IInv /\ [Next]_vars => IInv'
  <1>1. SUFFICES ASSUME IInv, [Next]_vars PROVE IInv' OBVIOUS
  <1>2. TypeOK' BY <1>1, NextType DEF IInv
  <1>3. HolderInv' /\ RenderInv' /\ OutcomeInv' /\ AuthorityInv'
    <2>1. CASE Next
      BY <1>1, <2>1, ReadSettingsInv, WorkerTaskInv, FrameInv, UserInv DEF Next
    <2>2. CASE UNCHANGED vars
      BY <1>1, <2>2 DEF vars, queueVars, history, IInv, HolderInv, Held, RenderInv, OutcomeInv,
         AuthorityInv, Authorized
    <2> QED BY <1>1, <2>1, <2>2
  <1> QED BY <1>2, <1>3 DEF IInv

\* McpDispatcher keeps its inductive invariant: a submitted command is always
\* in exactly one place, and its answer says what became of it.
THEOREM DispatcherInvariant == Spec => []IInv
  BY InitInv, NextInv, PTL DEF Spec

\* The queue never holds more commands than Submit allows, and every variable
\* keeps its type.
THEOREM DispatcherTypeCorrect == Spec => []TypeOK
  <1>1. IInv => TypeOK BY DEF IInv
  <1> QED BY <1>1, DispatcherInvariant, PTL

\* However many workers, time-outs, approvals, rejections and stops compete
\* for a command, its promise is set once at most.
THEOREM PromiseAlwaysSetOnce == Spec => []PromiseSetOnce
  <1>1. IInv => PromiseSetOnce BY DEF IInv, OutcomeInv, PromiseSetOnce
  <1> QED BY <1>1, DispatcherInvariant, PTL

\* What a worker tells its client about its command is what happened to it.
THEOREM AnswersAlwaysTrue == Spec => []AnswersAreTrue
  <1>1. ASSUME IInv, NEW w \in Workers
        PROVE  /\ runs[w] <= 1
               /\ told[w] \in {"expired", "rejected", "stopped", "full", "readOnly"} => runs[w] = 0
               /\ told[w] = "executed" => runs[w] = 1
    <2>1. runs[w] \in {0, 1} BY <1>1 DEF IInv, OutcomeInv
    <2>2. render.ready = w => promise[w] = "none" /\ told[w] \in {"none", "timedOut"}
      BY <1>1 DEF IInv, HolderInv, Held
    <2> QED BY <1>1, <2>1, <2>2 DEF IInv, OutcomeInv, Outcomes
  <1>2. IInv => AnswersAreTrue BY <1>1 DEF AnswersAreTrue
  <1> QED BY <1>2, DispatcherInvariant, PTL

\* A worker that has answered leaves no command in the queue.
THEOREM AnsweredNeverQueued == Spec => []AnsweredIsNotQueued
  <1>1. IInv => AnsweredIsNotQueued BY DEF IInv, HolderInv, AnsweredIsNotQueued
  <1> QED BY <1>1, DispatcherInvariant, PTL

\* Whatever the user does to the access mode while mutations are queued, one
\* that ran had been authorised.
THEOREM MutationAlwaysAuthorized == Spec => []MutationIsAuthorized
  <1>1. IInv => MutationIsAuthorized
    BY DEF IInv, AuthorityInv, Authorized, MutationIsAuthorized
  <1> QED BY <1>1, DispatcherInvariant, PTL
=============================================================================
