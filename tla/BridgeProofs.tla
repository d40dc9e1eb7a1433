----------------------------- MODULE BridgeProofs -----------------------------
\* Safety of AssistantHostBridge for any size of the queue and any number of
\* requests: the child gets the accepted frames once each and in order, one thread
\* reports the failure, a stopped bridge leaves neither process nor threads, and it
\* implements the channel of HostChannel.
\* Below, the same of AssistantWindow for any number of turns, calls and
\* projects: the render gate covers every turn, and messages fit their turn.
EXTENDS AssistantHostBridge, AssistantWindow, SequenceTheorems, TLAPS

\* Where the reader has not said "Connected" yet, and where a thread that won the
\* right to report the failure is.
Connecting == {"off", "start", "connect", "mark", "publish"}
Failing    == {"failSignal", "failNotify", "failPublish"}

Said(s) == \E i \in DOMAIN updates : updates[i] = s

\* What was accepted is what was written and what is queued; the writer's frame
\* is both while it is written.
QueueInv ==
  /\ \A i \in 1..Len(sent) : i <= Len(posted) /\ sent[i] = posted[i]
  /\ writer \in {"write", "pop"} => queue # << >>
  /\ writer = "pop" => sent # << >>
  /\ ui # "stopped" =>
       LET popping == IF writer = "pop" THEN 1 ELSE 0
       IN /\ Len(posted) + popping = Len(sent) + Len(queue)
          /\ \A i \in 1..Len(queue) : queue[i] = posted[Len(sent) - popping + i]

\* Before "Connected" nothing is posted; the writer may have failed all the same.
ConnectInv ==
  /\ handled <= Len(updates)
  /\ reader \in Connecting =>
       /\ queue = << >> /\ writer # "pop"
       /\ ui # "stopped" => ~Said("Connected") /\ ~Said("Stopped")

\* One thread reports the failure, once.
FailInv ==
  /\ reader \in Failing => failed /\ writer \notin Failing
  /\ writer \in Failing => failed
  /\ ui # "stopped" =>
       /\ Said("Failed") => failed /\ reader \notin Failing /\ writer \notin Failing
       /\ Said("Stopped") => reader = "done"

\* A later update follows what was said before; Start may fail after the writer.
NotStarted == reader = "off" /\ ui = "stopped"
UpdatesInv ==
  \A i, j \in DOMAIN updates :
    i < j => /\ updates[i] = "Failed" /\ updates[j] = "Failed" => NotStarted
             /\ updates[i] = "Stopped" => updates[j] # "Connected"

\* How far Start and StopAndJoin have taken threads and process.
StopInv ==
  /\ ui = "new" => child = "none" /\ writer = "off" /\ updates = << >>
  /\ ui \in {"new", "launched", "cleanup", "cleanupNotify", "cleanupJoin"} => reader = "off"
  /\ ui \in {"cleanupJoin", "join", "stopped"} => child \in {"none", "exited"}
  /\ ui = "stopped" => reader \in {"off", "done"} /\ writer \in {"off", "done"}
  /\ childExited => child = "exited"

Inv == TypeOK /\ QueueInv /\ ConnectInv /\ FailInv /\ UpdatesInv /\ StopInv
-----------------------------------------------------------------------------
(* The type invariant. *)

UiActions == UiCalls \/ UiRequests

LEMMA InitType == Init => TypeOK
  <1> SUFFICES ASSUME Init PROVE TypeOK OBVIOUS
  <1>1. /\ << >> \in Seq(1..MaxPosts) /\ << >> \in Seq(States)
        /\ Len(<< >>) <= MaximumQueuedFrames
    BY BoundsAssumption
  <1>2. 0 \in 0..MaxPosts BY BoundsAssumption
  <1> QED
    BY <1>1, <1>2 DEF Init, TypeOK, UiSteps, ReaderSteps, WriterSteps, FailSteps

\* Two words of the bridge follow the others in what it has published.
LEMMA PublishedType ==
  ASSUME NEW u \in Seq(States), NEW s \in States
  PROVE  /\ Append(u, s) \in Seq(States)
         /\ u \o <<"Starting", "Failed">> \in Seq(States)
  <1>1. <<"Starting", "Failed">> \in Seq(States) BY DEF States
  <1> QED BY <1>1, AppendProperties, ConcatProperties

LEMMA UiType == TypeOK /\ UiActions => TypeOK'
  <1> SUFFICES ASSUME TypeOK, UiActions PROVE TypeOK' OBVIOUS
  <1> USE DEF TypeOK, UiSteps
  <1>1. \A s \in States : Append(updates, s) \in Seq(States)
    BY PublishedType
  <1>2. updates \o <<"Starting", "Failed">> \in Seq(States)
    <2>1. "Failed" \in States BY DEF States
    <2> QED BY <2>1, PublishedType
  <1>3. {"Stopped", "Starting", "Failed"} \subseteq States BY DEF States
  <1>4. WriterNotified \in WriterSteps BY DEF WriterNotified, WriterSteps
  <1>5. Terminated \in {"none", "launched", "open", "exited"} BY DEF Terminated
  <1>6. CASE StartLaunches
    BY <1>6, <1>1, <1>3 DEF StartLaunches, Publish, history, WriterSteps
  <1>7. CASE StartFails
    BY <1>7, <1>2 DEF StartFails, atomics, history
  <1>8. CASE StartReader
    BY <1>8 DEF StartReader, atomics, history, ReaderSteps
  <1>9. CASE CleanupSignals
    BY <1>9 DEF CleanupSignals, history
  <1>10. CASE CleanupNotifies
    BY <1>10, <1>4, <1>5 DEF CleanupNotifies, atomics, history
  <1>11. CASE CleanupJoins
    BY <1>11, <1>1, <1>3 DEF CleanupJoins, Publish, atomics, history
  <1>12. CASE HandleAssistantHostState
    BY <1>12 DEF HandleAssistantHostState, atomics, history
  <1>13. ASSUME NEW isShutdown \in BOOLEAN, PostAccepted(isShutdown) PROVE TypeOK'
    <2>1. outbound + 1 \in 1..MaxPosts /\ outbound + 1 \in 0..MaxPosts
      BY <1>13, BoundsAssumption DEF PostAccepted
    <2>2. Append(queue, outbound + 1) \in Seq(1..MaxPosts)
          /\ Len(Append(queue, outbound + 1)) = Len(queue) + 1
      BY <2>1, AppendProperties
    <2>3. Append(posted, outbound + 1) \in Seq(1..MaxPosts)
      BY <2>1, AppendProperties
    <2>4. Len(queue) + 1 <= MaximumQueuedFrames
      BY <1>13, BoundsAssumption DEF PostAccepted
    <2> QED BY <1>13, <2>1, <2>2, <2>3, <2>4 DEF PostAccepted
  <1>14. CASE PostRefused
    BY <1>14, BoundsAssumption DEF PostRefused, atomics, history
  <1>15. CASE PostNotifies
    BY <1>15, <1>4 DEF PostNotifies, atomics, history
  <1>16. CASE StopAssistant
    BY <1>16 DEF StopAssistant, atomics, history
  <1>17. CASE StopBegins
    BY <1>17 DEF StopBegins, history
  <1>18. CASE StopGrace
    BY <1>18 DEF StopGrace, atomics, history
  <1>19. CASE StopSignals
    BY <1>19 DEF StopSignals, history
  <1>20. CASE StopNotifies
    BY <1>20, <1>4, <1>5 DEF StopNotifies, atomics, history
  <1>21. CASE StopJoins
    <2>1. << >> \in Seq(1..MaxPosts) /\ Len(<< >>) <= MaximumQueuedFrames
      BY BoundsAssumption
    <2> QED BY <1>21, <2>1, <1>1, <1>3 DEF StopJoins, Publish, history
  <1> QED
    BY <1>6, <1>7, <1>8, <1>9, <1>10, <1>11, <1>12, <1>13, <1>14, <1>15, <1>16, <1>17, <1>18,
       <1>19, <1>20, <1>21 DEF UiActions, UiCalls, UiRequests

\* The four steps of Fail keep the types of both threads.
LEMMA FailType ==
  ASSUME TypeOK, NEW th \in {"reader", "writer"}, Fail(th) PROVE TypeOK'
  <1> USE DEF TypeOK
  <1>1. ASSUME NEW from, NEW next \in FailSteps \cup {"done"}, NEW b \in BOOLEAN,
               ThreadGoes(th, from, next, b)
        PROVE  reader' \in ReaderSteps /\ writer' \in WriterSteps
    BY <1>1 DEF ThreadGoes, WriterNotified, ReaderSteps, WriterSteps
  <1>2. CASE FailTakes(th)
    <2>1. (IF failed THEN "done" ELSE "failSignal") \in FailSteps \cup {"done"}
      BY DEF FailSteps
    <2>2. reader' \in ReaderSteps /\ writer' \in WriterSteps
      BY <1>1, <1>2, <2>1 DEF FailTakes
    <2> QED BY <1>2, <2>2 DEF FailTakes, uiVars, history
  <1>3. CASE FailSignals(th)
    <2>2. reader' \in ReaderSteps /\ writer' \in WriterSteps
      BY <1>1, <1>3 DEF FailSignals, FailSteps
    <2> QED BY <1>3, <2>2 DEF FailSignals, Terminated, uiVars, history
  <1>4. CASE FailNotifies(th)
    <2>2. reader' \in ReaderSteps /\ writer' \in WriterSteps
      BY <1>1, <1>4 DEF FailNotifies, FailSteps
    <2> QED BY <1>4, <2>2 DEF FailNotifies, uiVars, atomics, history
  <1>5. CASE FailPublishes(th)
    <2>1. Append(updates, "Failed") \in Seq(States)
      BY PublishedType DEF States
    <2>2. reader' \in ReaderSteps /\ writer' \in WriterSteps
      BY <1>1, <1>5 DEF FailPublishes
    <2> QED BY <1>5, <2>1, <2>2 DEF FailPublishes, Publish, uiVars, atomics, history
  <1> QED BY <1>2, <1>3, <1>4, <1>5 DEF Fail

LEMMA ReaderType == TypeOK /\ (ReaderMain \/ ReaderFails) => TypeOK'
  <1> SUFFICES ASSUME TypeOK, ReaderMain \/ ReaderFails PROVE TypeOK' OBVIOUS
  <1> USE DEF TypeOK, ReaderSteps, FailSteps
  <1>1. \A s \in States : Append(updates, s) \in Seq(States)
    BY PublishedType
  <1>2. {"Stopped", "WaitingForConnection", "Connected"} \subseteq States BY DEF States
  <1>3. WriterNotified \in WriterSteps BY DEF WriterNotified, WriterSteps
  <1>4. CASE ReaderStarts
    BY <1>4, <1>1, <1>2 DEF ReaderStarts, ReaderOnly, Publish, uiVars, atomics, history
  <1>5. CASE ReaderConnects
    BY <1>5 DEF ReaderConnects, ReaderOnly, uiVars, atomics, history
  <1>6. CASE ReaderCannotConnect
    BY <1>6 DEF ReaderCannotConnect, ReaderOnly, uiVars, atomics, history
  <1>7. CASE ReaderStopped
    BY <1>7 DEF ReaderStopped, ReaderOnly, uiVars, atomics, history
  <1>8. CASE ReaderMarksConnected
    BY <1>8 DEF ReaderMarksConnected, ReaderOnly, uiVars, history
  <1>9. CASE ReaderPublishesConnected
    BY <1>9, <1>1, <1>2
       DEF ReaderPublishesConnected, ReaderOnly, Publish, uiVars, atomics, history
  <1>10. CASE ReaderNotifies
    BY <1>10, <1>3 DEF ReaderNotifies, uiVars, atomics, history
  <1>11. CASE ReaderDisconnected
    BY <1>11 DEF ReaderDisconnected, ReaderOnly, uiVars, atomics, history
  <1>12. CASE ReaderCloses
    BY <1>12 DEF ReaderCloses, ReaderOnly, uiVars, history
  <1>13. CASE ReaderCloseNotifies
    BY <1>13, <1>3 DEF ReaderCloseNotifies, uiVars, atomics, history
  <1>14. CASE ReaderClosePublishes
    BY <1>14, <1>1, <1>2
       DEF ReaderClosePublishes, ReaderOnly, Publish, uiVars, atomics, history
  <1>15. CASE ReaderFails
    BY <1>15 DEF ReaderFails, ReaderOnly, uiVars, atomics, history
  <1>16. CASE Fail("reader") BY <1>16, FailType
  <1> QED
    BY <1>4, <1>5, <1>6, <1>7, <1>8, <1>9, <1>10, <1>11, <1>12, <1>13, <1>14, <1>15, <1>16
       DEF ReaderMain

WriterActions == WriterMain \/ WriterWrites \/ WriterFails \/ WriterWakes

\* Steps of the writer that only move it.
WriterMoves ==
  WriterBegins \/ WriterLoops \/ WriterTests \/ WriterBlocks \/ WriterStopped
    \/ WriterDisconnected \/ WriterFails \/ WriterWakes

LEMMA WriterMovesOnly ==
  ASSUME TypeOK, WriterMoves
  PROVE  /\ writer' \in WriterSteps
         /\ WriterOnly /\ UNCHANGED <<queue, history>>
         /\ writer' # "pop" /\ writer # "pop"
         /\ writer' \in {"write", "pop"} => queue # << >>
         /\ writer \notin {"off"} \cup FailSteps
         /\ writer' # "off" /\ writer' \notin Failing
         /\ writer # "done"
  BY DEF TypeOK, WriterMoves, WriterBegins, WriterLoops, WriterTests, WriterBlocks, WriterStopped,
         WriterDisconnected, WriterFails, WriterWakes, WriterSteps, FailSteps, Failing

\* The queue the writer takes a frame of is not empty: its type depends on it.
LEMMA WriterType == TypeOK /\ QueueInv /\ WriterActions => TypeOK'
  <1> SUFFICES ASSUME TypeOK, QueueInv, WriterActions PROVE TypeOK' OBVIOUS
  <1> USE DEF TypeOK
  <1>1. CASE WriterMoves
    BY <1>1, WriterMovesOnly DEF WriterOnly, uiVars, atomics, history
  <1>2. ASSUME writer \in {"write", "pop"}
        PROVE  /\ Append(sent, Head(queue)) \in Seq(1..MaxPosts)
               /\ Tail(queue) \in Seq(1..MaxPosts) /\ Len(Tail(queue)) <= MaximumQueuedFrames
    <2>1. queue # << >> BY <1>2 DEF QueueInv
    <2>2. Tail(queue) \in Seq(1..MaxPosts) /\ Len(Tail(queue)) = Len(queue) - 1
          /\ Head(queue) \in 1..MaxPosts
      BY <2>1, HeadTailProperties
    <2> QED BY <2>2, AppendProperties, BoundsAssumption
  <1>3. CASE WriterWrites
    BY <1>3, <1>2 DEF WriterWrites, WriterOnly, WriterSteps, uiVars, atomics
  <1>4. CASE WriterPops
    BY <1>4, <1>2 DEF WriterPops, WriterOnly, WriterSteps, uiVars, atomics, history
  <1>5. CASE Fail("writer") BY <1>5, FailType
  <1> QED
    BY <1>1, <1>3, <1>4, <1>5 DEF WriterActions, WriterMain, WriterMoves

ChildActions == ChildConnects \/ ChildExits

LEMMA Actions == Next => UiActions \/ ReaderMain \/ ReaderFails \/ WriterActions \/ ChildActions
  BY DEF Next, PipeIo, UiActions, WriterActions, ChildActions

LEMMA NextType == TypeOK /\ QueueInv /\ [Next]_vars => TypeOK'
  <1> SUFFICES ASSUME TypeOK, QueueInv, [Next]_vars PROVE TypeOK' OBVIOUS
  <1>1. CASE UNCHANGED vars
    BY <1>1 DEF TypeOK, vars, uiVars, atomics, history
  <1>2. CASE ChildActions
    BY <1>2 DEF TypeOK, ChildActions, ChildConnects, ChildExits, uiVars, atomics, history
  <1> QED BY <1>1, <1>2, Actions, UiType, ReaderType, WriterType
-----------------------------------------------------------------------------
(* The queue. *)

\* A step that leaves the frames alone, and whose writer takes none up or sees
\* that one is there.
LEMMA QueueQuiet ==
  ASSUME QueueInv, UNCHANGED <<queue, history>>,
         writer' = "pop" <=> writer = "pop",
         writer' = "write" => writer = "write" \/ queue # << >>,
         ui' # "stopped" => ui # "stopped"
  PROVE  QueueInv'
  <1>1. UNCHANGED <<queue, posted, sent>> BY DEF history
  <1>2. writer' \in {"write", "pop"} => queue' # << >> BY <1>1 DEF QueueInv
  <1>3. (IF writer' = "pop" THEN 1 ELSE 0) = IF writer = "pop" THEN 1 ELSE 0 OBVIOUS
  <1> QED BY <1>1, <1>2, <1>3 DEF QueueInv

LEMMA NotifiedKeeps ==
  /\ WriterNotified \in {writer, "test"}
  /\ WriterNotified # writer => writer = "waiting" /\ WriterNotified = "test"
  BY DEF WriterNotified

LEMMA FailQueue ==
  ASSUME QueueInv, NEW th \in {"reader", "writer"}, Fail(th) PROVE QueueInv'
  <1>1. UNCHANGED <<queue, history, ui>>
    BY DEF Fail, FailTakes, FailSignals, FailNotifies, FailPublishes, uiVars, history
  <1>2. /\ writer' = "pop" <=> writer = "pop"
        /\ writer' = "write" <=> writer = "write"
    BY NotifiedKeeps DEF Fail, FailTakes, FailSignals, FailNotifies, FailPublishes, ThreadGoes
  <1> QED BY <1>1, <1>2, QueueQuiet

LEMMA UiQueue == TypeOK /\ QueueInv /\ StopInv /\ UiActions => QueueInv'
  <1> SUFFICES ASSUME TypeOK, QueueInv, StopInv, UiActions PROVE QueueInv' OBVIOUS
  <1>1. ASSUME NEW isShutdown \in BOOLEAN, PostAccepted(isShutdown) PROVE QueueInv'
    <2> DEFINE n == outbound + 1
               popping == IF writer = "pop" THEN 1 ELSE 0
    <2>1. /\ queue' = Append(queue, n) /\ posted' = Append(posted, n)
          /\ UNCHANGED <<sent, writer>> /\ ui = "idle" /\ ui' = "notify"
      BY <1>1 DEF PostAccepted
    <2>2. /\ queue \in Seq(1..MaxPosts) /\ posted \in Seq(1..MaxPosts) /\ n \in 1..MaxPosts
          /\ sent \in Seq(1..MaxPosts)
      BY <1>1, BoundsAssumption DEF TypeOK, PostAccepted
    <2>3. /\ Len(queue') = Len(queue) + 1 /\ Len(posted') = Len(posted) + 1
          /\ \A i \in 1..Len(queue) : queue'[i] = queue[i]
          /\ \A i \in 1..Len(posted) : posted'[i] = posted[i]
          /\ queue'[Len(queue) + 1] = n /\ posted'[Len(posted) + 1] = n
      BY <2>1, <2>2, AppendProperties
    <2>4. Len(queue) \in Nat /\ Len(posted) \in Nat /\ Len(sent) \in Nat
      BY <2>2, LenProperties
    <2>5. /\ Len(posted) + popping = Len(sent) + Len(queue)
          /\ \A i \in 1..Len(queue) : queue[i] = posted[Len(sent) - popping + i]
      BY <2>1 DEF QueueInv
    <2>6. popping \in {0, 1} /\ (popping = 1 => Len(queue) > 0)
      BY <2>2, EmptySeq DEF QueueInv
    <2>7. \A i \in 1..Len(sent) : i <= Len(posted) /\ sent[i] = posted[i]
      BY DEF QueueInv
    <2>13. popping = 1 => sent # << >> BY DEF QueueInv
    <2> HIDE DEF n, popping
    <2>8. \A i \in 1..Len(sent) : i <= Len(posted') /\ sent[i] = posted'[i]
      BY <2>3, <2>4, <2>7
    <2>9. Len(posted') + popping = Len(sent) + Len(queue')
      <3>1. Len(posted') = Len(posted) + 1 /\ Len(queue') = Len(queue) + 1 BY <2>3
      <3>2. \A p, q, w, k \in Int : p + k = w + q => (p + 1) + k = w + (q + 1) OBVIOUS
      <3>3. /\ Len(posted) \in Int /\ Len(queue) \in Int /\ Len(sent) \in Int /\ popping \in Int
            /\ Len(posted) + popping = Len(sent) + Len(queue)
        BY <2>4, <2>5, <2>6
      <3> QED BY <3>1, <3>2, <3>3
    <2>10. ASSUME NEW i \in 1..Len(queue') PROVE queue'[i] = posted'[Len(sent) - popping + i]
      <3>1. CASE i = Len(queue) + 1
        <4>1. /\ Len(posted) + popping = Len(sent) + Len(queue)
              /\ popping \in Int /\ Len(queue) \in Int
          BY <2>4, <2>5, <2>6
        <4>2. Len(sent) - popping + i = Len(posted) + 1 BY <3>1, <4>1, <2>4
        <4> QED BY <3>1, <4>2, <2>3
      <3>2. CASE i # Len(queue) + 1
        <4>1. i \in 1..Len(queue) BY <3>2, <2>3, <2>4
        <4>2. popping = 1 => Len(sent) >= 1
          BY <2>2, <2>4, <2>13, EmptySeq
        <4>3. Len(sent) - popping + i \in 1..Len(posted)
          BY <4>1, <4>2, <2>4, <2>5, <2>6
        <4> QED BY <4>1, <4>3, <2>3, <2>5
      <3> QED BY <3>1, <3>2
    <2>11. writer' \in {"write", "pop"} => queue' # << >>
      BY <2>3, <2>4
    <2>12. popping = IF writer' = "pop" THEN 1 ELSE 0 BY <2>1 DEF popping
    <2> QED BY <2>1, <2>8, <2>9, <2>10, <2>11, <2>12, <2>13 DEF QueueInv
  <1>2. CASE StopJoins
    BY <1>2 DEF StopJoins, QueueInv, history
  <1>3. CASE StartLaunches
    BY <1>3, QueueQuiet DEF StartLaunches, StopInv
  <1>4. CASE StartFails \/ StartReader \/ CleanupSignals \/ CleanupJoins
    BY <1>4, QueueQuiet DEF StartFails, StartReader, CleanupSignals, CleanupJoins
  <1>5. CASE CleanupNotifies \/ PostNotifies \/ StopNotifies
    BY <1>5, QueueQuiet, NotifiedKeeps DEF CleanupNotifies, PostNotifies, StopNotifies
  <1>6. CASE HandleAssistantHostState \/ PostRefused \/ StopAssistant
    BY <1>6, QueueQuiet DEF HandleAssistantHostState, PostRefused, StopAssistant
  <1>7. CASE StopBegins \/ StopGrace \/ StopSignals
    BY <1>7, QueueQuiet DEF StopBegins, StopGrace, StopSignals
  <1> QED
    BY <1>1, <1>2, <1>3, <1>4, <1>5, <1>6, <1>7 DEF UiActions, UiCalls, UiRequests

LEMMA WriterQueue == TypeOK /\ QueueInv /\ StopInv /\ WriterActions => QueueInv'
  <1> SUFFICES ASSUME TypeOK, QueueInv, StopInv, WriterActions PROVE QueueInv' OBVIOUS
  <1> DEFINE len == Len(queue)
  <1>1. CASE WriterMoves
    <2>1. UNCHANGED <<queue, history, ui>>
      BY <1>1, WriterMovesOnly DEF WriterOnly, uiVars
    <2> QED BY <1>1, <2>1, WriterMovesOnly, QueueQuiet
  <1>2. CASE Fail("writer") BY <1>2, FailQueue
  <1>3. /\ sent \in Seq(1..MaxPosts) /\ posted \in Seq(1..MaxPosts)
        /\ queue \in Seq(1..MaxPosts)
        /\ Len(sent) \in Nat /\ Len(posted) \in Nat /\ len \in Nat
    BY LenProperties DEF TypeOK
  <1>4. ASSUME writer \in {"write", "pop"}
        PROVE  /\ ui # "stopped" /\ len > 0
               /\ Head(queue) = queue[1] /\ Head(queue) \in 1..MaxPosts
               /\ Tail(queue) \in Seq(1..MaxPosts) /\ Len(Tail(queue)) = len - 1
               /\ \A i \in 1..(len - 1) : Tail(queue)[i] = queue[i + 1]
    <2>1. ui # "stopped" BY <1>4 DEF StopInv
    <2>2. queue # << >> BY <1>4 DEF QueueInv
    <2>3. len > 0 BY <2>2, <1>3, EmptySeq
    <2>4. /\ Tail(queue) \in Seq(1..MaxPosts) /\ Len(Tail(queue)) = len - 1
          /\ \A i \in 1..Len(Tail(queue)) : Tail(queue)[i] = queue[i + 1]
          /\ Head(queue) \in 1..MaxPosts
      BY <2>2, <1>3, HeadTailProperties
    <2>5. Head(queue) = queue[1] OBVIOUS
    <2> QED BY <2>1, <2>3, <2>4, <2>5
  <1>5. CASE WriterWrites
    <2>1. /\ sent' = Append(sent, Head(queue)) /\ UNCHANGED <<queue, posted, ui>>
          /\ writer = "write" /\ writer' = "pop"
      BY <1>5 DEF WriterWrites, WriterOnly, uiVars
    <2>2. /\ Len(posted) = Len(sent) + len
          /\ \A i \in 1..len : queue[i] = posted[Len(sent) + i]
      <3>1. /\ Len(posted) + 0 = Len(sent) + Len(queue)
            /\ \A i \in 1..Len(queue) : queue[i] = posted[Len(sent) - 0 + i]
        BY <2>1, <1>4 DEF QueueInv
      <3> QED BY <3>1, <1>3
    <2>3. /\ Len(sent') = Len(sent) + 1 /\ sent'[Len(sent) + 1] = queue[1]
          /\ \A i \in 1..Len(sent) : sent'[i] = sent[i]
      BY <2>1, <1>3, <1>4, AppendProperties
    <2>4. \A i \in 1..Len(sent') : i <= Len(posted) /\ sent'[i] = posted[i]
      <3>1. \A i \in 1..Len(sent') : i \in 1..Len(sent) \/ i = Len(sent) + 1
        BY <2>3, <1>3
      <3>2. Len(sent) + 1 <= Len(posted) /\ queue[1] = posted[Len(sent) + 1]
        BY <2>1, <2>2, <1>3, <1>4
      <3> QED BY <3>1, <3>2, <2>3 DEF QueueInv
    <2>5. /\ Len(posted) + 1 = Len(sent') + len
          /\ \A i \in 1..len : queue[i] = posted[Len(sent') - 1 + i]
      BY <2>2, <2>3, <1>3
    <2>6. queue # << >> /\ sent' # << >> BY <2>1, <2>3, <1>3 DEF QueueInv
    <2> QED BY <2>1, <2>4, <2>5, <2>6 DEF QueueInv
  <1>6. CASE WriterPops
    <2>1. /\ queue' = Tail(queue) /\ UNCHANGED <<sent, posted, ui>>
          /\ writer = "pop" /\ writer' = "top"
      BY <1>6 DEF WriterPops, WriterOnly, uiVars, history
    <2>2. /\ Len(posted) + 1 = Len(sent) + len
          /\ \A i \in 1..len : queue[i] = posted[Len(sent) - 1 + i]
      BY <2>1, <1>4 DEF QueueInv
    <2>3. /\ Len(queue') = len - 1
          /\ \A i \in 1..(len - 1) : queue'[i] = queue[i + 1]
      BY <2>1, <1>4
    <2>4. Len(posted) + 0 = Len(sent) + Len(queue')
      BY <2>2, <2>3, <1>3
    <2>5. ASSUME NEW i \in 1..Len(queue') PROVE queue'[i] = posted[Len(sent) - 0 + i]
      <3>1. i \in 1..(len - 1) /\ i + 1 \in 1..len
            /\ Len(sent) - 1 + (i + 1) = Len(sent) - 0 + i
        BY <2>3, <1>3
      <3> QED BY <3>1, <2>2, <2>3
    <2> QED BY <2>1, <2>4, <2>5 DEF QueueInv
  <1> QED
    BY <1>1, <1>2, <1>5, <1>6 DEF WriterActions, WriterMain, WriterMoves

LEMMA NextQueue == TypeOK /\ QueueInv /\ StopInv /\ [Next]_vars => QueueInv'
  <1> SUFFICES ASSUME TypeOK, QueueInv, StopInv, [Next]_vars PROVE QueueInv' OBVIOUS
  <1>1. CASE UNCHANGED vars
    BY <1>1, QueueQuiet DEF vars, uiVars
  <1>2. CASE ChildActions
    BY <1>2, QueueQuiet DEF ChildActions, ChildConnects, ChildExits, uiVars
  <1>3. CASE ReaderMain \/ ReaderFails
    <2>1. CASE Fail("reader") BY <2>1, FailQueue
    <2>2. CASE ReaderNotifies \/ ReaderCloseNotifies
      BY <2>2, QueueQuiet, NotifiedKeeps DEF ReaderNotifies, ReaderCloseNotifies, uiVars
    <2>3. CASE ~(Fail("reader") \/ ReaderNotifies \/ ReaderCloseNotifies)
      <3>1. ReaderOnly
        BY <1>3, <2>3
           DEF ReaderMain, ReaderStarts, ReaderConnects, ReaderCannotConnect, ReaderStopped,
               ReaderMarksConnected, ReaderPublishesConnected, ReaderDisconnected,
               ReaderCloses, ReaderClosePublishes, ReaderFails
      <3> QED BY <3>1, QueueQuiet DEF ReaderOnly, uiVars
    <2> QED BY <2>1, <2>2, <2>3
  <1> QED BY <1>1, <1>2, <1>3, Actions, UiQueue, WriterQueue
-----------------------------------------------------------------------------
(* What the bridge has said. *)

LEMMA SaidMore ==
  ASSUME TypeOK, NEW s, Publish(s)
  PROVE  /\ Len(updates') = Len(updates) + 1
         /\ \A i \in DOMAIN updates : i \in DOMAIN updates' /\ updates'[i] = updates[i]
         /\ \A i \in DOMAIN updates' : i \in DOMAIN updates \/ i = Len(updates) + 1
         /\ updates'[Len(updates) + 1] = s
         /\ \A t : Said(t)' <=> Said(t) \/ t = s
  <1>1. updates \in Seq(States) /\ Len(updates) \in Nat
    BY LenProperties DEF TypeOK
  <1>2. /\ Len(updates') = Len(updates) + 1
        /\ \A i \in 1..Len(updates) : updates'[i] = updates[i]
        /\ updates'[Len(updates) + 1] = s
        /\ DOMAIN updates' = 1..(Len(updates) + 1)
    <2>1. updates \in Seq(States \cup {s}) BY <1>1, SeqMonotonic
    <2>2. s \in States \cup {s} OBVIOUS
    <2>3. updates' \in Seq(States \cup {s}) BY <2>1, <2>2, AppendProperties DEF Publish
    <2> QED BY <2>1, <2>2, <2>3, AppendProperties, LenProperties DEF Publish
  <1>3. DOMAIN updates = 1..Len(updates) BY <1>1, LenProperties
  <1>4. /\ \A i \in DOMAIN updates : i \in DOMAIN updates' /\ updates'[i] = updates[i]
        /\ \A i \in DOMAIN updates' : i \in DOMAIN updates \/ i = Len(updates) + 1
        /\ Len(updates) + 1 \in DOMAIN updates'
    BY <1>1, <1>2, <1>3
  <1>5. ASSUME NEW t PROVE Said(t)' <=> Said(t) \/ t = s
    BY <1>2, <1>4 DEF Said
  <1> QED BY <1>2, <1>4, <1>5

\* What may follow what.
LEMMA SaidInOrder ==
  ASSUME TypeOK, UpdatesInv, NEW s, Publish(s),
         s = "Connected" => ~Said("Stopped"),
         s = "Failed" => ~Said("Failed") \/ NotStarted',
         NotStarted => NotStarted'
  PROVE  UpdatesInv'
  <1>1. Len(updates) \in Nat /\ DOMAIN updates = 1..Len(updates)
    BY LenProperties DEF TypeOK
  <1> SUFFICES ASSUME NEW i \in DOMAIN updates', NEW j \in DOMAIN updates', i < j
               PROVE  /\ updates'[i] = "Failed" /\ updates'[j] = "Failed" => NotStarted'
                      /\ updates'[i] = "Stopped" => updates'[j] # "Connected"
    BY DEF UpdatesInv
  <1>2. i \in DOMAIN updates /\ updates'[i] = updates[i]
    <2>1. DOMAIN updates' = 1..(Len(updates) + 1)
      <3>1. updates \in Seq(States \cup {s}) /\ s \in States \cup {s}
        BY SeqMonotonic DEF TypeOK
      <3>2. updates' \in Seq(States \cup {s}) /\ Len(updates') = Len(updates) + 1
        BY <3>1, AppendProperties DEF Publish
      <3> QED BY <3>2, LenProperties
    <2>2. i \in 1..Len(updates) BY <2>1, <1>1
    <2> QED BY <2>2, <1>1, SaidMore
  <1>3. CASE j \in DOMAIN updates
    <2>1. updates'[j] = updates[j] BY <1>3, SaidMore
    <2> QED BY <1>2, <1>3, <2>1 DEF UpdatesInv
  <1>4. CASE j \notin DOMAIN updates
    <2>1. updates'[j] = s BY <1>4, SaidMore
    <2> QED BY <1>2, <2>1 DEF Said
  <1> QED BY <1>3, <1>4

LEMMA SaidSame ==
  ASSUME UNCHANGED updates PROVE \A t : Said(t)' <=> Said(t)
  BY DEF Said

LEMMA SaidNothing == updates = << >> => \A t : ~Said(t)
  BY DEF Said

\* Steps that publish nothing and do not open the connection.
LEMMA ConnectQuiet ==
  ASSUME QueueInv, ConnectInv, UNCHANGED <<handled, updates, queue>>,
         reader' \in Connecting => reader \in Connecting,
         writer' = "pop" => writer \in {"write", "pop"},
         ui' # "stopped" => ui # "stopped"
  PROVE  ConnectInv'
  <1>1. handled' <= Len(updates') BY DEF ConnectInv
  <1>2. ASSUME reader' \in Connecting
        PROVE  /\ queue' = << >> /\ writer' # "pop"
               /\ ui' # "stopped" => ~Said("Connected")' /\ ~Said("Stopped")'
    <2>1. /\ queue = << >> /\ writer # "pop"
          /\ ui # "stopped" => ~Said("Connected") /\ ~Said("Stopped")
      BY <1>2 DEF ConnectInv
    <2>2. writer # "write" BY <2>1 DEF QueueInv
    <2> QED BY <2>1, <2>2, SaidSame
  <1> QED BY <1>1, <1>2 DEF ConnectInv

\* Once the connection is made, or given up, nothing is left to keep but the count.
LEMMA ConnectLeft ==
  ASSUME reader' \notin Connecting, handled' <= Len(updates') PROVE ConnectInv'
  BY DEF ConnectInv

LEMMA FailQuiet ==
  ASSUME FailInv, UNCHANGED <<updates, failed>>,
         reader' \in Failing => reader \in Failing,
         writer' \in Failing => writer \in Failing,
         reader = "done" => reader' = "done",
         ui' # "stopped" => ui # "stopped"
  PROVE  FailInv'
  BY SaidSame DEF FailInv

LEMMA UpdatesQuiet ==
  ASSUME UpdatesInv, UNCHANGED updates, NotStarted => NotStarted' PROVE UpdatesInv'
  BY DEF UpdatesInv

SaidInv == ConnectInv /\ FailInv /\ UpdatesInv

\* The same for the three parts at once.
LEMMA SaidQuiet ==
  ASSUME QueueInv, SaidInv, UNCHANGED <<handled, updates, failed, queue>>,
         reader' \in Connecting => reader \in Connecting,
         writer' = "pop" => writer \in {"write", "pop"},
         reader' \in Failing => reader \in Failing,
         writer' \in Failing => writer \in Failing,
         reader = "done" => reader' = "done",
         ui' # "stopped" <=> ui # "stopped",
         reader = "off" /\ ui = "stopped" => reader' = "off"
  PROVE  SaidInv'
  <1>1. ConnectInv' BY ConnectQuiet DEF SaidInv
  <1>2. FailInv' BY FailQuiet DEF SaidInv
  <1>3. UpdatesInv' BY UpdatesQuiet DEF SaidInv, NotStarted
  <1> QED BY <1>1, <1>2, <1>3 DEF SaidInv

LEMMA FailSaid ==
  ASSUME TypeOK, QueueInv, SaidInv, StopInv, NEW th \in {"reader", "writer"}, Fail(th)
  PROVE  SaidInv'
  <1> USE DEF Connecting, Failing, FailSteps
  <1>1. UNCHANGED <<handled, queue, ui>>
    BY DEF Fail, FailTakes, FailSignals, FailNotifies, FailPublishes, uiVars
  <1>2. /\ th = "reader" => /\ reader \in FailSteps /\ reader' \in FailSteps \cup {"done"}
                            /\ writer' \in {writer, "test"}
        /\ th = "writer" => /\ writer \in FailSteps /\ writer' \in FailSteps \cup {"done"}
                            /\ UNCHANGED reader
    BY NotifiedKeeps
       DEF Fail, FailTakes, FailSignals, FailNotifies, FailPublishes, ThreadGoes
  <1>3. reader' \in Connecting => th = "writer" /\ reader \in Connecting
    BY <1>2
  <1>4. ui # "stopped" BY <1>2 DEF StopInv
  <1>8. writer' = "pop" => writer = "pop" BY <1>2
  <1>5. CASE FailTakes(th)
    <2>1. failed' = TRUE /\ UNCHANGED updates
      BY <1>5 DEF FailTakes
    <2>2. ConnectInv' BY <1>1, <1>3, <1>8, <2>1, ConnectQuiet DEF SaidInv
    <2>3. UpdatesInv' BY <1>4, <2>1, UpdatesQuiet DEF SaidInv, NotStarted
    <2>4. /\ th = "reader" => reader = "fail" /\ UNCHANGED writer
                              /\ reader' = IF failed THEN "done" ELSE "failSignal"
          /\ th = "writer" => writer = "fail" /\ UNCHANGED reader
                              /\ writer' = IF failed THEN "done" ELSE "failSignal"
      BY <1>5 DEF FailTakes, ThreadGoes
    <2>5. CASE failed
      <3>1. reader' \in Failing => reader \in Failing BY <2>4, <2>5
      <3>2. writer' \in Failing => writer \in Failing BY <2>4, <2>5
      <3>3. reader = "done" => reader' = "done" BY <2>4
      <3>4. UNCHANGED failed BY <2>1, <2>5 DEF TypeOK
      <3>5. FailInv' BY <1>1, <2>1, <3>1, <3>2, <3>3, <3>4, FailQuiet DEF SaidInv
      <3> QED BY <2>2, <2>3, <3>5 DEF SaidInv
    <2>6. CASE ~failed
      <3>1. ~Said("Failed") /\ reader \notin Failing /\ writer \notin Failing
        BY <2>6, <1>4 DEF SaidInv, FailInv
      <3>2. Said("Stopped") => reader = "done" BY <1>4 DEF SaidInv, FailInv
      <3>3. ~Said("Failed")' /\ (Said("Stopped")' <=> Said("Stopped"))
        BY <2>1, <3>1, SaidSame
      <3>4. FailInv' BY <2>1, <2>4, <3>1, <3>2, <3>3 DEF FailInv
      <3> QED BY <2>2, <2>3, <3>4 DEF SaidInv
    <2> QED BY <2>5, <2>6
  <1>6. CASE FailSignals(th) \/ FailNotifies(th)
    <2>1. UNCHANGED <<updates, failed>>
      BY <1>6 DEF FailSignals, FailNotifies, atomics
    <2>2. /\ reader' \in Failing => reader \in Failing
          /\ writer' \in Failing => writer \in Failing
      BY <1>6, NotifiedKeeps DEF FailSignals, FailNotifies, ThreadGoes
    <2>3. reader = "done" => reader' = "done" BY <1>2
    <2> QED BY <1>1, <1>3, <1>4, <1>8, <2>1, <2>2, <2>3, SaidQuiet
  <1>7. CASE FailPublishes(th)
    <2>1. Publish("Failed") /\ UNCHANGED failed
      BY <1>7 DEF FailPublishes, atomics
    <2>2. /\ th = "reader" => reader = "failPublish" /\ reader' = "done" /\ UNCHANGED writer
          /\ th = "writer" => writer = "failPublish" /\ writer' = "done" /\ UNCHANGED reader
      BY <1>7 DEF FailPublishes, ThreadGoes
    <2>3. failed /\ ~Said("Failed") BY <1>4, <2>2 DEF SaidInv, FailInv
    <2>4. UpdatesInv' BY <1>4, <2>1, <2>3, SaidInOrder DEF SaidInv, NotStarted
    <2>5. ConnectInv'
      <3>1. Len(updates') = Len(updates) + 1 /\ Len(updates) \in Nat
        BY <2>1, SaidMore, LenProperties DEF TypeOK
      <3>2. handled' <= Len(updates')
        BY <3>1, <1>1 DEF SaidInv, ConnectInv, TypeOK
      <3>3. /\ Said("Connected")' <=> Said("Connected")
            /\ Said("Stopped")' <=> Said("Stopped")
        BY <2>1, SaidMore
      <3> QED BY <3>2, <3>3, <1>1, <1>3, <1>8 DEF SaidInv, ConnectInv
    <2>6. FailInv'
      <3>1. Said("Stopped")' => Said("Stopped") BY <2>1, SaidMore
      <3>2. Said("Stopped") => reader = "done" BY <1>4 DEF SaidInv, FailInv
      <3>3. reader' \notin Failing /\ writer' \notin Failing
        BY <2>2 DEF SaidInv, FailInv
      <3>4. reader = "done" => reader' = "done" BY <2>2
      <3> QED BY <2>1, <2>3, <3>1, <3>2, <3>3, <3>4 DEF FailInv
    <2> QED BY <2>4, <2>5, <2>6 DEF SaidInv
  <1> QED BY <1>5, <1>6, <1>7 DEF Fail

LEMMA UiSaid == TypeOK /\ QueueInv /\ SaidInv /\ StopInv /\ UiActions => SaidInv'
  <1> SUFFICES ASSUME TypeOK, QueueInv, SaidInv, StopInv, UiActions PROVE SaidInv' OBVIOUS
  <1> USE DEF Connecting, Failing, FailSteps
  <1>1. CASE StartLaunches
    <2>1. /\ Publish("Starting") /\ ui = "new" /\ ui' = "launched" /\ writer' = "begin"
          /\ UNCHANGED <<handled, queue, failed, reader>>
      BY <1>1 DEF StartLaunches
    <2>2. reader = "off" /\ \A t : ~Said(t)
      BY <2>1, SaidNothing DEF StopInv
    <2>3. ~Said("Failed")' /\ ~Said("Stopped")' /\ ~Said("Connected")'
      BY <2>1, <2>2, SaidMore
    <2>4. UpdatesInv' BY <2>1, <2>2, SaidInOrder DEF SaidInv, NotStarted
    <2>5. FailInv' BY <2>1, <2>2, <2>3 DEF FailInv
    <2>6. handled' <= Len(updates')
      <3>1. Len(updates') = Len(updates) + 1 /\ Len(updates) \in Nat
        BY <2>1, SaidMore, LenProperties DEF TypeOK
      <3> QED BY <3>1, <2>1 DEF SaidInv, ConnectInv, TypeOK
    <2>7. ConnectInv'
      <3>1. queue = << >> BY <2>2 DEF SaidInv, ConnectInv
      <3> QED BY <2>1, <2>3, <2>6, <3>1 DEF ConnectInv
    <2> QED BY <2>4, <2>5, <2>7 DEF SaidInv
  <1>2. CASE StartFails
    <2>1. /\ updates = << >> /\ updates' = updates \o <<"Starting", "Failed">>
          /\ ui' = "stopped" /\ reader = "off"
          /\ UNCHANGED <<handled, queue, failed, reader, writer>>
      BY <1>2 DEF StartFails, StopInv, atomics
    <2>2. updates' = <<"Starting", "Failed">> BY <2>1
    <2>3. UpdatesInv' BY <2>2 DEF UpdatesInv
    <2>4. FailInv' BY <2>1 DEF FailInv, SaidInv
    <2>5. handled = 0
      <3>1. handled <= 0 BY <2>1 DEF SaidInv, ConnectInv
      <3> QED BY <3>1 DEF TypeOK
    <2>6. ConnectInv' BY <2>1, <2>2, <2>5 DEF ConnectInv, SaidInv
    <2> QED BY <2>3, <2>4, <2>6 DEF SaidInv
  <1>3. CASE CleanupJoins
    <2>1. /\ Publish("Failed") /\ ui = "cleanupJoin" /\ ui' = "stopped" /\ reader = "off"
          /\ UNCHANGED <<handled, queue, failed, reader, writer>>
      BY <1>3 DEF CleanupJoins, StopInv, atomics
    <2>2. queue = << >> /\ writer = "done"
      BY <1>3, <2>1 DEF SaidInv, ConnectInv, CleanupJoins
    <2>3. UpdatesInv' BY <2>1, SaidInOrder DEF SaidInv, NotStarted
    <2>4. FailInv' BY <2>1, <2>2 DEF FailInv
    <2>5. handled' <= Len(updates')
      <3>1. Len(updates') = Len(updates) + 1 /\ Len(updates) \in Nat
        BY <2>1, SaidMore, LenProperties DEF TypeOK
      <3> QED BY <3>1, <2>1 DEF SaidInv, ConnectInv, TypeOK
    <2>6. ConnectInv' BY <2>1, <2>2, <2>5 DEF ConnectInv
    <2> QED BY <2>3, <2>4, <2>6 DEF SaidInv
  <1>4. CASE StopJoins
    <2>1. /\ Publish("Stopped") /\ ui' = "stopped" /\ reader = "done" /\ writer = "done"
          /\ UNCHANGED <<handled, reader, writer>>
      BY <1>4 DEF StopJoins
    <2>2. UpdatesInv' BY <2>1, SaidInOrder DEF SaidInv, NotStarted
    <2>3. FailInv' BY <2>1 DEF FailInv
    <2>4. handled' <= Len(updates')
      <3>1. Len(updates') = Len(updates) + 1 /\ Len(updates) \in Nat
        BY <2>1, SaidMore, LenProperties DEF TypeOK
      <3> QED BY <3>1, <2>1 DEF SaidInv, ConnectInv, TypeOK
    <2>5. ConnectInv' BY <2>1, <2>4, ConnectLeft
    <2> QED BY <2>2, <2>3, <2>5 DEF SaidInv
  <1>5. CASE HandleAssistantHostState
    <2>1. /\ handled' = handled + 1 /\ handled < Len(updates) /\ UNCHANGED ui
          /\ UNCHANGED <<updates, queue, failed, reader, writer>>
      BY <1>5 DEF HandleAssistantHostState, atomics
    <2>2. handled' <= Len(updates')
      <3>1. Len(updates) \in Nat /\ handled \in Nat BY LenProperties DEF TypeOK
      <3> QED BY <2>1, <3>1
    <2>3. UpdatesInv' BY <2>1, UpdatesQuiet DEF SaidInv, NotStarted
    <2>4. FailInv' BY <2>1, FailQuiet DEF SaidInv
    <2>5. ConnectInv' BY <2>1, <2>2, SaidSame DEF SaidInv, ConnectInv
    <2> QED BY <2>3, <2>4, <2>5 DEF SaidInv
  <1>6. ASSUME NEW isShutdown \in BOOLEAN, PostAccepted(isShutdown) PROVE SaidInv'
    <2>1. /\ UNCHANGED <<handled, updates, failed, reader, writer>>
          /\ ui = "idle" /\ ui' = "notify" /\ UiConnected
      BY <1>6 DEF PostAccepted
    <2>2. Said("Connected")
      <3>1. handled \in 1..Len(updates)
        BY <2>1, LenProperties DEF UiConnected, SaidInv, ConnectInv, TypeOK
      <3>2. handled \in DOMAIN updates BY <3>1, LenProperties DEF TypeOK
      <3> QED BY <2>1, <3>2 DEF UiConnected, Said
    <2>3. reader \notin Connecting BY <2>1, <2>2 DEF SaidInv, ConnectInv
    <2>4. UpdatesInv' BY <2>1, UpdatesQuiet DEF SaidInv, NotStarted
    <2>5. FailInv' BY <2>1, FailQuiet DEF SaidInv
    <2>6. ConnectInv' BY <2>1, <2>3, ConnectLeft DEF SaidInv, ConnectInv
    <2> QED BY <2>4, <2>5, <2>6 DEF SaidInv
  <1>7. CASE StartReader
    <2>1. /\ UNCHANGED <<handled, updates, failed, queue, writer>> /\ ui = "launched"
          /\ ui' # "stopped" /\ reader' \in {reader, "start"}
      BY <1>7 DEF StartReader, atomics
    <2>2. reader = "off" BY <2>1 DEF StopInv
    <2> QED BY <2>1, <2>2, SaidQuiet
  <1>8. CASE CleanupSignals \/ PostRefused \/ StopAssistant
    BY <1>8, SaidQuiet DEF CleanupSignals, PostRefused, StopAssistant, atomics
  <1>9. CASE StopBegins \/ StopGrace \/ StopSignals
    BY <1>9, SaidQuiet DEF StopBegins, StopGrace, StopSignals, atomics
  <1>10. CASE CleanupNotifies \/ PostNotifies \/ StopNotifies
    <2>1. /\ UNCHANGED <<handled, updates, failed, queue, reader>> /\ writer' = WriterNotified
          /\ ui' # "stopped" /\ ui # "stopped"
      BY <1>10 DEF CleanupNotifies, PostNotifies, StopNotifies, atomics
    <2> QED BY <2>1, NotifiedKeeps, SaidQuiet
  <1> QED
    BY <1>1, <1>2, <1>3, <1>4, <1>5, <1>6, <1>7, <1>8, <1>9, <1>10
       DEF UiActions, UiCalls, UiRequests

LEMMA ReaderSaid ==
  TypeOK /\ QueueInv /\ SaidInv /\ StopInv /\ (ReaderMain \/ ReaderFails) => SaidInv'
  <1> SUFFICES ASSUME TypeOK, QueueInv, SaidInv, StopInv, ReaderMain \/ ReaderFails
               PROVE  SaidInv'
    OBVIOUS
  <1> USE DEF Connecting, Failing, FailSteps
  <1>1. ASSUME NEW s, Publish(s), reader \notin {"off", "done"}, reader' \notin Failing,
               reader \notin Failing, reader' # "done" => s # "Stopped",
               UNCHANGED <<handled, failed, queue, writer, ui>>,
               s \in {"WaitingForConnection", "Stopped"} \/ (s = "Connected" /\ reader' = "notify"),
               s # "Stopped" => reader \in Connecting,
               s = "Stopped" => reader \notin Connecting,
               reader' \in Connecting => reader \in Connecting
        PROVE  SaidInv'
    <2>1. ui # "stopped" BY <1>1 DEF StopInv
    <2>2. s # "Stopped" => ~Said("Connected") /\ ~Said("Stopped")
      BY <1>1, <2>1 DEF SaidInv, ConnectInv
    <2>3. UpdatesInv' BY <1>1, <2>1, <2>2, SaidInOrder DEF SaidInv, NotStarted
    <2>4. FailInv'
      <3>1. Said("Failed")' <=> Said("Failed") BY <1>1, SaidMore
      <3>2. Said("Stopped")' => reader' = "done"
        <4>1. ~Said("Stopped") BY <1>1, <2>1 DEF SaidInv, FailInv
        <4> QED BY <1>1, <4>1, SaidMore
      <3> QED BY <1>1, <2>1, <3>1, <3>2 DEF SaidInv, FailInv
    <2>5. handled' <= Len(updates')
      <3>1. Len(updates') = Len(updates) + 1 /\ Len(updates) \in Nat
        BY <1>1, SaidMore, LenProperties DEF TypeOK
      <3> QED BY <3>1, <1>1 DEF SaidInv, ConnectInv, TypeOK
    <2>6. CASE reader' \in Connecting
      <3>1. s = "WaitingForConnection" /\ reader \in Connecting BY <1>1, <2>6
      <3>2. ~Said("Connected")' /\ ~Said("Stopped")'
        BY <1>1, <2>2, <3>1, SaidMore
      <3>3. queue = << >> /\ writer # "pop"
        BY <3>1 DEF SaidInv, ConnectInv
      <3>4. ConnectInv' BY <1>1, <2>5, <3>2, <3>3 DEF ConnectInv
      <3> QED BY <2>3, <2>4, <3>4 DEF SaidInv
    <2>7. CASE reader' \notin Connecting
      BY <2>3, <2>4, <2>5, <2>7, ConnectLeft DEF SaidInv
    <2> QED BY <2>6, <2>7
  <1>2. CASE ReaderStarts
    BY <1>1, <1>2 DEF ReaderStarts, ReaderOnly, uiVars, atomics
  <1>3. CASE ReaderPublishesConnected
    BY <1>1, <1>3 DEF ReaderPublishesConnected, ReaderOnly, uiVars, atomics
  <1>4. CASE ReaderClosePublishes
    BY <1>1, <1>4 DEF ReaderClosePublishes, ReaderOnly, uiVars, atomics
  <1>5. CASE ReaderConnects \/ ReaderCannotConnect
    BY <1>5, SaidQuiet DEF ReaderConnects, ReaderCannotConnect, ReaderOnly, uiVars, atomics
  <1>6. CASE ReaderStopped \/ ReaderMarksConnected
    BY <1>6, SaidQuiet DEF ReaderStopped, ReaderMarksConnected, ReaderOnly, uiVars, atomics
  <1>7. CASE ReaderDisconnected \/ ReaderCloses
    BY <1>7, SaidQuiet DEF ReaderDisconnected, ReaderCloses, ReaderOnly, uiVars, atomics
  <1>8. CASE ReaderNotifies \/ ReaderCloseNotifies
    BY <1>8, SaidQuiet, NotifiedKeeps DEF ReaderNotifies, ReaderCloseNotifies, uiVars, atomics
  <1>9. CASE ReaderFails
    BY <1>9, SaidQuiet DEF ReaderFails, ReaderOnly, uiVars, atomics
  <1>10. CASE Fail("reader") BY <1>10, FailSaid
  <1> QED
    BY <1>2, <1>3, <1>4, <1>5, <1>6, <1>7, <1>8, <1>9, <1>10 DEF ReaderMain

LEMMA WriterSaid == TypeOK /\ QueueInv /\ SaidInv /\ StopInv /\ WriterActions => SaidInv'
  <1> SUFFICES ASSUME TypeOK, QueueInv, SaidInv, StopInv, WriterActions PROVE SaidInv' OBVIOUS
  <1>1. CASE WriterMoves
    BY <1>1, WriterMovesOnly, SaidQuiet DEF WriterOnly, uiVars, atomics
  <1>2. CASE Fail("writer") BY <1>2, FailSaid
  <1>3. CASE WriterWrites
    BY <1>3, SaidQuiet DEF WriterWrites, WriterOnly, uiVars, atomics, Failing, FailSteps
  <1>4. CASE WriterPops
    <2>1. /\ UNCHANGED <<handled, updates, failed, reader, ui>>
          /\ writer = "pop" /\ writer' = "top"
      BY <1>4 DEF WriterPops, WriterOnly, uiVars, atomics
    <2>2. reader \notin Connecting BY <2>1 DEF SaidInv, ConnectInv
    <2>3. UpdatesInv' BY <2>1, UpdatesQuiet DEF SaidInv, NotStarted
    <2>4. FailInv' BY <2>1, FailQuiet DEF SaidInv, Failing
    <2>5. ConnectInv' BY <2>1, <2>2, ConnectLeft DEF SaidInv, ConnectInv
    <2> QED BY <2>3, <2>4, <2>5 DEF SaidInv
  <1> QED BY <1>1, <1>2, <1>3, <1>4 DEF WriterActions, WriterMain, WriterMoves

LEMMA NextSaid == TypeOK /\ QueueInv /\ SaidInv /\ StopInv /\ [Next]_vars => SaidInv'
  <1> SUFFICES ASSUME TypeOK, QueueInv, SaidInv, StopInv, [Next]_vars PROVE SaidInv' OBVIOUS
  <1>1. CASE UNCHANGED vars
    BY <1>1, SaidQuiet DEF vars, uiVars, atomics
  <1>2. CASE ChildActions
    BY <1>2, SaidQuiet DEF ChildActions, ChildConnects, ChildExits, uiVars, atomics
  <1> QED BY <1>1, <1>2, Actions, UiSaid, ReaderSaid, WriterSaid
-----------------------------------------------------------------------------
(* What Start and StopAndJoin leave. *)

LEMMA UiStop == TypeOK /\ StopInv /\ UiActions => StopInv'
  <1> SUFFICES ASSUME TypeOK, StopInv, UiActions PROVE StopInv' OBVIOUS
  <1>1. Terminated \in {"none", "exited"} /\ (child = "exited" => Terminated = "exited")
    BY DEF Terminated
  <1>2. CASE StartLaunches \/ StartFails
    BY <1>2 DEF StartLaunches, StartFails, StopInv
  <1>3. CASE StartReader \/ CleanupSignals
    BY <1>3 DEF StartReader, CleanupSignals, StopInv
  <1>4. CASE CleanupNotifies
    BY <1>4, <1>1 DEF CleanupNotifies, StopInv
  <1>5. CASE CleanupJoins
    BY <1>5 DEF CleanupJoins, StopInv
  <1>6. CASE HandleAssistantHostState \/ PostRefused \/ StopAssistant
    BY <1>6 DEF HandleAssistantHostState, PostRefused, StopAssistant, StopInv
  <1>7. ASSUME NEW isShutdown \in BOOLEAN, PostAccepted(isShutdown) PROVE StopInv'
    BY <1>7 DEF PostAccepted, StopInv
  <1>8. CASE PostNotifies
    BY <1>8 DEF PostNotifies, StopInv
  <1>9. CASE StopBegins \/ StopSignals
    BY <1>9 DEF StopBegins, StopSignals, StopInv
  <1>10. CASE StopGrace
    BY <1>10 DEF StopGrace, StopInv
  <1>11. CASE StopNotifies
    BY <1>11, <1>1 DEF StopNotifies, StopInv
  <1>12. CASE StopJoins
    BY <1>12 DEF StopJoins, StopInv
  <1> QED
    BY <1>2, <1>3, <1>4, <1>5, <1>6, <1>7, <1>8, <1>9, <1>10, <1>11, <1>12
       DEF UiActions, UiCalls, UiRequests

\* The threads leave the UI thread's place and the process alone, but for Fail,
\* which ends it; a thread that is off or done stays so.
LEMMA ThreadsStop ==
  ASSUME StopInv, UNCHANGED <<ui, childExited>>,
         child' \in {child, Terminated},
         ui = "new" => UNCHANGED <<writer, updates>>,
         reader = "off" => reader' = "off",
         ui = "stopped" => UNCHANGED <<reader, writer>>
  PROVE  StopInv'
  <1>1. /\ child = "none" => child' = "none"
        /\ child = "exited" => child' = "exited"
    BY DEF Terminated
  <1> QED BY <1>1 DEF StopInv

LEMMA NextStop == TypeOK /\ StopInv /\ [Next]_vars => StopInv'
  <1> SUFFICES ASSUME TypeOK, StopInv, [Next]_vars PROVE StopInv' OBVIOUS
  <1> DEFINE idle == {"off", "done"}
  <1>1. CASE UNCHANGED vars
    BY <1>1, ThreadsStop DEF vars, uiVars
  <1>2. CASE ChildActions
    BY <1>2 DEF ChildActions, ChildConnects, ChildExits, uiVars, StopInv
  <1>3. ASSUME NEW th \in {"reader", "writer"}, Fail(th) PROVE StopInv'
    <2>1. UNCHANGED <<ui, childExited>> /\ child' \in {child, Terminated}
      BY <1>3 DEF Fail, FailTakes, FailSignals, FailNotifies, FailPublishes, uiVars
    <2>2. (th = "reader" => reader \in FailSteps) /\ (th = "writer" => writer \in FailSteps)
      BY <1>3
         DEF Fail, FailTakes, FailSignals, FailNotifies, FailPublishes, ThreadGoes, FailSteps
    <2>3. ui # "new" /\ ui # "stopped" BY <2>2 DEF StopInv, FailSteps
    <2>4. reader = "off" => reader' = "off"
      BY <1>3, <2>2
         DEF Fail, FailTakes, FailSignals, FailNotifies, FailPublishes, ThreadGoes, FailSteps
    <2> QED BY <2>1, <2>3, <2>4, ThreadsStop
  <1>4. CASE ReaderMain \/ ReaderFails
    <2>1. CASE Fail("reader") BY <2>1, <1>3
    <2>2. CASE ~Fail("reader")
      <3>1. UNCHANGED <<ui, childExited, child>> /\ reader \notin idle
        BY <1>4, <2>2
           DEF ReaderMain, ReaderStarts, ReaderConnects, ReaderCannotConnect, ReaderStopped,
               ReaderMarksConnected, ReaderPublishesConnected, ReaderNotifies,
               ReaderDisconnected, ReaderCloses, ReaderCloseNotifies, ReaderClosePublishes,
               ReaderFails, ReaderOnly, uiVars
      <3>2. ui # "new" /\ ui # "stopped" BY <3>1 DEF StopInv
      <3> QED BY <3>1, <3>2, ThreadsStop
    <2> QED BY <2>1, <2>2
  <1>5. CASE WriterActions
    <2>1. CASE Fail("writer") BY <2>1, <1>3
    <2>2. CASE WriterMoves \/ WriterWrites \/ WriterPops
      <3>1. WriterOnly /\ writer \notin idle
        BY <2>2, WriterMovesOnly DEF WriterWrites, WriterPops
      <3>2. ui # "new" /\ ui # "stopped" BY <3>1 DEF StopInv
      <3> QED BY <3>1, <3>2, ThreadsStop DEF WriterOnly, uiVars
    <2> QED BY <1>5, <2>1, <2>2 DEF WriterActions, WriterMain, WriterMoves
  <1> QED BY <1>1, <1>2, <1>4, <1>5, Actions, UiStop
-----------------------------------------------------------------------------
(* The theorems. *)

LEMMA InitInv == Init => Inv
  <1> SUFFICES ASSUME Init PROVE Inv OBVIOUS
  <1>1. TypeOK BY InitType
  <1>2. QueueInv BY DEF Init, QueueInv
  <1>3. UpdatesInv BY DEF Init, UpdatesInv
  <1>4. \A t : ~Said(t) BY SaidNothing DEF Init
  <1>5. ConnectInv BY <1>4 DEF Init, ConnectInv
  <1>6. FailInv BY <1>4 DEF Init, FailInv, Failing
  <1>7. StopInv BY DEF Init, StopInv
  <1> QED BY <1>1, <1>2, <1>3, <1>5, <1>6, <1>7 DEF Inv

\* Three threads and a process share one bridge.  In every reachable state what
\* was posted is what was written and what is queued, nothing is posted before
\* "Connected" although a thread may have failed by then, and at most one thread is
\* about to report the failure.
THEOREM Invariant == Spec => []Inv
  <1>1. Inv /\ [Next]_vars => Inv'
    BY NextType, NextQueue, NextSaid, NextStop DEF Inv, SaidInv
  <1> QED BY InitInv, <1>1, PTL DEF Spec

\* The bridge's variables keep their types and the queue its bound, for any bound.
THEOREM TypeCorrect == Spec => []TypeOK
  <1>1. Inv => TypeOK BY DEF Inv
  <1> QED BY <1>1, Invariant, PTL

\* What Post accepted reaches the child once and in its order, though the writer
\* leaves the frame queued while it writes without the lock; and a failure is reported
\* once, whenever the threads fail, unless Start reports one of its own.
THEOREM NothingEverOutOfOrder == Spec => []NothingOutOfOrder
  <1>1. Inv => NothingOutOfOrder
    <2> SUFFICES ASSUME Inv PROVE NothingOutOfOrder OBVIOUS
    <2>1. \A i \in 1..Len(sent) : i <= Len(posted) /\ sent[i] = posted[i]
      BY DEF Inv, QueueInv
    <2>2. Len(sent) <= Len(posted)
      <3>1. Len(sent) \in Nat /\ Len(posted) \in Nat BY LenProperties DEF Inv, TypeOK
      <3>2. Len(sent) = 0 \/ Len(sent) \in 1..Len(sent) BY <3>1
      <3> QED BY <2>1, <3>1, <3>2
    <2> QED BY <2>1, <2>2 DEF Inv, UpdatesInv, NotStarted, NothingOutOfOrder
  <1> QED BY <1>1, Invariant, PTL

\* A bridge that has stopped, or whose start failed, has no process and no thread
\* that could still publish or write.
THEOREM StoppedAlwaysLeavesNothing == Spec => []StoppedLeavesNothing
  <1>1. Inv => StoppedLeavesNothing BY DEF Inv, StopInv, StoppedLeavesNothing
  <1> QED BY <1>1, Invariant, PTL

-----------------------------------------------------------------------------
(* The bridge implements the channel. *)

Gone       == {"none", "exited"}
ReaderEnds == {"failNotify", "failPublish", "closeNotify", "closePublish"}
WriterEnds == {"failNotify", "failPublish"}
CloseSteps == {"new", "cleanupNotify", "cleanupJoin", "grace", "signal", "stopNotify", "join",
               "stopped"}

\* What has been said where the reader is, and once something is queued.
Unconnected == {"connect", "mark", "publish"}
Talking     == {"notify", "read", "closing", "closeNotify", "closePublish"}
SpokenInv ==
  /\ reader \in {"off", "start"} /\ ui # "stopped" => ~Said("WaitingForConnection")
  /\ reader \in Unconnected => Said("WaitingForConnection")
  /\ reader \in Talking => Said("Connected")
  /\ queue # << >> => Said("Connected")

\* The process is gone and Post refuses before the window is told of the end.
Ended ==
  \/ Said("Failed") \/ Said("Stopped")
  \/ reader \in ReaderEnds \/ writer \in WriterEnds
EndedInv ==
  /\ Ended \/ reader = "closing" => child \in Gone
  /\ Ended \/ ui \in CloseSteps => ~accepting

ChannelInv == SpokenInv /\ EndedInv

\* Steps that publish nothing.
LEMMA SpokenQuiet ==
  ASSUME SpokenInv, UNCHANGED updates,
         reader' \in {"off", "start"} => reader \in {"off", "start"},
         reader' \in Unconnected => reader \in Unconnected,
         reader' \in Talking => reader \in Talking,
         ui' # "stopped" => ui # "stopped",
         queue' # << >> => queue # << >>
  PROVE  SpokenInv'
  <1>1. \A t : Said(t)' <=> Said(t) BY SaidSame
  <1> QED BY <1>1 DEF SpokenInv

LEMMA EndedQuiet ==
  ASSUME EndedInv, UNCHANGED updates,
         child \in Gone => child' \in Gone,
         accepting' => accepting,
         reader' \in ReaderEnds \cup {"closing"} =>
           reader \in ReaderEnds \cup {"closing"} \/ child' \in Gone,
         reader' \in ReaderEnds => reader \in ReaderEnds \/ ~accepting',
         writer' \in WriterEnds => writer \in WriterEnds \/ (child' \in Gone /\ ~accepting'),
         ui' \in CloseSteps => ui \in CloseSteps \/ ~accepting'
  PROVE  EndedInv'
  <1>1. /\ Said("Failed")' <=> Said("Failed")
        /\ Said("Stopped")' <=> Said("Stopped")
    BY SaidSame
  <1>2. Ended' \/ reader' = "closing" => child' \in Gone
    <2>1. Ended \/ reader = "closing" => child' \in Gone BY DEF EndedInv
    <2> QED BY <1>1, <2>1 DEF Ended
  <1>3. Ended' \/ ui' \in CloseSteps => ~accepting'
    <2>1. Ended \/ ui \in CloseSteps => ~accepting' BY DEF EndedInv
    <2> QED BY <1>1, <2>1 DEF Ended
  <1> QED BY <1>2, <1>3 DEF EndedInv

LEMMA ChannelQuiet ==
  ASSUME ChannelInv, UNCHANGED updates,
         reader' \in {"off", "start"} => reader \in {"off", "start"},
         reader' \in Unconnected => reader \in Unconnected,
         reader' \in Talking => reader \in Talking,
         ui' # "stopped" => ui # "stopped",
         queue' # << >> => queue # << >>,
         child \in Gone => child' \in Gone,
         accepting' => accepting,
         reader' \in ReaderEnds \cup {"closing"} =>
           reader \in ReaderEnds \cup {"closing"} \/ child' \in Gone,
         reader' \in ReaderEnds => reader \in ReaderEnds \/ ~accepting',
         writer' \in WriterEnds => writer \in WriterEnds \/ (child' \in Gone /\ ~accepting'),
         ui' \in CloseSteps => ui \in CloseSteps \/ ~accepting'
  PROVE  ChannelInv'
  <1>1. SpokenInv' BY SpokenQuiet DEF ChannelInv
  <1>2. EndedInv' BY EndedQuiet DEF ChannelInv
  <1> QED BY <1>1, <1>2 DEF ChannelInv

\* The end is published when the process is gone and nothing is accepted.
LEMMA PublishesEnd ==
  ASSUME TypeOK, ChannelInv, NEW s \in {"Failed", "Stopped"}, Publish(s),
         child \in Gone, ~accepting, UNCHANGED <<child, accepting>>,
         queue' \in {queue, << >>},
         reader' \in {"off", "start"} /\ ui' # "stopped" =>
           reader \in {"off", "start"} /\ ui # "stopped",
         reader' \in Unconnected => reader \in Unconnected,
         reader' \in Talking => reader \in Talking
  PROVE  ChannelInv'
  <1>1. \A t : Said(t)' <=> Said(t) \/ t = s BY SaidMore
  <1>2. SpokenInv' BY <1>1 DEF SpokenInv, ChannelInv
  <1>3. EndedInv' BY DEF EndedInv
  <1> QED BY <1>2, <1>3 DEF ChannelInv

LEMMA UiChannel ==
  TypeOK /\ QueueInv /\ SaidInv /\ StopInv /\ ChannelInv /\ UiActions => ChannelInv'
  <1> SUFFICES ASSUME TypeOK, QueueInv, SaidInv, StopInv, ChannelInv, UiActions PROVE ChannelInv'
    OBVIOUS
  <1> USE DEF Gone, ReaderEnds, WriterEnds, CloseSteps, Unconnected, Talking
  <1>1. CASE StartLaunches
    <2>1. /\ updates = << >> /\ reader = "off" /\ reader' = "off" /\ writer' = "begin"
          /\ updates' = Append(updates, "Starting") /\ ui' = "launched" /\ queue' = queue
      BY <1>1 DEF StartLaunches, StopInv, Publish
    <2>2. updates' = <<"Starting">> BY <2>1
    <2>3. SpokenInv'
      <3>1. queue = << >> BY <2>1, SaidNothing DEF ChannelInv, SpokenInv
      <3>2. ~Said("WaitingForConnection")' BY <2>2 DEF Said
      <3> QED BY <2>1, <3>1, <3>2 DEF SpokenInv
    <2>4. EndedInv'
      <3>1. ~Said("Failed")' /\ ~Said("Stopped")' BY <2>2 DEF Said
      <3> QED BY <2>1, <3>1 DEF EndedInv, Ended
    <2> QED BY <2>3, <2>4 DEF ChannelInv
  <1>2. CASE StartFails
    <2>1. /\ updates = << >> /\ reader = "off" /\ child = "none" /\ queue' = queue /\ ui' = "stopped"
          /\ updates' = updates \o <<"Starting", "Failed">> /\ UNCHANGED <<reader, accepting, child>>
          /\ ui = "new"
      BY <1>2 DEF StartFails, StopInv, atomics
    <2>2. SpokenInv'
      <3>1. queue = << >> BY <2>1, SaidNothing DEF ChannelInv, SpokenInv
      <3> QED BY <2>1, <3>1 DEF SpokenInv
    <2>3. EndedInv'
      <3>1. ~accepting BY <2>1 DEF ChannelInv, EndedInv
      <3> QED BY <2>1, <3>1 DEF EndedInv, Ended
    <2> QED BY <2>2, <2>3 DEF ChannelInv
  <1>3. CASE CleanupJoins
    <2>1. /\ Publish("Failed") /\ ui = "cleanupJoin" /\ ui' = "stopped" /\ reader = "off"
          /\ UNCHANGED <<queue, reader, accepting, child>>
      BY <1>3 DEF CleanupJoins, StopInv, atomics
    <2>2. child \in Gone /\ ~accepting BY <2>1 DEF StopInv, ChannelInv, EndedInv
    <2> QED BY <2>1, <2>2, PublishesEnd
  <1>4. CASE StopJoins
    <2>1. /\ Publish("Stopped") /\ ui = "join" /\ ui' = "stopped" /\ reader' = "done"
          /\ queue' = << >> /\ UNCHANGED <<accepting, child>>
      BY <1>4 DEF StopJoins
    <2>2. child \in Gone /\ ~accepting BY <2>1 DEF StopInv, ChannelInv, EndedInv
    <2> QED BY <2>1, <2>2, PublishesEnd
  <1>5. CASE StartReader
    <2>1. /\ UNCHANGED <<updates, queue, writer, child, accepting>> /\ ui = "launched"
          /\ ui' \in {"idle", "cleanup"} /\ reader' \in {reader, "start"}
      BY <1>5 DEF StartReader, atomics
    <2>2. reader = "off" BY <2>1 DEF StopInv
    <2> QED BY <2>1, <2>2, ChannelQuiet
  <1>6. CASE CleanupSignals
    <2>1. /\ UNCHANGED <<updates, queue, reader, writer, child>> /\ ~accepting'
          /\ ui = "cleanup" /\ ui' = "cleanupNotify"
      BY <1>6 DEF CleanupSignals
    <2> QED BY <2>1, ChannelQuiet
  <1>7. CASE CleanupNotifies \/ StopNotifies
    <2>1. /\ UNCHANGED <<updates, queue, reader, accepting>> /\ writer' = WriterNotified
          /\ child' \in {child, Terminated} /\ ui \in CloseSteps /\ ui # "stopped" /\ ui # "new"
      BY <1>7 DEF CleanupNotifies, StopNotifies, atomics
    <2>2. writer' \in {writer, "test"} BY <2>1 DEF WriterNotified
    <2>3. child \in Gone => child' \in Gone BY <2>1 DEF Terminated
    <2> QED BY <2>1, <2>2, <2>3, ChannelQuiet
  <1>8. CASE HandleAssistantHostState \/ PostRefused \/ StopAssistant
    <2>1. /\ UNCHANGED <<updates, queue, reader, writer, child, accepting>>
          /\ ui = "idle" /\ ui' \in {"idle", "stop"}
      BY <1>8 DEF HandleAssistantHostState, PostRefused, StopAssistant, atomics
    <2> QED BY <2>1, ChannelQuiet
  <1>9. ASSUME NEW isShutdown \in BOOLEAN, PostAccepted(isShutdown) PROVE ChannelInv'
    <2>1. /\ UNCHANGED <<updates, reader, writer, child>> /\ accepting
          /\ ui = "idle" /\ ui' = "notify" /\ UiConnected
      BY <1>9 DEF PostAccepted
    <2>2. Said("Connected")
      <3>1. handled \in 1..Len(updates)
        BY <2>1, LenProperties DEF UiConnected, SaidInv, ConnectInv, TypeOK
      <3>2. handled \in DOMAIN updates BY <3>1, LenProperties DEF TypeOK
      <3> QED BY <2>1, <3>2 DEF UiConnected, Said
    <2>3. Said("Connected")' BY <2>1, <2>2 DEF Said
    <2>4. SpokenInv'
      <3>1. Said("WaitingForConnection")' <=> Said("WaitingForConnection") BY <2>1, SaidSame
      <3> QED BY <2>1, <2>3, <3>1 DEF SpokenInv, ChannelInv
    <2>5. EndedInv' BY <2>1, EndedQuiet DEF ChannelInv, EndedInv, Ended, Said
    <2> QED BY <2>4, <2>5 DEF ChannelInv
  <1>10. CASE PostNotifies
    <2>1. /\ UNCHANGED <<updates, queue, reader, child, accepting>>
          /\ ui = "notify" /\ ui' \in {"idle", "stop"} /\ writer' \in {writer, "test"}
      BY <1>10 DEF PostNotifies, atomics, WriterNotified
    <2> QED BY <2>1, ChannelQuiet
  <1>11. CASE StopBegins \/ StopGrace \/ StopSignals
    <2>1. /\ UNCHANGED <<updates, queue, reader, writer, child>>
          /\ ui \in {"stop", "grace", "signal"} /\ ui' \in {"grace", "signal", "stopNotify"}
          /\ ui = "stop" => ~accepting'
          /\ ui # "stop" => accepting' = accepting
      BY <1>11 DEF StopBegins, StopGrace, StopSignals, atomics
    <2> QED BY <2>1, ChannelQuiet DEF TypeOK
  <1> QED
    BY <1>1, <1>2, <1>3, <1>4, <1>5, <1>6, <1>7, <1>8, <1>9, <1>10, <1>11
       DEF UiActions, UiCalls, UiRequests

LEMMA FailChannel ==
  ASSUME TypeOK, QueueInv, SaidInv, StopInv, ChannelInv,
         NEW th \in {"reader", "writer"}, Fail(th)
  PROVE  ChannelInv'
  <1> USE DEF Gone, ReaderEnds, WriterEnds, CloseSteps, Unconnected, Talking
  <1>1. UNCHANGED <<queue, ui>>
    BY DEF Fail, FailTakes, FailSignals, FailNotifies, FailPublishes, uiVars
  <1>2. /\ th = "reader" => reader \in FailSteps
        /\ th = "writer" => writer \in FailSteps
    BY DEF Fail, FailTakes, FailSignals, FailNotifies, FailPublishes, ThreadGoes, FailSteps
  <1>4. ui # "stopped" BY <1>2 DEF StopInv, FailSteps
  <1>5. CASE FailTakes(th)
    <2>1. /\ UNCHANGED <<updates, child, accepting>>
          /\ reader' \in {reader, "done", "failSignal"} /\ writer' \in {writer, "done", "failSignal"}
      BY <1>5 DEF FailTakes, ThreadGoes
    <2> QED BY <1>1, <2>1, ChannelQuiet
  <1>6. CASE FailSignals(th)
    <2>1. /\ UNCHANGED updates /\ child' = Terminated /\ ~accepting'
          /\ reader' \in {reader, "failNotify"} /\ writer' \in {writer, "failNotify"}
      BY <1>6 DEF FailSignals, ThreadGoes
    <2>2. child' \in Gone BY <2>1 DEF Terminated
    <2> QED BY <1>1, <2>1, <2>2, ChannelQuiet
  <1>7. CASE FailNotifies(th)
    <2>1. /\ UNCHANGED <<updates, child, accepting>>
          /\ \/ /\ reader = "failNotify" /\ reader' = "failPublish"
                /\ writer' \in {writer, "test"}
             \/ /\ writer = "failNotify" /\ writer' = "failPublish" /\ reader' = reader
      BY <1>7 DEF FailNotifies, ThreadGoes, atomics, WriterNotified
    <2> QED BY <1>1, <2>1, ChannelQuiet
  <1>8. CASE FailPublishes(th)
    <2>1. /\ Publish("Failed") /\ UNCHANGED <<child, accepting>>
          /\ reader = "failPublish" \/ writer = "failPublish"
          /\ reader' \in {reader, "done"}
      BY <1>8 DEF FailPublishes, ThreadGoes, atomics
    <2>2. child \in Gone /\ ~accepting BY <2>1 DEF ChannelInv, EndedInv, Ended
    <2> QED BY <1>1, <1>4, <2>1, <2>2, PublishesEnd
  <1> QED BY <1>5, <1>6, <1>7, <1>8 DEF Fail

LEMMA ReaderChannel ==
  TypeOK /\ QueueInv /\ SaidInv /\ StopInv /\ ChannelInv /\ (ReaderMain \/ ReaderFails)
    => ChannelInv'
  <1> SUFFICES ASSUME TypeOK, QueueInv, SaidInv, StopInv, ChannelInv, ReaderMain \/ ReaderFails
               PROVE  ChannelInv'
    OBVIOUS
  <1> USE DEF Gone, ReaderEnds, WriterEnds, CloseSteps, Unconnected, Talking
  <1>1. CASE ReaderStarts
    <2>1. /\ Publish("WaitingForConnection") /\ reader = "start" /\ reader' = "connect"
          /\ UNCHANGED <<queue, writer, child, ui, accepting>>
      BY <1>1 DEF ReaderStarts, ReaderOnly, uiVars, atomics
    <2>2. \A t : Said(t)' <=> Said(t) \/ t = "WaitingForConnection" BY <2>1, SaidMore
    <2>3. SpokenInv' BY <2>1, <2>2 DEF SpokenInv, ChannelInv
    <2>4. EndedInv' BY <2>1, <2>2 DEF EndedInv, Ended, ChannelInv
    <2> QED BY <2>3, <2>4 DEF ChannelInv
  <1>2. CASE ReaderPublishesConnected
    <2>1. /\ Publish("Connected") /\ reader = "publish" /\ reader' = "notify"
          /\ UNCHANGED <<queue, writer, child, ui, accepting>>
      BY <1>2 DEF ReaderPublishesConnected, ReaderOnly, uiVars, atomics
    <2>2. \A t : Said(t)' <=> Said(t) \/ t = "Connected" BY <2>1, SaidMore
    <2>3. SpokenInv' BY <2>1, <2>2 DEF SpokenInv, ChannelInv
    <2>4. EndedInv' BY <2>1, <2>2 DEF EndedInv, Ended, ChannelInv
    <2> QED BY <2>3, <2>4 DEF ChannelInv
  <1>3. CASE ReaderClosePublishes
    <2>1. /\ Publish("Stopped") /\ reader = "closePublish" /\ reader' = "done"
          /\ UNCHANGED <<queue, writer, child, ui, accepting>>
      BY <1>3 DEF ReaderClosePublishes, ReaderOnly, uiVars, atomics
    <2>2. child \in Gone /\ ~accepting BY <2>1 DEF ChannelInv, EndedInv, Ended
    <2> QED BY <2>1, <2>2, PublishesEnd
  <1>4. CASE ReaderConnects \/ ReaderCannotConnect \/ ReaderStopped \/ ReaderMarksConnected
    <2>1. /\ UNCHANGED <<updates, queue, writer, child, ui, accepting>>
          /\ \/ reader = "connect" /\ reader' \in {"mark", "done", "fail"}
             \/ reader = "read" /\ reader' = "done"
             \/ reader = "mark" /\ reader' = "publish"
      BY <1>4 DEF ReaderConnects, ReaderCannotConnect, ReaderStopped, ReaderMarksConnected,
                  ReaderOnly, uiVars, atomics
    <2> QED BY <2>1, ChannelQuiet
  <1>5. CASE ReaderFails \/ ReaderDisconnected
    <2>1. /\ UNCHANGED <<updates, queue, writer, child, ui, accepting>>
          /\ reader = "read" /\ reader' \in {"fail", "closing"}
          /\ reader' = "closing" => child = "exited"
      BY <1>5 DEF ReaderFails, ReaderDisconnected, ReaderOnly, uiVars, atomics
    <2> QED BY <2>1, ChannelQuiet
  <1>6. CASE ReaderCloses
    <2>1. /\ UNCHANGED <<updates, queue, writer, child, ui>> /\ ~accepting'
          /\ reader = "closing" /\ reader' = "closeNotify"
      BY <1>6 DEF ReaderCloses, ReaderOnly, uiVars
    <2> QED BY <2>1, ChannelQuiet
  <1>7. CASE ReaderNotifies \/ ReaderCloseNotifies
    <2>1. /\ UNCHANGED <<updates, queue, child, ui, accepting>> /\ writer' \in {writer, "test"}
          /\ \/ reader = "notify" /\ reader' = "read"
             \/ reader = "closeNotify" /\ reader' = "closePublish"
      BY <1>7 DEF ReaderNotifies, ReaderCloseNotifies, uiVars, atomics, WriterNotified
    <2> QED BY <2>1, ChannelQuiet
  <1>8. CASE Fail("reader") BY <1>8, FailChannel
  <1> QED BY <1>1, <1>2, <1>3, <1>4, <1>5, <1>6, <1>7, <1>8 DEF ReaderMain

LEMMA WriterChannel ==
  TypeOK /\ QueueInv /\ SaidInv /\ StopInv /\ ChannelInv /\ WriterActions => ChannelInv'
  <1> SUFFICES ASSUME TypeOK, QueueInv, SaidInv, StopInv, ChannelInv, WriterActions
               PROVE  ChannelInv'
    OBVIOUS
  <1> USE DEF Gone, ReaderEnds, WriterEnds, CloseSteps, Unconnected, Talking
  <1>1. CASE WriterMoves
    <2>1. /\ UNCHANGED <<updates, queue, reader, child, ui, accepting>>
          /\ writer' \notin Failing
      BY <1>1, WriterMovesOnly DEF WriterOnly, uiVars, atomics
    <2> QED BY <2>1, ChannelQuiet DEF Failing
  <1>2. CASE Fail("writer") BY <1>2, FailChannel
  <1>3. CASE WriterWrites
    <2>1. UNCHANGED <<updates, queue, reader, child, ui, accepting>> /\ writer' = "pop"
      BY <1>3 DEF WriterWrites, WriterOnly, uiVars, atomics
    <2> QED BY <2>1, ChannelQuiet
  <1>4. CASE WriterPops
    <2>1. /\ UNCHANGED <<updates, reader, child, ui, accepting>>
          /\ writer = "pop" /\ writer' = "top"
      BY <1>4 DEF WriterPops, WriterOnly, uiVars, atomics
    <2>2. queue # << >> BY <2>1 DEF QueueInv
    <2> QED BY <2>1, <2>2, ChannelQuiet
  <1> QED BY <1>1, <1>2, <1>3, <1>4 DEF WriterActions, WriterMain, WriterMoves

LEMMA NextChannel ==
  TypeOK /\ QueueInv /\ SaidInv /\ StopInv /\ ChannelInv /\ [Next]_vars => ChannelInv'
  <1> SUFFICES ASSUME TypeOK, QueueInv, SaidInv, StopInv, ChannelInv, [Next]_vars
               PROVE  ChannelInv'
    OBVIOUS
  <1>1. CASE UNCHANGED vars \/ ChildActions
    <2>1. /\ UNCHANGED <<updates, queue, reader, writer, ui, accepting>>
          /\ child \in Gone => child' \in Gone
      BY <1>1 DEF vars, uiVars, atomics, ChildActions, ChildConnects, ChildExits, Gone
    <2> QED BY <2>1, ChannelQuiet
  <1> QED BY <1>1, Actions, UiChannel, ReaderChannel, WriterChannel

\* Each step of the bridge is a step of the channel, or nothing the window or ChatHost notices.
LEMMA ChannelSteps ==
  ASSUME TypeOK, QueueInv, SaidInv, StopInv, ChannelInv, [Next]_vars
  PROVE  [Channel!Next]_(Channel!vars)
  <1> DEFINE up == ui \notin {"new", "stopped"}
  <1>1. ASSUME UNCHANGED <<updates, posted, sent>>, up' <=> up
        PROVE  [Channel!Next]_(Channel!vars)
    <2>1. up' = up BY <1>1
    <2> QED BY <1>1, <2>1 DEF Channel!vars
  <1>2. ASSUME NEW s, Publish(s), UNCHANGED <<posted, sent>>, up PROVE Channel!Tell(s)
    BY <1>2 DEF Publish, Channel!Tell
  <1>3. CASE UNCHANGED vars \/ ChildActions
    BY <1>1, <1>3 DEF vars, uiVars, history, ChildActions, ChildConnects, ChildExits
  <1>4. ASSUME NEW th \in {"reader", "writer"}, Fail(th) PROVE [Channel!Next]_(Channel!vars)
    <2>1. CASE FailPublishes(th)
      <3>1. /\ Publish("Failed") /\ UNCHANGED <<posted, sent, ui>>
            /\ reader = "failPublish" \/ writer = "failPublish"
        BY <2>1 DEF FailPublishes, ThreadGoes, history, uiVars
      <3>2. up BY <3>1 DEF StopInv
      <3>3. ~Said("Failed") BY <3>1, <3>2 DEF SaidInv, FailInv, Failing
      <3>4. Channel!Fail BY <1>2, <3>1, <3>2, <3>3 DEF Channel!Fail, Channel!Heard, Said
      <3> QED BY <3>4 DEF Channel!Next
    <2>2. CASE FailTakes(th) \/ FailSignals(th) \/ FailNotifies(th)
      BY <1>1, <2>2 DEF FailTakes, FailSignals, FailNotifies, history, uiVars
    <2> QED BY <1>4, <2>1, <2>2 DEF Fail
  <1>5. CASE StartLaunches \/ StartFails
    <2>1. /\ ui = "new" /\ UNCHANGED <<posted, sent>>
          /\ \/ updates' = Append(updates, "Starting") /\ ui' = "launched"
             \/ updates' = updates \o <<"Starting", "Failed">> /\ ui' = "stopped"
      BY <1>5 DEF StartLaunches, StartFails, Publish, history
    <2>2. updates = << >> BY <2>1 DEF StopInv
    <2>3. \/ updates' = <<"Starting">> /\ up'
          \/ updates' = <<"Starting", "Failed">> /\ ~up'
      BY <2>1, <2>2
    <2> QED BY <2>1, <2>2, <2>3 DEF Channel!Start, Channel!Next
  <1>6. CASE CleanupJoins
    <2>1. /\ Publish("Failed") /\ UNCHANGED <<posted, sent>> /\ ui = "cleanupJoin"
          /\ ui' = "stopped"
      BY <1>6 DEF CleanupJoins, history
    <2>2. reader = "off" BY <2>1 DEF StopInv
    <2>3. ~Said("WaitingForConnection") BY <2>1, <2>2 DEF ChannelInv, SpokenInv
    <2>4. Channel!StartGivesUp
      BY <1>2, <2>1, <2>3 DEF Channel!StartGivesUp, Channel!Heard, Said
    <2> QED BY <2>4 DEF Channel!Next
  <1>7. CASE StopJoins
    <2>1. /\ Publish("Stopped") /\ UNCHANGED <<posted, sent>> /\ ui = "join"
          /\ ui' = "stopped"
      BY <1>7 DEF StopJoins, history
    <2> QED BY <1>2, <2>1 DEF Channel!Stop, Channel!Next
  <1>8. ASSUME NEW isShutdown \in BOOLEAN, PostAccepted(isShutdown)
        PROVE  [Channel!Next]_(Channel!vars)
    <2>1. /\ UNCHANGED <<updates, sent>> /\ posted' = Append(posted, outbound + 1)
          /\ outbound + 1 \in 1..MaxPosts /\ accepting /\ UiConnected
          /\ ui = "idle" /\ ui' = "notify"
      BY <1>8, BoundsAssumption DEF PostAccepted, TypeOK
    <2>2. Said("Connected")
      <3>1. handled \in 1..Len(updates)
        BY <2>1, LenProperties DEF UiConnected, SaidInv, ConnectInv, TypeOK
      <3>2. handled \in DOMAIN updates BY <3>1, LenProperties DEF TypeOK
      <3> QED BY <2>1, <3>2 DEF UiConnected, Said
    <2>3. ~Said("Failed") /\ ~Said("Stopped") BY <2>1 DEF ChannelInv, EndedInv, Ended
    <2>4. Channel!Open BY <2>1, <2>2, <2>3 DEF Channel!Open, Channel!Heard, Said
    <2>5. up' = up BY <2>1
    <2>6. Channel!Post(outbound + 1) BY <2>1, <2>4, <2>5 DEF Channel!Post
    <2> QED BY <2>1, <2>6 DEF Channel!Next
  <1>9. CASE ReaderStarts
    <2>1. /\ Publish("WaitingForConnection") /\ reader = "start"
          /\ UNCHANGED <<posted, sent, ui>>
      BY <1>9 DEF ReaderStarts, ReaderOnly, history, uiVars
    <2>2. up BY <2>1 DEF StopInv
    <2>3. ~Said("WaitingForConnection") BY <2>1, <2>2 DEF ChannelInv, SpokenInv
    <2>4. Channel!Wait BY <1>2, <2>1, <2>2, <2>3 DEF Channel!Wait, Channel!Heard, Said
    <2> QED BY <2>4 DEF Channel!Next
  <1>10. CASE ReaderPublishesConnected
    <2>1. /\ Publish("Connected") /\ reader = "publish" /\ UNCHANGED <<posted, sent, ui>>
      BY <1>10 DEF ReaderPublishesConnected, ReaderOnly, history, uiVars
    <2>2. up BY <2>1 DEF StopInv
    <2>3. Said("WaitingForConnection") /\ ~Said("Connected")
      BY <2>1, <2>2 DEF ChannelInv, SpokenInv, Unconnected, SaidInv, ConnectInv, Connecting
    <2>4. Channel!Connect BY <1>2, <2>1, <2>2, <2>3 DEF Channel!Connect, Channel!Heard, Said
    <2> QED BY <2>4 DEF Channel!Next
  <1>11. CASE ReaderClosePublishes
    <2>1. /\ Publish("Stopped") /\ reader = "closePublish" /\ UNCHANGED <<posted, sent, ui>>
      BY <1>11 DEF ReaderClosePublishes, ReaderOnly, history, uiVars
    <2>2. up BY <2>1 DEF StopInv
    <2>3. Said("Connected") /\ ~Said("Stopped")
      BY <2>1, <2>2 DEF ChannelInv, SpokenInv, Talking, SaidInv, FailInv
    <2>4. Channel!End BY <1>2, <2>1, <2>2, <2>3 DEF Channel!End, Channel!Heard, Said
    <2> QED BY <2>4 DEF Channel!Next
  <1>12. CASE WriterWrites
    <2>1. /\ writer = "write" /\ child = "open" /\ sent' = Append(sent, Head(queue))
          /\ UNCHANGED <<updates, posted, ui>>
      BY <1>12 DEF WriterWrites, WriterOnly, uiVars
    <2>2. queue # << >> /\ up BY <2>1 DEF QueueInv, StopInv
    <2>3. Said("Connected") BY <2>2 DEF ChannelInv, SpokenInv
    <2>4. ~Said("Failed") /\ ~Said("Stopped") BY <2>1 DEF ChannelInv, EndedInv, Ended, Gone
    <2>5. Channel!Open BY <2>2, <2>3, <2>4 DEF Channel!Open, Channel!Heard, Said
    <2>6. /\ Len(posted) = Len(sent) + Len(queue)
          /\ Head(queue) = posted[Len(sent) + 1] /\ Len(sent) < Len(posted)
      <3>1. /\ Len(posted) + 0 = Len(sent) + Len(queue)
            /\ \A i \in 1..Len(queue) : queue[i] = posted[Len(sent) - 0 + i]
        BY <2>1, <2>2 DEF QueueInv
      <3>2. Len(posted) \in Nat /\ Len(sent) \in Nat /\ Len(queue) \in Nat /\ Len(queue) # 0
        BY <2>2, LenProperties, EmptySeq DEF TypeOK
      <3>3. 1 \in 1..Len(queue) /\ Head(queue) = queue[1] BY <3>2
      <3>4. queue[1] = posted[Len(sent) - 0 + 1] BY <3>1, <3>3
      <3> QED BY <3>1, <3>2, <3>3, <3>4
    <2>7. up' = up BY <2>1
    <2>8. Channel!Write BY <2>1, <2>5, <2>6, <2>7 DEF Channel!Write
    <2> QED BY <2>8 DEF Channel!Next
  <1>13. CASE WriterMoves \/ WriterPops
    <2>1. UNCHANGED <<updates, posted, sent, ui>>
      BY <1>13, WriterMovesOnly DEF WriterPops, WriterOnly, history, uiVars
    <2> QED BY <1>1, <2>1
  <1>14. CASE StartReader \/ CleanupSignals \/ CleanupNotifies \/ HandleAssistantHostState
    BY <1>1, <1>14
       DEF StartReader, CleanupSignals, CleanupNotifies, HandleAssistantHostState, history
  <1>15. CASE PostRefused \/ PostNotifies \/ StopAssistant \/ StopBegins
    BY <1>1, <1>15 DEF PostRefused, PostNotifies, StopAssistant, StopBegins, history
  <1>16. CASE StopGrace \/ StopSignals \/ StopNotifies
    BY <1>1, <1>16 DEF StopGrace, StopSignals, StopNotifies, history
  <1>17. CASE ReaderConnects \/ ReaderCannotConnect \/ ReaderStopped \/ ReaderMarksConnected
    BY <1>1, <1>17 DEF ReaderConnects, ReaderCannotConnect, ReaderStopped,
                       ReaderMarksConnected, ReaderOnly, history, uiVars
  <1>18. CASE ReaderNotifies \/ ReaderDisconnected \/ ReaderCloses \/ ReaderCloseNotifies
    BY <1>1, <1>18 DEF ReaderNotifies, ReaderDisconnected, ReaderCloses, ReaderCloseNotifies,
                       ReaderOnly, history, uiVars
  <1>19. CASE ReaderFails BY <1>1, <1>19 DEF ReaderFails, ReaderOnly, history, uiVars
  <1>20. UiActions => [Channel!Next]_(Channel!vars)
    BY <1>5, <1>6, <1>7, <1>8, <1>14, <1>15, <1>16 DEF UiActions, UiCalls, UiRequests
  <1>21. ReaderMain \/ ReaderFails => [Channel!Next]_(Channel!vars)
    BY <1>4, <1>9, <1>10, <1>11, <1>17, <1>18, <1>19 DEF ReaderMain
  <1>22. WriterActions => [Channel!Next]_(Channel!vars)
    BY <1>4, <1>12, <1>13 DEF WriterActions, WriterMain, WriterMoves
  <1> QED BY <1>3, <1>20, <1>21, <1>22, Actions

LEMMA InitChannel == Init => ChannelInv
  <1> SUFFICES ASSUME Init PROVE ChannelInv OBVIOUS
  <1>1. \A t : ~Said(t) BY SaidNothing DEF Init
  <1>2. SpokenInv BY <1>1 DEF Init, SpokenInv, Unconnected, Talking
  <1>3. EndedInv BY <1>1 DEF Init, EndedInv, Ended, ReaderEnds, WriterEnds
  <1> QED BY <1>2, <1>3 DEF ChannelInv

\* Reader, writer, UI thread, flags and process behave as one channel: the window is
\* told of the start, the connection and the end once each, though a failure of the writer
\* may come first, and frames are accepted and written only after the connection and before
\* a failure or an end.
THEOREM ChannelImplemented == Spec => ImplementsChannel
  <1>1. Init => Channel!Init BY DEF Init, Channel!Init
  <1>2. Inv /\ ChannelInv /\ [Next]_vars => ChannelInv'
    BY NextChannel DEF Inv, SaidInv
  <1>3. Inv /\ ChannelInv /\ [Next]_vars => [Channel!Next]_(Channel!vars)
    BY ChannelSteps DEF Inv, SaidInv
  <1>4. Spec => []ChannelInv BY <1>2, InitChannel, Invariant, PTL DEF Spec
  <1> QED BY <1>1, <1>3, <1>4, Invariant, PTL DEF Spec, ImplementsChannel, Channel!Spec

-----------------------------------------------------------------------------
(* The window and its ChatHost.                                            *)

BareKinds  == {"Connected", "Failed", "Stopped", "initialized", "initializeError"}
AnswerKinds == {"initialized", "initializeError"}
ToolKinds  == {"approvalRequired", "toolStarted", "toolCompleted"}
EndKinds   == {"completed", "error"}
ToolStatuses == {"", "succeeded", "failed", "unknown", "denied"}

Frames == [method: Methods, turn: Turns \cup {NoTurn}, call: 0..MaxCalls, allow: BOOLEAN,
           generation: Nat, project: Projects \cup {"none"}]
Messages == [session: Nat, kind: Kinds, turn: Turns \cup {NoTurn}, call: 0..MaxCalls,
             status: ToolStatuses]

\* What travels is of a turn that was drawn and, where it has one, of a call.
FrameTypes(q, d) ==
  /\ q \in Seq(Frames)
  /\ \A i \in DOMAIN q : /\ q[i].method \in {"sendTurn", "respond"} => q[i].turn \in d
                         /\ q[i].method = "respond" => q[i].call # 0
MessageTypes(u, s, d) ==
  /\ u \in Seq(Messages)
  /\ \A i \in DOMAIN u : /\ u[i].session <= s
                         /\ u[i].kind \notin BareKinds => u[i].turn \in d
                         /\ u[i].kind \in ToolKinds => u[i].call # 0
TalkTypes == FrameTypes(toHost, drawn) /\ MessageTypes(toUi, session, drawn)

\* The process belongs to an open bridge, and only drawn turns reach it.
Alive == bridge \in {"starting", "open"}
HostInv ==
  /\ slot # NoTurn => bridge = "open" /\ phase[slot] \in {"reserved", "running"}
  /\ slot = NoTurn => call = NoCall
  /\ ~Alive => toHost = << >>
  /\ \A t \in Turns : phase[t] # "idle" => t \in drawn

\* One initialization at a time is asked for or answered, for the generation
\* the window compares snapshots with.
Ready(p, h) == p.initialized => h.initialized /\ h.generation = p.generation
InitFrames(q, p) ==
  \A i \in DOMAIN q : q[i].method = "initialize" =>
    /\ p.initializing /\ ~p.initialized /\ q[i].generation = p.generation
    /\ \A j \in DOMAIN q : q[j].method = "initialize" => i = j
IsAnswer(m, s) == m.session = s /\ m.kind \in AnswerKinds
InitAnswers(u, s, p, h) ==
  \A i \in DOMAIN u : IsAnswer(u[i], s) =>
    /\ p.initializing /\ ~p.initialized
    /\ u[i].kind = "initialized" => h.initialized /\ h.generation = p.generation
    /\ \A j \in DOMAIN u : IsAnswer(u[j], s) => i = j
InitOnce(q, u, s) ==
  \A i \in DOMAIN u, j \in DOMAIN q : IsAnswer(u[i], s) => q[j].method # "initialize"
HandshakeInv ==
  /\ Ready(pane, host)
  /\ InitFrames(toHost, pane) /\ InitAnswers(toUi, session, pane, host)
  /\ InitOnce(toHost, toUi, session)

\* A turn ChatHost works on is the window's; a request for a turn, its refusal
\* and its end exclude each other.
Active == slot # NoTurn /\ report[slot] = "none" /\ call.at # "failing"
TurnFrames(q, t, ph) ==
  \A i \in DOMAIN q : q[i].method = "sendTurn" =>
    /\ q[i].turn = t /\ ph[t] = "idle"
    /\ \A j \in DOMAIN q : q[j].method = "sendTurn" => i = j
IsRefusal(m, s) == m.session = s /\ m.kind = "turnError"
Refusals(u, s, t, ph) ==
  \A i \in DOMAIN u : IsRefusal(u[i], s) =>
    /\ u[i].turn = t /\ ph[t] = "idle"
    /\ \A j \in DOMAIN u : IsRefusal(u[j], s) => i = j
RefusedOnce(q, u, s) ==
  \A i \in DOMAIN u, j \in DOMAIN q : IsRefusal(u[i], s) => q[j].method # "sendTurn"
IsEnd(m, s) == m.session = s /\ m.kind \in EndKinds
Ends(u, s, ph, sl, act) ==
  \A i \in DOMAIN u : IsEnd(u[i], s) =>
    ph[u[i].turn] # "idle" /\ (u[i].turn = sl => ~act)
Downs(u, s, alive) ==
  \A i \in DOMAIN u : u[i].session = s =>
    u[i].kind # "Stopped" /\ (u[i].kind = "Failed" => ~alive)
GateInv ==
  /\ pane.turn # NoTurn => gate /\ pane.turn \in drawn
  /\ Active => slot = pane.turn
  /\ Ends(toUi, session, phase, slot, Active) /\ Downs(toUi, session, Alive)
  /\ Alive => /\ TurnFrames(toHost, pane.turn, phase)
              /\ Refusals(toUi, session, pane.turn, phase)
              /\ RefusedOnce(toHost, toUi, session)

\* What ChatHost says of a call comes in order, and finds the approval of the
\* window's turn where the decision or the message before has left it.
OfCall(m) == <<m.turn, m.call>>
Rank(k) == CASE k = "approvalRequired" -> 1 [] k = "toolStarted" -> 2 [] OTHER -> 3
Told(c) == CASE c \in {"asked", "allowed", "denied"} -> 1 [] c = "started" -> 2 [] OTHER -> 3
IsTool(m, s) == m.session = s /\ m.kind \in ToolKinds
Announced(u, s, c) ==
  \E j \in DOMAIN u : IsTool(u[j], s) /\ u[j].kind = "toolStarted" /\ OfCall(u[j]) = c
Runs(u, s, ap, c) == ap[c] = "started" \/ (ap[c] = "allowed" /\ Announced(u, s, c))

Asked(ap, t, ph, sl, cl) ==
  \A a \in Approvals : ap[a] # "none" =>
    a[1] = t /\ ph[a[1]] # "idle" /\ (a[1] = sl => a[2] <= cl.count)
Known(u, s, ph, sl, cl) ==
  \A i \in DOMAIN u : IsTool(u[i], s) =>
    /\ ph[u[i].turn] # "idle"
    /\ u[i].turn = sl => \/ u[i].call < cl.count
                         \/ u[i].call = cl.count /\ Rank(u[i].kind) <= Told(cl.at)
Ordered(u, s) ==
  \A i, j \in DOMAIN u :
    i < j /\ IsTool(u[i], s) /\ IsTool(u[j], s) /\ OfCall(u[i]) = OfCall(u[j]) =>
      Rank(u[i].kind) < Rank(u[j].kind)
Fits(u, s, t, ap) ==
  \A i \in DOMAIN u : IsTool(u[i], s) /\ u[i].turn = t =>
    /\ u[i].kind = "approvalRequired" => ap[OfCall(u[i])] = "none"
    /\ u[i].kind = "toolStarted" => ap[OfCall(u[i])] = "allowed"
    /\ u[i].kind = "toolCompleted" =>
         IF u[i].status = "denied" THEN ap[OfCall(u[i])] = "closed"
         ELSE Runs(u, s, ap, OfCall(u[i]))

\* A decision is sent once, and comes before what ChatHost does about it.
Decided(q, t, ap) ==
  \A i \in DOMAIN q : q[i].method = "respond" /\ q[i].turn = t =>
    ap[OfCall(q[i])] = IF q[i].allow THEN "allowed" ELSE "closed"
DecidedOnce(q) ==
  \A i, j \in DOMAIN q :
    q[i].method = "respond" /\ q[j].method = "respond" /\ OfCall(q[i]) = OfCall(q[j]) => i = j
Undecided(q, ph, sl, cl) ==
  \A i \in DOMAIN q : q[i].method = "respond" =>
    /\ ph[q[i].turn] # "idle"
    /\ q[i].turn = sl => \/ q[i].call < cl.count
                         \/ q[i].call = cl.count /\ cl.at \notin {"allowed", "denied", "started"}
Unheard(q, u, s) ==
  \A i \in DOMAIN u, j \in DOMAIN q :
    IsTool(u[i], s) /\ q[j].method = "respond" /\ OfCall(u[i]) = OfCall(q[j]) =>
      u[i].kind = "approvalRequired"
CallFits(u, s, sl, cl, t, ap) ==
  sl # NoTurn /\ sl = t =>
    /\ cl.at = "allowed" => ap[<<sl, cl.count>>] = "allowed"
    /\ cl.at = "denied" => ap[<<sl, cl.count>>] = "closed"
    /\ cl.at = "started" => Runs(u, s, ap, <<sl, cl.count>>)
ToolInv ==
  /\ Asked(approval, pane.turn, phase, slot, call)
  /\ Known(toUi, session, phase, slot, call) /\ Ordered(toUi, session)
  /\ Fits(toUi, session, pane.turn, approval)
  /\ Decided(toHost, pane.turn, approval) /\ DecidedOnce(toHost)
  /\ Undecided(toHost, phase, slot, call) /\ Unheard(toHost, toUi, session)
  /\ CallFits(toUi, session, slot, call, pane.turn, approval)

IdleInv == GateInv /\ (Alive => HandshakeInv) /\ ToolInv

Panes == [connected: BOOLEAN, initialized: BOOLEAN, initializing: BOOLEAN,
          mcpReady: BOOLEAN, generation: Nat, project: Projects,
          turn: Turns \cup {NoTurn}, cancelRequested: BOOLEAN, stopButton: BOOLEAN]
Hosts == [up: BOOLEAN, initialized: BOOLEAN, generation: Nat, project: Projects \cup {"none"}]
Calls == [at: {"none", "asked", "allowed", "denied", "started", "failing"}, count: 0..MaxCalls]
CardStates == {"none", "pending", "closed", "allowed", "started", "ended"}

UiTypes ==
  /\ at \in {"idle", "join", "closed"}
  /\ after.why \in {"none", "retry", "context", "close"}
  /\ after.seen \in Snapshots \cup {NoSnapshot}
  /\ after.why = "context" => after.seen \in Snapshots
  /\ session \in Nat /\ pane \in Panes /\ drawn \subseteq Turns
  /\ approval \in [Approvals -> CardStates] /\ gate \in BOOLEAN
ChatTypes ==
  /\ host \in Hosts /\ Life!TypeOK /\ cancelled \in BOOLEAN /\ call \in Calls
WindowTypes ==
  /\ snapshot \in Snapshots /\ events \in 0..MaxEvents
  /\ bridge \in {"starting", "open", "late", "failed", "stopped"} /\ Len(toHost) <= QueueLimit
  /\ UiTypes /\ ChatTypes /\ TalkTypes

\* The window has forgotten its approvals before it waits for the process.
JoinInv == at = "join" => approval = NoApprovals
\* A call that ChatHost waits for or runs has a number.
CallNumbered == call.at \notin {"none", "failing"} => call.count # 0

WindowInv ==
  /\ WindowTypes /\ HostInv /\ CallNumbered /\ JoinInv
  /\ at = "idle" => IdleInv
-----------------------------------------------------------------------------
(* Queues.                                                                 *)

\* r is what q becomes when its head is taken, a message is put at k, or neither.
Embeds(r, q, k) ==
  /\ DOMAIN r \subseteq Nat
  /\ \E e \in [DOMAIN r -> Nat] :
       /\ \A i \in DOMAIN r : i # k => e[i] \in DOMAIN q /\ r[i] = q[e[i]]
       /\ \A i, j \in DOMAIN r : i # k /\ j # k /\ i < j => e[i] < e[j]
\* Of q at most the head is missing.
Keeps(r, q) ==
  \A j \in DOMAIN q : j # 1 => \E i \in DOMAIN r : r[i] = q[j]
KeepsAll(r, q) ==
  \A j \in DOMAIN q : \E i \in DOMAIN r : r[i] = q[j]

LEMMA SameEmbeds ==
  ASSUME NEW S, NEW q \in Seq(S)
  PROVE  Embeds(q, q, 0) /\ KeepsAll(q, q) /\ 0 \notin DOMAIN q
  <1>1. DOMAIN q \subseteq Nat /\ 0 \notin DOMAIN q BY LenProperties
  <1>2. Embeds(q, q, 0)
    <2> DEFINE e == [i \in DOMAIN q |-> i]
    <2>1. e \in [DOMAIN q -> Nat] BY <1>1
    <2>2. \A i \in DOMAIN q : e[i] = i OBVIOUS
    <2> HIDE DEF e
    <2> QED BY <1>1, <2>1, <2>2 DEF Embeds
  <1> QED BY <1>1, <1>2 DEF KeepsAll

LEMMA EmptyEmbeds ==
  ASSUME NEW q
  PROVE  Embeds(<< >>, q, 0) /\ DOMAIN << >> = {}
  <1>1. DOMAIN << >> = {} OBVIOUS
  <1>2. << >> \in [DOMAIN << >> -> Nat] BY <1>1
  <1> QED BY <1>1, <1>2 DEF Embeds

LEMMA TailEmbeds ==
  ASSUME NEW S, NEW q \in Seq(S), q # << >>
  PROVE  /\ Embeds(Tail(q), q, 0) /\ Keeps(Tail(q), q) /\ 0 \notin DOMAIN Tail(q)
         /\ Tail(q) \in Seq(S) /\ Head(q) = q[1] /\ 1 \in DOMAIN q
         /\ \A i \in DOMAIN Tail(q) : i + 1 \in DOMAIN q /\ Tail(q)[i] = q[i + 1] /\ i \in Nat
  <1>1. /\ Tail(q) \in Seq(S) /\ Len(Tail(q)) = Len(q) - 1 /\ Len(q) \in Nat /\ Len(q) # 0
        /\ \A i \in 1 .. Len(Tail(q)) : Tail(q)[i] = q[i + 1]
    BY HeadTailProperties, LenProperties, EmptySeq
  <1>2. DOMAIN q = 1 .. Len(q) /\ DOMAIN Tail(q) = 1 .. Len(Tail(q)) BY <1>1, LenProperties
  <1>3. Head(q) = q[1] OBVIOUS
  <1>4. Embeds(Tail(q), q, 0)
    <2> DEFINE e == [i \in DOMAIN Tail(q) |-> i + 1]
    <2>1. DOMAIN Tail(q) \subseteq Nat BY <1>1, <1>2
    <2>2. e \in [DOMAIN Tail(q) -> Nat] BY <2>1
    <2>3. \A i \in DOMAIN Tail(q) : e[i] = i + 1 OBVIOUS
    <2>4. \A i \in DOMAIN Tail(q) : e[i] \in DOMAIN q /\ Tail(q)[i] = q[e[i]]
      BY <1>1, <1>2, <2>3
    <2>5. \A i, j \in DOMAIN Tail(q) : i < j => e[i] < e[j] BY <2>1, <2>3
    <2> HIDE DEF e
    <2> QED BY <2>1, <2>2, <2>4, <2>5 DEF Embeds
  <1>5. ASSUME NEW j \in DOMAIN q, j # 1 PROVE \E i \in DOMAIN Tail(q) : Tail(q)[i] = q[j]
    <2>1. j - 1 \in DOMAIN Tail(q) /\ Tail(q)[j - 1] = q[j] BY <1>1, <1>2, <1>5
    <2> QED BY <2>1
  <1>6. Keeps(Tail(q), q) BY <1>5 DEF Keeps
  <1> QED BY <1>1, <1>2, <1>3, <1>4, <1>6

LEMMA AppendEmbeds ==
  ASSUME NEW S, NEW q \in Seq(S), NEW m \in S
  PROVE  /\ Embeds(Append(q, m), q, Len(q) + 1) /\ KeepsAll(Append(q, m), q)
         /\ Append(q, m) \in Seq(S) /\ DOMAIN Append(q, m) = DOMAIN q \cup {Len(q) + 1}
         /\ Append(q, m)[Len(q) + 1] = m
         /\ \A i \in DOMAIN q : Append(q, m)[i] = q[i] /\ i < Len(q) + 1 /\ i \in Nat
         /\ Len(q) \in Nat /\ Len(Append(q, m)) = Len(q) + 1
  <1> DEFINE r == Append(q, m)
             k == Len(q) + 1
  <1>1. /\ r \in Seq(S) /\ Len(r) = k /\ Len(q) \in Nat /\ r[k] = m
        /\ \A i \in 1 .. Len(q) : r[i] = q[i]
    BY AppendProperties, LenProperties
  <1>2. DOMAIN q = 1 .. Len(q) /\ DOMAIN r = 1 .. k BY <1>1, LenProperties
  <1>3. DOMAIN r = DOMAIN q \cup {k} BY <1>1, <1>2
  <1>4. Embeds(r, q, k)
    <2> DEFINE e == [i \in DOMAIN r |-> i]
    <2>1. DOMAIN r \subseteq Nat BY <1>1, <1>2
    <2>2. e \in [DOMAIN r -> Nat] BY <2>1
    <2>3. \A i \in DOMAIN r : e[i] = i OBVIOUS
    <2>4. \A i \in DOMAIN r : i # k => e[i] \in DOMAIN q /\ r[i] = q[e[i]]
      BY <1>1, <1>2, <1>3, <2>3
    <2>5. \A i, j \in DOMAIN r : i < j => e[i] < e[j] BY <2>1, <2>3
    <2> HIDE DEF e, r
    <2> QED BY <2>1, <2>2, <2>4, <2>5 DEF Embeds
  <1>5. KeepsAll(r, q) BY <1>1, <1>2, <1>3 DEF KeepsAll
  <1> QED BY <1>1, <1>2, <1>3, <1>4, <1>5

\* Failed is put between messages that were already queued.
LEMMA PutBetween ==
  ASSUME NEW S, NEW a \in Seq(S), NEW b \in Seq(S), NEW c \in Seq(S)
  PROVE  /\ (a \o c) \o b \in Seq(S) /\ Len((a \o c) \o b) = Len(a) + Len(c) + Len(b)
         /\ \A i \in 1 .. Len(a) : ((a \o c) \o b)[i] = a[i]
         /\ \A i \in 1 .. Len(c) : ((a \o c) \o b)[Len(a) + i] = c[i]
         /\ \A i \in 1 .. Len(b) : ((a \o c) \o b)[Len(a) + Len(c) + i] = b[i]
  <1> DEFINE d == a \o c
  <1>1. Len(a) \in Nat /\ Len(b) \in Nat /\ Len(c) \in Nat BY LenProperties
  <1>2. /\ d \in Seq(S) /\ Len(d) = Len(a) + Len(c)
        /\ \A i \in 1 .. Len(a) + Len(c) : d[i] = IF i <= Len(a) THEN a[i] ELSE c[i - Len(a)]
    BY ConcatProperties
  <1> DEFINE r == d \o b
  <1> HIDE DEF d
  <1>3. /\ r \in Seq(S) /\ Len(r) = Len(d) + Len(b)
        /\ \A i \in 1 .. Len(d) + Len(b) : r[i] = IF i <= Len(d) THEN d[i] ELSE b[i - Len(d)]
    <2>1. d \in Seq(S) BY <1>2
    <2> QED BY <2>1, ConcatProperties
  <1> HIDE DEF r
  <1>4. \A i \in 1 .. Len(a) : r[i] = a[i] BY <1>1, <1>2, <1>3
  <1>5. ASSUME NEW i \in 1 .. Len(c) PROVE r[Len(a) + i] = c[i]
    <2>1. /\ Len(a) + i \in 1 .. Len(a) + Len(c) /\ ~(Len(a) + i <= Len(a))
          /\ (Len(a) + i) - Len(a) = i /\ Len(a) + i <= Len(d)
          /\ Len(a) + i \in 1 .. Len(d) + Len(b)
      BY <1>1, <1>2
    <2> QED BY <2>1, <1>2, <1>3
  <1>6. ASSUME NEW i \in 1 .. Len(b) PROVE r[Len(a) + Len(c) + i] = b[i]
    <2>1. /\ Len(d) + i \in 1 .. Len(d) + Len(b) /\ ~(Len(d) + i <= Len(d))
          /\ (Len(d) + i) - Len(d) = i
      BY <1>1, <1>2
    <2>2. r[Len(d) + i] = b[i] BY <2>1, <1>3
    <2> QED BY <2>2, <1>2
  <1>7. Len(r) = Len(a) + Len(c) + Len(b) BY <1>2, <1>3
  <1> QED BY <1>3, <1>4, <1>5, <1>6, <1>7 DEF r, d

LEMMA Inserted ==
  ASSUME NEW S, NEW q \in Seq(S), NEW m \in S, NEW n \in 0 .. Len(q), NEW r \in Seq(S),
         Len(r) = Len(q) + 1, r[n + 1] = m,
         \A i \in 1 .. n : r[i] = q[i],
         \A i \in n + 2 .. Len(q) + 1 : r[i] = q[i - 1]
  PROVE  Embeds(r, q, n + 1) /\ KeepsAll(r, q) /\ n + 1 \in DOMAIN r
  <1>1. Len(q) \in Nat /\ DOMAIN q = 1 .. Len(q) /\ n \in Nat /\ n <= Len(q)
    BY LenProperties
  <1>2. DOMAIN r = 1 .. Len(q) + 1 BY LenProperties
  <1>3. Embeds(r, q, n + 1)
    <2> DEFINE e == [i \in DOMAIN r |-> IF i <= n THEN i ELSE i - 1]
    <2>1. DOMAIN r \subseteq Nat BY <1>1, <1>2
    <2>2. e \in [DOMAIN r -> Nat] BY <1>1, <1>2
    <2>3. \A i \in DOMAIN r : e[i] = IF i <= n THEN i ELSE i - 1 OBVIOUS
    <2> HIDE DEF e
    <2>4. \A i \in DOMAIN r : i # n + 1 => e[i] \in DOMAIN q /\ r[i] = q[e[i]]
      BY <1>1, <1>2, <2>3
    <2>5. \A i, j \in DOMAIN r : i # n + 1 /\ j # n + 1 /\ i < j => e[i] < e[j]
      BY <1>1, <1>2, <2>3
    <2> QED BY <2>1, <2>2, <2>4, <2>5 DEF Embeds
  <1>4. ASSUME NEW j \in DOMAIN q PROVE \E i \in DOMAIN r : r[i] = q[j]
    <2>1. CASE j <= n
      <3>1. j \in DOMAIN r /\ r[j] = q[j] BY <1>1, <1>2, <2>1
      <3> QED BY <3>1
    <2>2. CASE ~(j <= n)
      <3>1. j + 1 \in n + 2 .. Len(q) + 1 /\ j + 1 \in DOMAIN r /\ (j + 1) - 1 = j
        BY <1>1, <1>2, <2>2
      <3>2. r[j + 1] = q[j] BY <3>1
      <3> QED BY <3>1, <3>2
    <2> QED BY <2>1, <2>2
  <1>5. KeepsAll(r, q) BY <1>4 DEF KeepsAll
  <1> QED BY <1>1, <1>2, <1>3, <1>5

\* q with m put behind its first n elements.
With(q, n, m) == SubSeq(q, 1, n) \o <<m>> \o SubSeq(q, n + 1, Len(q))

LEMMA InsertEmbeds ==
  ASSUME NEW S, NEW q \in Seq(S), NEW m \in S, NEW n \in 0 .. Len(q)
  PROVE  /\ With(q, n, m) \in Seq(S) /\ Embeds(With(q, n, m), q, n + 1)
         /\ KeepsAll(With(q, n, m), q) /\ n + 1 \in DOMAIN With(q, n, m)
         /\ With(q, n, m)[n + 1] = m
  <1> DEFINE a == SubSeq(q, 1, n)
             b == SubSeq(q, n + 1, Len(q))
             c == <<m>>
  <1>1. Len(q) \in Nat /\ DOMAIN q = 1 .. Len(q) /\ n \in Nat /\ n <= Len(q)
    BY LenProperties
  <1>2. \A i \in 1 .. Len(q) : q[i] \in S BY <1>1, ElementOfSeq
  <1>3. a \in Seq(S) /\ Len(a) = n /\ \A i \in 1 .. n : a[i] = q[i]
    <2>1. \A i \in 1 .. n : q[i] \in S BY <1>1, <1>2
    <2>2. 1 \in Int /\ n \in Int BY <1>1
    <2>3. /\ a \in Seq(S) /\ Len(a) = IF 1 <= n THEN n - 1 + 1 ELSE 0
          /\ \A i \in 1 .. n - 1 + 1 : a[i] = q[1 + i - 1]
      BY <2>1, <2>2, SubSeqProperties
    <2> HIDE DEF a
    <2> QED BY <1>1, <2>3
  <1>4. b \in Seq(S) /\ Len(b) = Len(q) - n /\ \A i \in 1 .. Len(q) - n : b[i] = q[n + i]
    <2>1. \A i \in n + 1 .. Len(q) : q[i] \in S BY <1>1, <1>2
    <2>2. n + 1 \in Int /\ Len(q) \in Int BY <1>1
    <2>3. /\ b \in Seq(S) /\ Len(b) = IF n + 1 <= Len(q) THEN Len(q) - (n + 1) + 1 ELSE 0
          /\ \A i \in 1 .. Len(q) - (n + 1) + 1 : b[i] = q[n + 1 + i - 1]
      BY <2>1, <2>2, SubSeqProperties
    <2> HIDE DEF b
    <2>4. Len(b) = Len(q) - n
      <3>1. CASE n + 1 <= Len(q)
        <4>1. Len(b) = Len(q) - (n + 1) + 1 BY <2>3, <3>1
        <4> QED BY <1>1, <4>1
      <3>2. CASE ~(n + 1 <= Len(q))
        <4>1. Len(b) = 0 BY <2>3, <3>2
        <4>2. n = Len(q)
          <5>1. n \in Nat /\ Len(q) \in Nat /\ n <= Len(q) BY <1>1
          <5> QED BY <5>1, <3>2
        <4> QED BY <1>1, <4>1, <4>2
      <3> QED BY <3>1, <3>2
    <2>5. ASSUME NEW i \in 1 .. Len(q) - n PROVE b[i] = q[n + i]
      <3>1. i \in 1 .. Len(q) - (n + 1) + 1 /\ n + 1 + i - 1 = n + i BY <1>1
      <3>2. b[i] = q[n + 1 + i - 1] BY <2>3, <3>1
      <3> QED BY <3>1, <3>2
    <2> QED BY <2>3, <2>4, <2>5
  <1>5. c \in Seq(S) /\ Len(c) = 1 /\ c[1] = m OBVIOUS
  <1> DEFINE r == (a \o c) \o b
  <1> HIDE DEF a, b, c
  <1>7. /\ r \in Seq(S) /\ Len(r) = Len(q) + 1 /\ r[n + 1] = m
        /\ \A i \in 1 .. n : r[i] = q[i]
        /\ \A i \in n + 2 .. Len(q) + 1 : r[i] = q[i - 1]
    <2>1. /\ r \in Seq(S) /\ Len(r) = Len(a) + Len(c) + Len(b)
          /\ \A i \in 1 .. Len(a) : r[i] = a[i]
          /\ \A i \in 1 .. Len(c) : r[Len(a) + i] = c[i]
          /\ \A i \in 1 .. Len(b) : r[Len(a) + Len(c) + i] = b[i]
      <3>1. a \in Seq(S) /\ b \in Seq(S) /\ c \in Seq(S) BY <1>3, <1>4, <1>5
      <3> QED BY <3>1, PutBetween
    <2> HIDE DEF r
    <2>2. Len(r) = Len(q) + 1 /\ r[n + 1] = m BY <2>1, <1>1, <1>3, <1>4, <1>5
    <2>3. \A i \in 1 .. n : r[i] = q[i] BY <2>1, <1>3
    <2>4. ASSUME NEW i \in n + 2 .. Len(q) + 1 PROVE r[i] = q[i - 1]
      <3>1. i - (n + 1) \in 1 .. Len(q) - n /\ n + (i - (n + 1)) = i - 1
            /\ Len(a) + Len(c) + (i - (n + 1)) = i
        BY <1>1, <1>3, <1>5
      <3>2. r[i] = b[i - (n + 1)] BY <2>1, <1>4, <3>1
      <3>3. b[i - (n + 1)] = q[n + (i - (n + 1))] BY <1>4, <3>1
      <3> QED BY <3>1, <3>2, <3>3
    <2> QED BY <2>1, <2>2, <2>3, <2>4
  <1> HIDE DEF r
  <1>8. Embeds(r, q, n + 1) /\ KeepsAll(r, q) /\ n + 1 \in DOMAIN r BY <1>7, Inserted
  <1>9. r = With(q, n, m) BY DEF With, r, a, b, c
  <1> QED BY <1>7, <1>8, <1>9
-----------------------------------------------------------------------------
(* What follows of r from what holds of q.                                 *)

LEMMA PairsEmbed ==
  ASSUME NEW q, NEW r, NEW k, Embeds(r, q, k), NEW i \in DOMAIN r, NEW j \in DOMAIN r,
         i # k, j # k
  PROVE  \E x, y \in DOMAIN q :
           /\ r[i] = q[x] /\ r[j] = q[y] /\ x \in Nat /\ y \in Nat
           /\ x = y => i = j
           /\ i < j => x < y
  <1>1. DOMAIN r \subseteq Nat BY DEF Embeds
  <1>2. PICK e \in [DOMAIN r -> Nat] :
          /\ \A n \in DOMAIN r : n # k => e[n] \in DOMAIN q /\ r[n] = q[e[n]]
          /\ \A n, m \in DOMAIN r : n # k /\ m # k /\ n < m => e[n] < e[m]
    BY DEF Embeds
  <1>3. e[i] \in DOMAIN q /\ e[j] \in DOMAIN q /\ r[i] = q[e[i]] /\ r[j] = q[e[j]] BY <1>2
  <1>4. e[i] \in Nat /\ e[j] \in Nat /\ i \in Nat /\ j \in Nat BY <1>1, <1>2
  <1>5. i < j => e[i] < e[j] BY <1>2
  <1>6. j < i => e[j] < e[i] BY <1>2
  <1>7. e[i] = e[j] => i = j BY <1>4, <1>5, <1>6
  <1> QED BY <1>3, <1>4, <1>5, <1>7

LEMMA OneEmbeds ==
  ASSUME NEW q, NEW r, NEW k, Embeds(r, q, k), NEW i \in DOMAIN r, i # k
  PROVE  \E x \in DOMAIN q : r[i] = q[x]
  BY PairsEmbed

LEMMA InitFramesEmbed ==
  ASSUME NEW q, NEW r, NEW k, NEW p, Embeds(r, q, k), InitFrames(q, p),
         k \in DOMAIN r => r[k].method # "initialize"
  PROVE  InitFrames(r, p)
  <1>1. ASSUME NEW i \in DOMAIN r, r[i].method = "initialize"
        PROVE  /\ p.initializing /\ ~p.initialized /\ r[i].generation = p.generation
               /\ \A j \in DOMAIN r : r[j].method = "initialize" => i = j
    <2>1. i # k BY <1>1
    <2>2. PICK x \in DOMAIN q : r[i] = q[x] BY <2>1, OneEmbeds
    <2>3. /\ p.initializing /\ ~p.initialized /\ r[i].generation = p.generation
      BY <1>1, <2>2 DEF InitFrames
    <2>4. ASSUME NEW j \in DOMAIN r, r[j].method = "initialize" PROVE i = j
      <3>1. j # k BY <2>4
      <3>2. PICK y, z \in DOMAIN q : r[i] = q[y] /\ r[j] = q[z] /\ (y = z => i = j)
        BY <2>1, <3>1, PairsEmbed
      <3>3. y = z BY <1>1, <2>4, <3>2 DEF InitFrames
      <3> QED BY <3>2, <3>3
    <2> QED BY <2>3, <2>4
  <1> QED BY <1>1 DEF InitFrames

LEMMA InitAnswersEmbed ==
  ASSUME NEW u, NEW v, NEW k, NEW s, NEW p, NEW h, Embeds(v, u, k), InitAnswers(u, s, p, h),
         k \in DOMAIN v => ~IsAnswer(v[k], s)
  PROVE  InitAnswers(v, s, p, h)
  <1>1. ASSUME NEW i \in DOMAIN v, IsAnswer(v[i], s)
        PROVE  /\ p.initializing /\ ~p.initialized
               /\ v[i].kind = "initialized" => h.initialized /\ h.generation = p.generation
               /\ \A j \in DOMAIN v : IsAnswer(v[j], s) => i = j
    <2>1. i # k BY <1>1
    <2>2. PICK x \in DOMAIN u : v[i] = u[x] BY <2>1, OneEmbeds
    <2>3. /\ p.initializing /\ ~p.initialized
          /\ v[i].kind = "initialized" => h.initialized /\ h.generation = p.generation
      BY <1>1, <2>2 DEF InitAnswers
    <2>4. ASSUME NEW j \in DOMAIN v, IsAnswer(v[j], s) PROVE i = j
      <3>1. j # k BY <2>4
      <3>2. PICK y, z \in DOMAIN u : v[i] = u[y] /\ v[j] = u[z] /\ (y = z => i = j)
        BY <2>1, <3>1, PairsEmbed
      <3>3. y = z BY <1>1, <2>4, <3>2 DEF InitAnswers
      <3> QED BY <3>2, <3>3
    <2> QED BY <2>3, <2>4
  <1> QED BY <1>1 DEF InitAnswers

LEMMA InitOnceEmbed ==
  ASSUME NEW q, NEW r, NEW k, NEW u, NEW v, NEW l, NEW s,
         Embeds(r, q, k), Embeds(v, u, l), InitOnce(q, u, s),
         k \in DOMAIN r => r[k].method # "initialize",
         l \in DOMAIN v => ~IsAnswer(v[l], s)
  PROVE  InitOnce(r, v, s)
  <1>1. ASSUME NEW i \in DOMAIN v, NEW j \in DOMAIN r, IsAnswer(v[i], s)
        PROVE  r[j].method # "initialize"
    <2>1. CASE j # k
      <3>1. PICK x \in DOMAIN u : v[i] = u[x] BY <1>1, OneEmbeds
      <3>2. PICK y \in DOMAIN q : r[j] = q[y] BY <2>1, OneEmbeds
      <3> QED BY <1>1, <3>1, <3>2 DEF InitOnce
    <2> QED BY <2>1
  <1> QED BY <1>1 DEF InitOnce

LEMMA TurnFramesEmbed ==
  ASSUME NEW q, NEW r, NEW k, NEW t, NEW ph, Embeds(r, q, k), TurnFrames(q, t, ph),
         k \in DOMAIN r => r[k].method # "sendTurn"
  PROVE  TurnFrames(r, t, ph)
  <1>1. ASSUME NEW i \in DOMAIN r, r[i].method = "sendTurn"
        PROVE  /\ r[i].turn = t /\ ph[t] = "idle"
               /\ \A j \in DOMAIN r : r[j].method = "sendTurn" => i = j
    <2>1. i # k BY <1>1
    <2>2. PICK x \in DOMAIN q : r[i] = q[x] BY <2>1, OneEmbeds
    <2>3. r[i].turn = t /\ ph[t] = "idle" BY <1>1, <2>2 DEF TurnFrames
    <2>4. ASSUME NEW j \in DOMAIN r, r[j].method = "sendTurn" PROVE i = j
      <3>1. j # k BY <2>4
      <3>2. PICK y, z \in DOMAIN q : r[i] = q[y] /\ r[j] = q[z] /\ (y = z => i = j)
        BY <2>1, <3>1, PairsEmbed
      <3>3. y = z BY <1>1, <2>4, <3>2 DEF TurnFrames
      <3> QED BY <3>2, <3>3
    <2> QED BY <2>3, <2>4
  <1> QED BY <1>1 DEF TurnFrames

LEMMA RefusalsEmbed ==
  ASSUME NEW u, NEW v, NEW k, NEW s, NEW t, NEW ph, Embeds(v, u, k), Refusals(u, s, t, ph),
         k \in DOMAIN v => ~IsRefusal(v[k], s)
  PROVE  Refusals(v, s, t, ph)
  <1>1. ASSUME NEW i \in DOMAIN v, IsRefusal(v[i], s)
        PROVE  /\ v[i].turn = t /\ ph[t] = "idle"
               /\ \A j \in DOMAIN v : IsRefusal(v[j], s) => i = j
    <2>1. i # k BY <1>1
    <2>2. PICK x \in DOMAIN u : v[i] = u[x] BY <2>1, OneEmbeds
    <2>3. v[i].turn = t /\ ph[t] = "idle" BY <1>1, <2>2 DEF Refusals
    <2>4. ASSUME NEW j \in DOMAIN v, IsRefusal(v[j], s) PROVE i = j
      <3>1. j # k BY <2>4
      <3>2. PICK y, z \in DOMAIN u : v[i] = u[y] /\ v[j] = u[z] /\ (y = z => i = j)
        BY <2>1, <3>1, PairsEmbed
      <3>3. y = z BY <1>1, <2>4, <3>2 DEF Refusals
      <3> QED BY <3>2, <3>3
    <2> QED BY <2>3, <2>4
  <1> QED BY <1>1 DEF Refusals

LEMMA RefusedOnceEmbed ==
  ASSUME NEW q, NEW r, NEW k, NEW u, NEW v, NEW l, NEW s,
         Embeds(r, q, k), Embeds(v, u, l), RefusedOnce(q, u, s),
         k \in DOMAIN r => r[k].method # "sendTurn",
         l \in DOMAIN v => ~IsRefusal(v[l], s)
  PROVE  RefusedOnce(r, v, s)
  <1>1. ASSUME NEW i \in DOMAIN v, NEW j \in DOMAIN r, IsRefusal(v[i], s)
        PROVE  r[j].method # "sendTurn"
    <2>1. CASE j # k
      <3>1. PICK x \in DOMAIN u : v[i] = u[x] BY <1>1, OneEmbeds
      <3>2. PICK y \in DOMAIN q : r[j] = q[y] BY <2>1, OneEmbeds
      <3> QED BY <1>1, <3>1, <3>2 DEF RefusedOnce
    <2> QED BY <2>1
  <1> QED BY <1>1 DEF RefusedOnce

LEMMA EndsEmbed ==
  ASSUME NEW u, NEW v, NEW k, NEW s, NEW ph, NEW ps, NEW sl, NEW ss, NEW act, NEW acts,
         Embeds(v, u, k), Ends(u, s, ph, sl, act),
         \A i \in DOMAIN u : IsEnd(u[i], s) => (ph[u[i].turn] # "idle" => ps[u[i].turn] # "idle"),
         acts => act /\ ss = sl,
         k \in DOMAIN v /\ IsEnd(v[k], s) =>
           ps[v[k].turn] # "idle" /\ (v[k].turn = ss => ~acts)
  PROVE  Ends(v, s, ps, ss, acts)
  <1>1. ASSUME NEW i \in DOMAIN v, IsEnd(v[i], s)
        PROVE  ps[v[i].turn] # "idle" /\ (v[i].turn = ss => ~acts)
    <2>1. CASE i # k
      <3>1. PICK x \in DOMAIN u : v[i] = u[x] BY <2>1, OneEmbeds
      <3> QED BY <1>1, <3>1 DEF Ends
    <2> QED BY <1>1, <2>1
  <1> QED BY <1>1 DEF Ends

LEMMA DownsEmbed ==
  ASSUME NEW u, NEW v, NEW k, NEW s, NEW a, NEW b, Embeds(v, u, k), Downs(u, s, a),
         b => a,
         k \in DOMAIN v => v[k].kind # "Stopped" /\ (v[k].kind = "Failed" => ~b)
  PROVE  Downs(v, s, b)
  <1>1. ASSUME NEW i \in DOMAIN v, v[i].session = s
        PROVE  v[i].kind # "Stopped" /\ (v[i].kind = "Failed" => ~b)
    <2>1. CASE i # k
      <3>1. PICK x \in DOMAIN u : v[i] = u[x] BY <2>1, OneEmbeds
      <3> QED BY <1>1, <3>1 DEF Downs
    <2> QED BY <1>1, <2>1
  <1> QED BY <1>1 DEF Downs

LEMMA OrderedEmbed ==
  ASSUME NEW u, NEW v, NEW k, NEW s, Embeds(v, u, k), Ordered(u, s),
         k \in DOMAIN v /\ IsTool(v[k], s) =>
           /\ \A i \in DOMAIN v : ~(k < i)
           /\ \A i \in DOMAIN u : IsTool(u[i], s) /\ OfCall(u[i]) = OfCall(v[k]) =>
                Rank(u[i].kind) < Rank(v[k].kind)
  PROVE  Ordered(v, s)
  <1>1. ASSUME NEW i \in DOMAIN v, NEW j \in DOMAIN v, i < j,
               IsTool(v[i], s), IsTool(v[j], s), OfCall(v[i]) = OfCall(v[j])
        PROVE  Rank(v[i].kind) < Rank(v[j].kind)
    <2>1. CASE i # k /\ j # k
      <3>1. PICK x, y \in DOMAIN u : v[i] = u[x] /\ v[j] = u[y] /\ (i < j => x < y)
        BY <2>1, PairsEmbed
      <3> QED BY <1>1, <3>1 DEF Ordered
    <2>2. CASE i = k
      BY <1>1, <2>2
    <2>3. CASE i # k /\ j = k
      <3>1. PICK x \in DOMAIN u : v[i] = u[x] BY <2>3, OneEmbeds
      <3> QED BY <1>1, <2>3, <3>1
    <2> QED BY <2>1, <2>2, <2>3
  <1> QED BY <1>1 DEF Ordered

LEMMA KnownEmbed ==
  ASSUME NEW u, NEW v, NEW k, NEW s, NEW ph, NEW sl, NEW cl, Embeds(v, u, k),
         Known(u, s, ph, sl, cl),
         k \in DOMAIN v /\ IsTool(v[k], s) =>
           /\ ph[v[k].turn] # "idle"
           /\ v[k].turn = sl => \/ v[k].call < cl.count
                                \/ v[k].call = cl.count /\ Rank(v[k].kind) <= Told(cl.at)
  PROVE  Known(v, s, ph, sl, cl)
  <1>1. ASSUME NEW i \in DOMAIN v, IsTool(v[i], s)
        PROVE  /\ ph[v[i].turn] # "idle"
               /\ v[i].turn = sl => \/ v[i].call < cl.count
                                    \/ v[i].call = cl.count /\ Rank(v[i].kind) <= Told(cl.at)
    <2>1. CASE i # k
      <3>1. PICK x \in DOMAIN u : v[i] = u[x] BY <2>1, OneEmbeds
      <3>2. IsTool(u[x], s) BY <1>1, <3>1
      <3> QED BY <3>1, <3>2 DEF Known
    <2> QED BY <1>1, <2>1
  <1> QED BY <1>1 DEF Known

\* What was announced stays so, unless just this message is taken.
LEMMA AnnouncedStays ==
  ASSUME NEW u, NEW v, NEW s, NEW c, Announced(u, s, c),
         KeepsAll(v, u) \/ (Keeps(v, u) /\ ~(IsTool(u[1], s) /\ u[1].kind = "toolStarted"
                                               /\ OfCall(u[1]) = c))
  PROVE  Announced(v, s, c)
  <1>1. PICK j \in DOMAIN u :
          IsTool(u[j], s) /\ u[j].kind = "toolStarted" /\ OfCall(u[j]) = c
    BY DEF Announced
  <1>2. KeepsAll(v, u) \/ (Keeps(v, u) /\ j # 1) BY <1>1
  <1>3. PICK i \in DOMAIN v : v[i] = u[j] BY <1>1, <1>2 DEF KeepsAll, Keeps
  <1> QED BY <1>1, <1>3 DEF Announced

FitsIn(m, v, s, ap) ==
  /\ m.kind = "approvalRequired" => ap[OfCall(m)] = "none"
  /\ m.kind = "toolStarted" => ap[OfCall(m)] = "allowed"
  /\ m.kind = "toolCompleted" =>
       IF m.status = "denied" THEN ap[OfCall(m)] = "closed" ELSE Runs(v, s, ap, OfCall(m))

LEMMA FitsEmbed ==
  ASSUME NEW u, NEW v, NEW k, NEW s, NEW t, NEW ap, NEW as, Embeds(v, u, k),
         Fits(u, s, t, ap),
         \A i \in DOMAIN v : i # k /\ IsTool(v[i], s) /\ v[i].turn = t =>
           /\ as[OfCall(v[i])] = ap[OfCall(v[i])]
           /\ Announced(u, s, OfCall(v[i])) => Announced(v, s, OfCall(v[i])),
         k \in DOMAIN v /\ IsTool(v[k], s) /\ v[k].turn = t => FitsIn(v[k], v, s, as)
  PROVE  Fits(v, s, t, as)
  <1>1. ASSUME NEW i \in DOMAIN v, IsTool(v[i], s), v[i].turn = t
        PROVE  FitsIn(v[i], v, s, as)
    <2>1. CASE i # k
      <3>1. PICK x \in DOMAIN u : v[i] = u[x] BY <2>1, OneEmbeds
      <3>2. FitsIn(v[i], u, s, ap) BY <1>1, <3>1 DEF Fits, FitsIn
      <3>3. /\ as[OfCall(v[i])] = ap[OfCall(v[i])]
            /\ Announced(u, s, OfCall(v[i])) => Announced(v, s, OfCall(v[i]))
        BY <1>1, <2>1
      <3>4. Runs(u, s, ap, OfCall(v[i])) => Runs(v, s, as, OfCall(v[i])) BY <3>3 DEF Runs
      <3> QED BY <3>2, <3>3, <3>4 DEF FitsIn
    <2> QED BY <1>1, <2>1
  <1> QED BY <1>1 DEF Fits, FitsIn

LEMMA DecidedEmbed ==
  ASSUME NEW q, NEW r, NEW k, NEW t, NEW ap, Embeds(r, q, k), Decided(q, t, ap),
         k \in DOMAIN r /\ r[k].method = "respond" /\ r[k].turn = t =>
           ap[OfCall(r[k])] = IF r[k].allow THEN "allowed" ELSE "closed"
  PROVE  Decided(r, t, ap)
  <1>1. ASSUME NEW i \in DOMAIN r, r[i].method = "respond", r[i].turn = t
        PROVE  ap[OfCall(r[i])] = IF r[i].allow THEN "allowed" ELSE "closed"
    <2>1. CASE i # k
      <3>1. PICK x \in DOMAIN q : r[i] = q[x] BY <2>1, OneEmbeds
      <3> QED BY <1>1, <3>1 DEF Decided
    <2> QED BY <1>1, <2>1
  <1> QED BY <1>1 DEF Decided

LEMMA DecidedOnceEmbed ==
  ASSUME NEW q, NEW r, NEW k, Embeds(r, q, k), DecidedOnce(q),
         k \in DOMAIN r /\ r[k].method = "respond" =>
           \A i \in DOMAIN q : q[i].method = "respond" => OfCall(q[i]) # OfCall(r[k])
  PROVE  DecidedOnce(r)
  <1>1. ASSUME NEW i \in DOMAIN r, NEW j \in DOMAIN r, r[i].method = "respond",
               r[j].method = "respond", OfCall(r[i]) = OfCall(r[j])
        PROVE  i = j
    <2>1. CASE i # k /\ j # k
      <3>1. PICK x, y \in DOMAIN q : r[i] = q[x] /\ r[j] = q[y] /\ (x = y => i = j)
        BY <2>1, PairsEmbed
      <3> QED BY <1>1, <3>1 DEF DecidedOnce
    <2>2. CASE i = k /\ j # k
      <3>1. PICK y \in DOMAIN q : r[j] = q[y] BY <2>2, OneEmbeds
      <3> QED BY <1>1, <2>2, <3>1
    <2>3. CASE i # k /\ j = k
      <3>1. PICK x \in DOMAIN q : r[i] = q[x] BY <2>3, OneEmbeds
      <3> QED BY <1>1, <2>3, <3>1
    <2> QED BY <2>1, <2>2, <2>3
  <1> QED BY <1>1 DEF DecidedOnce

LEMMA UndecidedEmbed ==
  ASSUME NEW q, NEW r, NEW k, NEW ph, NEW sl, NEW cl, Embeds(r, q, k),
         Undecided(q, ph, sl, cl),
         k \in DOMAIN r /\ r[k].method = "respond" =>
           /\ ph[r[k].turn] # "idle"
           /\ r[k].turn = sl =>
                \/ r[k].call < cl.count
                \/ r[k].call = cl.count /\ cl.at \notin {"allowed", "denied", "started"}
  PROVE  Undecided(r, ph, sl, cl)
  <1>1. ASSUME NEW i \in DOMAIN r, r[i].method = "respond"
        PROVE  /\ ph[r[i].turn] # "idle"
               /\ r[i].turn = sl =>
                    \/ r[i].call < cl.count
                    \/ r[i].call = cl.count /\ cl.at \notin {"allowed", "denied", "started"}
    <2>1. CASE i # k
      <3>1. PICK x \in DOMAIN q : r[i] = q[x] BY <2>1, OneEmbeds
      <3>2. q[x].method = "respond" BY <1>1, <3>1
      <3> QED BY <3>1, <3>2 DEF Undecided
    <2> QED BY <1>1, <2>1
  <1> QED BY <1>1 DEF Undecided

LEMMA UnheardEmbed ==
  ASSUME NEW q, NEW r, NEW k, NEW u, NEW v, NEW l, NEW s,
         Embeds(r, q, k), Embeds(v, u, l), Unheard(q, u, s),
         k \in DOMAIN r /\ r[k].method = "respond" =>
           \A i \in DOMAIN v : IsTool(v[i], s) /\ OfCall(v[i]) = OfCall(r[k]) =>
             v[i].kind = "approvalRequired",
         l \in DOMAIN v /\ IsTool(v[l], s) /\ v[l].kind # "approvalRequired" =>
           \A j \in DOMAIN r : r[j].method = "respond" => OfCall(v[l]) # OfCall(r[j])
  PROVE  Unheard(r, v, s)
  <1>1. ASSUME NEW i \in DOMAIN v, NEW j \in DOMAIN r, IsTool(v[i], s),
               r[j].method = "respond", OfCall(v[i]) = OfCall(r[j])
        PROVE  v[i].kind = "approvalRequired"
    <2>1. CASE i # l /\ j # k
      <3>1. PICK x \in DOMAIN u : v[i] = u[x] BY <2>1, OneEmbeds
      <3>2. PICK y \in DOMAIN q : r[j] = q[y] BY <2>1, OneEmbeds
      <3> QED BY <1>1, <3>1, <3>2 DEF Unheard
    <2>2. CASE i = l BY <1>1, <2>2
    <2>3. CASE j = k BY <1>1, <2>3
    <2> QED BY <2>1, <2>2, <2>3
  <1> QED BY <1>1 DEF Unheard

LEMMA CallFitsStays ==
  ASSUME NEW u, NEW v, NEW s, NEW sl, NEW cl, NEW t, NEW ap, NEW as,
         CallFits(u, s, sl, cl, t, ap),
         sl # NoTurn /\ sl = t =>
           /\ as[<<sl, cl.count>>] = ap[<<sl, cl.count>>]
           /\ Announced(u, s, <<sl, cl.count>>) => Announced(v, s, <<sl, cl.count>>)
  PROVE  CallFits(v, s, sl, cl, t, as)
  <1>1. ASSUME sl # NoTurn, sl = t
        PROVE  /\ cl.at = "allowed" => as[<<sl, cl.count>>] = "allowed"
               /\ cl.at = "denied" => as[<<sl, cl.count>>] = "closed"
               /\ cl.at = "started" => Runs(v, s, as, <<sl, cl.count>>)
    <2>1. /\ cl.at = "allowed" => ap[<<sl, cl.count>>] = "allowed"
          /\ cl.at = "denied" => ap[<<sl, cl.count>>] = "closed"
          /\ cl.at = "started" => Runs(u, s, ap, <<sl, cl.count>>)
      BY <1>1 DEF CallFits
    <2>2. Runs(u, s, ap, <<sl, cl.count>>) => Runs(v, s, as, <<sl, cl.count>>)
      BY <1>1 DEF Runs
    <2> QED BY <1>1, <2>1, <2>2
  <1> QED BY <1>1 DEF CallFits

LEMMA FrameTypesEmbed ==
  ASSUME NEW q, NEW r \in Seq(Frames), NEW k, NEW d, NEW c, Embeds(r, q, k), FrameTypes(q, d),
         d \subseteq c,
         k \in DOMAIN r => /\ r[k].method \in {"sendTurn", "respond"} => r[k].turn \in c
                           /\ r[k].method = "respond" => r[k].call # 0
  PROVE  FrameTypes(r, c)
  <1>1. ASSUME NEW i \in DOMAIN r
        PROVE  /\ r[i].method \in {"sendTurn", "respond"} => r[i].turn \in c
               /\ r[i].method = "respond" => r[i].call # 0
    <2>1. CASE i # k
      <3>1. PICK x \in DOMAIN q : r[i] = q[x] BY <2>1, OneEmbeds
      <3>2. /\ q[x].method \in {"sendTurn", "respond"} => q[x].turn \in d
            /\ q[x].method = "respond" => q[x].call # 0
        BY DEF FrameTypes
      <3> QED BY <3>1, <3>2
    <2> QED BY <2>1
  <1> QED BY <1>1 DEF FrameTypes

LEMMA MessageTypesEmbed ==
  ASSUME NEW u, NEW v \in Seq(Messages), NEW k, NEW s \in Nat, NEW z \in Nat, NEW d, NEW c,
         Embeds(v, u, k), MessageTypes(u, s, d), d \subseteq c, s <= z,
         k \in DOMAIN v => /\ v[k].session <= z
                           /\ v[k].kind \notin BareKinds => v[k].turn \in c
                           /\ v[k].kind \in ToolKinds => v[k].call # 0
  PROVE  MessageTypes(v, z, c)
  <1>1. ASSUME NEW i \in DOMAIN v
        PROVE  /\ v[i].session <= z
               /\ v[i].kind \notin BareKinds => v[i].turn \in c
               /\ v[i].kind \in ToolKinds => v[i].call # 0
    <2>1. CASE i # k
      <3>1. PICK x \in DOMAIN u : v[i] = u[x] BY <2>1, OneEmbeds
      <3>2. /\ u[x].session <= s
            /\ u[x].kind \notin BareKinds => u[x].turn \in d
            /\ u[x].kind \in ToolKinds => u[x].call # 0
        BY DEF MessageTypes
      <3>3. v[i] \in Messages BY ElementOfSeq, LenProperties
      <3>4. v[i].session \in Nat BY <3>3 DEF Messages
      <3> QED BY <3>1, <3>2, <3>4
    <2> QED BY <2>1
  <1> QED BY <1>1 DEF MessageTypes
-----------------------------------------------------------------------------
(* The turns of ChatHost go on.                                            *)

\* The turn in the slot stays, is done with its call, leaves, or is a new one.
TurnGoes(ph, ps, sl, ss, cl, cs) ==
  /\ \A t \in Turns : ph[t] # "idle" => ps[t] # "idle"
  /\ \/ ss = sl /\ cs = cl
     \/ ss = sl /\ cs.count = cl.count /\ cs.at \in {"none", "failing"}
     \/ ss = NoTurn
     \/ ph[ss] = "idle" /\ cs.at = "none"

LEMMA TurnOfMessage ==
  ASSUME NEW u, NEW s, NEW d, MessageTypes(u, s, d), d \subseteq Turns, NEW i \in DOMAIN u
  PROVE  /\ u[i] \in Messages
         /\ u[i].kind \notin BareKinds => u[i].turn \in Turns /\ u[i].turn # NoTurn
         /\ IsTool(u[i], s) => /\ u[i].turn \in Turns /\ u[i].turn # NoTurn
                               /\ u[i].call \in 1 .. MaxCalls
                               /\ OfCall(u[i]) \in Approvals
  <1>1. u[i] \in Messages BY ElementOfSeq, LenProperties DEF MessageTypes
  <1>2. u[i].kind \notin BareKinds => u[i].turn \in Turns /\ u[i].turn # NoTurn
    BY WindowAssumption DEF MessageTypes
  <1>3. ASSUME IsTool(u[i], s)
        PROVE  /\ u[i].turn \in Turns /\ u[i].turn # NoTurn
               /\ u[i].call \in 1 .. MaxCalls /\ OfCall(u[i]) \in Approvals
    <2>1. u[i].kind \in ToolKinds BY <1>3 DEF IsTool
    <2>2. u[i].kind \notin BareKinds BY <2>1 DEF ToolKinds, BareKinds
    <2>3. u[i].call # 0 BY <2>1 DEF MessageTypes
    <2>4. u[i].call \in 0 .. MaxCalls BY <1>1 DEF Messages
    <2>5. u[i].call \in 1 .. MaxCalls BY <2>3, <2>4, WindowAssumption
    <2> QED BY <1>2, <2>2, <2>5 DEF OfCall, Approvals
  <1> QED BY <1>1, <1>2, <1>3

LEMMA TurnOfFrame ==
  ASSUME NEW q, NEW d, FrameTypes(q, d), d \subseteq Turns, NEW i \in DOMAIN q
  PROVE  /\ q[i] \in Frames
         /\ q[i].method \in {"sendTurn", "respond"} => q[i].turn \in Turns /\ q[i].turn # NoTurn
         /\ q[i].method = "respond" => q[i].call \in 1 .. MaxCalls /\ OfCall(q[i]) \in Approvals
  <1>1. q[i] \in Frames BY ElementOfSeq, LenProperties DEF FrameTypes
  <1>2. q[i].method \in {"sendTurn", "respond"} => q[i].turn \in Turns /\ q[i].turn # NoTurn
    BY WindowAssumption DEF FrameTypes
  <1>3. ASSUME q[i].method = "respond"
        PROVE  q[i].call \in 1 .. MaxCalls /\ OfCall(q[i]) \in Approvals
    <2>1. q[i].call # 0 BY <1>3 DEF FrameTypes
    <2>2. q[i].call \in 0 .. MaxCalls BY <1>1 DEF Frames
    <2>3. q[i].call \in 1 .. MaxCalls BY <2>1, <2>2, WindowAssumption
    <2> QED BY <1>2, <1>3, <2>3 DEF OfCall, Approvals
  <1> QED BY <1>1, <1>2, <1>3

LEMMA AskedGoes ==
  ASSUME NEW ap, NEW t, NEW ph, NEW ps, NEW sl, NEW ss, NEW cl, NEW cs,
         TurnGoes(ph, ps, sl, ss, cl, cs), Asked(ap, t, ph, sl, cl)
  PROVE  Asked(ap, t, ps, ss, cs)
  <1>1. ASSUME NEW a \in Approvals, ap[a] # "none"
        PROVE  a[1] = t /\ ps[a[1]] # "idle" /\ (a[1] = ss => a[2] <= cs.count)
    <2>1. a[1] = t /\ ph[a[1]] # "idle" /\ (a[1] = sl => a[2] <= cl.count)
      BY <1>1 DEF Asked
    <2>2. a[1] \in Turns /\ a[1] # NoTurn BY WindowAssumption DEF Approvals
    <2> QED BY <2>1, <2>2 DEF TurnGoes
  <1> QED BY <1>1 DEF Asked

LEMMA KnownGoes ==
  ASSUME NEW u, NEW s, NEW d, MessageTypes(u, s, d), d \subseteq Turns,
         NEW ph, NEW ps, NEW sl, NEW ss, NEW cl, NEW cs,
         TurnGoes(ph, ps, sl, ss, cl, cs), Known(u, s, ph, sl, cl)
  PROVE  Known(u, s, ps, ss, cs)
  <1>1. ASSUME NEW i \in DOMAIN u, IsTool(u[i], s)
        PROVE  /\ ps[u[i].turn] # "idle"
               /\ u[i].turn = ss => \/ u[i].call < cs.count
                                    \/ u[i].call = cs.count /\ Rank(u[i].kind) <= Told(cs.at)
    <2>1. u[i].turn \in Turns /\ u[i].turn # NoTurn BY <1>1, TurnOfMessage
    <2>2. /\ ph[u[i].turn] # "idle"
          /\ u[i].turn = sl => \/ u[i].call < cl.count
                               \/ u[i].call = cl.count /\ Rank(u[i].kind) <= Told(cl.at)
      BY <1>1 DEF Known
    <2>3. Rank(u[i].kind) <= 3 BY DEF Rank
    <2>4. cs.at \in {"none", "failing"} => Told(cs.at) = 3 BY DEF Told
    <2>5. ps[u[i].turn] # "idle" BY <2>1, <2>2 DEF TurnGoes
    <2>6. ASSUME u[i].turn = ss
          PROVE  \/ u[i].call < cs.count
                 \/ u[i].call = cs.count /\ Rank(u[i].kind) <= Told(cs.at)
      <3>1. \/ ss = sl /\ cs = cl
            \/ ss = sl /\ cs.count = cl.count /\ cs.at \in {"none", "failing"}
        BY <2>1, <2>2, <2>6 DEF TurnGoes
      <3>2. CASE ss = sl /\ cs = cl BY <2>2, <2>6, <3>2
      <3>3. CASE ss = sl /\ cs.count = cl.count /\ cs.at \in {"none", "failing"}
        BY <2>2, <2>3, <2>4, <2>6, <3>3
      <3> QED BY <3>1, <3>2, <3>3
    <2> QED BY <2>5, <2>6
  <1> QED BY <1>1 DEF Known

LEMMA UndecidedGoes ==
  ASSUME NEW q, NEW d, FrameTypes(q, d), d \subseteq Turns,
         NEW ph, NEW ps, NEW sl, NEW ss, NEW cl, NEW cs,
         TurnGoes(ph, ps, sl, ss, cl, cs), Undecided(q, ph, sl, cl)
  PROVE  Undecided(q, ps, ss, cs)
  <1>1. ASSUME NEW i \in DOMAIN q, q[i].method = "respond"
        PROVE  /\ ps[q[i].turn] # "idle"
               /\ q[i].turn = ss =>
                    \/ q[i].call < cs.count
                    \/ q[i].call = cs.count /\ cs.at \notin {"allowed", "denied", "started"}
    <2>1. q[i].turn \in Turns /\ q[i].turn # NoTurn BY <1>1, TurnOfFrame
    <2>2. /\ ph[q[i].turn] # "idle"
          /\ q[i].turn = sl =>
               \/ q[i].call < cl.count
               \/ q[i].call = cl.count /\ cl.at \notin {"allowed", "denied", "started"}
      BY <1>1 DEF Undecided
    <2>3. ps[q[i].turn] # "idle" BY <2>1, <2>2 DEF TurnGoes
    <2>4. ASSUME q[i].turn = ss
          PROVE  \/ q[i].call < cs.count
                 \/ q[i].call = cs.count /\ cs.at \notin {"allowed", "denied", "started"}
      <3>1. \/ ss = sl /\ cs = cl
            \/ ss = sl /\ cs.count = cl.count /\ cs.at \in {"none", "failing"}
        BY <2>1, <2>2, <2>4 DEF TurnGoes
      <3> QED BY <2>2, <2>4, <3>1
    <2> QED BY <2>3, <2>4
  <1> QED BY <1>1 DEF Undecided

LEMMA CallGoes ==
  ASSUME NEW u, NEW s, NEW ph, NEW ps, NEW sl, NEW ss, NEW cl, NEW cs, NEW t, NEW ap,
         TurnGoes(ph, ps, sl, ss, cl, cs), CallFits(u, s, sl, cl, t, ap)
  PROVE  CallFits(u, s, ss, cs, t, ap)
  BY DEF TurnGoes, CallFits
-----------------------------------------------------------------------------
(* Steps that say nothing new keep the three invariants.                   *)

LEMMA GateKeeps ==
  ASSUME TalkTypes, drawn \subseteq Turns, GateInv, NEW k, NEW l,
         Embeds(toHost', toHost, k), Embeds(toUi', toUi, l),
         k \in DOMAIN toHost' => toHost'[k].method # "sendTurn",
         l \in DOMAIN toUi' =>
           toUi'[l].kind \notin {"Stopped", "Failed", "turnError", "completed", "error"},
         session' = session, pane'.turn = pane.turn, gate' = gate, drawn' = drawn,
         Alive' = Alive,
         \A t \in Turns : phase'[t] = "idle" <=> phase[t] = "idle",
         Active' => Active /\ slot' = slot
  PROVE  GateInv'
  <1>1. pane'.turn # NoTurn => gate' /\ pane'.turn \in drawn' BY DEF GateInv
  <1>2. Active' => slot' = pane'.turn BY DEF GateInv
  <1>3. Ends(toUi', session, phase', slot', Active')
    <2>1. Ends(toUi, session, phase, slot, Active) BY DEF GateInv
    <2>2. ASSUME NEW i \in DOMAIN toUi, IsEnd(toUi[i], session), phase[toUi[i].turn] # "idle"
          PROVE  phase'[toUi[i].turn] # "idle"
      <3>1. toUi[i].kind \notin BareKinds BY <2>2 DEF IsEnd, EndKinds, BareKinds
      <3>2. toUi[i].turn \in Turns BY <3>1, TurnOfMessage DEF TalkTypes
      <3> QED BY <2>2, <3>2
    <2>3. l \in DOMAIN toUi' => ~IsEnd(toUi'[l], session) BY DEF IsEnd, EndKinds
    <2> QED BY <2>1, <2>2, <2>3, EndsEmbed
  <1>4. Downs(toUi', session, Alive')
    <2>1. Downs(toUi, session, Alive) BY DEF GateInv
    <2> QED BY <2>1, DownsEmbed
  <1>5. ASSUME Alive'
        PROVE  /\ TurnFrames(toHost', pane'.turn, phase')
               /\ Refusals(toUi', session, pane'.turn, phase')
               /\ RefusedOnce(toHost', toUi', session)
    <2>1. /\ TurnFrames(toHost, pane.turn, phase) /\ Refusals(toUi, session, pane.turn, phase)
          /\ RefusedOnce(toHost, toUi, session)
      BY <1>5 DEF GateInv
    <2>2. TurnFrames(toHost, pane.turn, phase')
      <3>1. ASSUME NEW i \in DOMAIN toHost, toHost[i].method = "sendTurn"
            PROVE  phase'[pane.turn] = "idle"
        <4>1. toHost[i].turn = pane.turn /\ phase[pane.turn] = "idle"
          BY <2>1, <3>1 DEF TurnFrames
        <4>2. toHost[i].turn \in Turns BY <3>1, TurnOfFrame DEF TalkTypes
        <4> QED BY <4>1, <4>2
      <3> QED BY <2>1, <3>1 DEF TurnFrames
    <2>3. Refusals(toUi, session, pane.turn, phase')
      <3>1. ASSUME NEW i \in DOMAIN toUi, IsRefusal(toUi[i], session)
            PROVE  phase'[pane.turn] = "idle"
        <4>1. toUi[i].turn = pane.turn /\ phase[pane.turn] = "idle"
          BY <2>1, <3>1 DEF Refusals
        <4>2. toUi[i].kind \notin BareKinds BY <3>1 DEF IsRefusal, BareKinds
        <4>3. toUi[i].turn \in Turns BY <4>2, TurnOfMessage DEF TalkTypes
        <4> QED BY <4>1, <4>3
      <3> QED BY <2>1, <3>1 DEF Refusals
    <2>4. l \in DOMAIN toUi' => ~IsRefusal(toUi'[l], session) BY DEF IsRefusal
    <2>5. TurnFrames(toHost', pane.turn, phase') BY <2>2, TurnFramesEmbed
    <2>6. Refusals(toUi', session, pane.turn, phase') BY <2>3, <2>4, RefusalsEmbed
    <2>7. RefusedOnce(toHost', toUi', session) BY <2>1, <2>4, RefusedOnceEmbed
    <2> QED BY <2>5, <2>6, <2>7
  <1> QED BY <1>1, <1>2, <1>3, <1>4, <1>5 DEF GateInv

LEMMA InitKeeps ==
  ASSUME HandshakeInv, NEW k, NEW l,
         Embeds(toHost', toHost, k), Embeds(toUi', toUi, l),
         k \in DOMAIN toHost' => toHost'[k].method # "initialize",
         l \in DOMAIN toUi' => toUi'[l].kind \notin AnswerKinds,
         session' = session,
         pane'.initialized = pane.initialized, pane'.initializing = pane.initializing,
         pane'.generation = pane.generation,
         host'.initialized = host.initialized, host'.generation = host.generation
  PROVE  HandshakeInv'
  <1>1. l \in DOMAIN toUi' => ~IsAnswer(toUi'[l], session) BY DEF IsAnswer
  <1>2. Ready(pane', host') BY DEF HandshakeInv, Ready
  <1>3. InitFrames(toHost, pane') BY DEF HandshakeInv, InitFrames
  <1>4. InitFrames(toHost', pane') BY <1>3, InitFramesEmbed
  <1>5. InitAnswers(toUi, session, pane', host') BY DEF HandshakeInv, InitAnswers
  <1>6. InitAnswers(toUi', session, pane', host') BY <1>1, <1>5, InitAnswersEmbed
  <1>7. InitOnce(toHost', toUi', session) BY <1>1, InitOnceEmbed DEF HandshakeInv
  <1> QED BY <1>2, <1>4, <1>6, <1>7 DEF HandshakeInv

LEMMA ToolKeeps ==
  ASSUME TalkTypes, drawn \subseteq Turns, ToolInv, NEW k, NEW l,
         Embeds(toHost', toHost, k), Embeds(toUi', toUi, l),
         k \in DOMAIN toHost' => toHost'[k].method # "respond",
         l \in DOMAIN toUi' => toUi'[l].kind \notin ToolKinds,
         \/ KeepsAll(toUi', toUi)
         \/ Keeps(toUi', toUi) /\ ~(IsTool(toUi[1], session) /\ toUi[1].kind = "toolStarted"),
         session' = session, pane'.turn = pane.turn, approval' = approval,
         TurnGoes(phase, phase', slot, slot', call, call')
  PROVE  ToolInv'
  <1>1. l \in DOMAIN toUi' => ~IsTool(toUi'[l], session) BY DEF IsTool
  <1>2. MessageTypes(toUi, session, drawn) /\ FrameTypes(toHost, drawn) BY DEF TalkTypes
  <1>3. \A c : Announced(toUi, session, c) => Announced(toUi', session, c)
    BY AnnouncedStays
  <1>4. Asked(approval, pane.turn, phase', slot', call') BY AskedGoes DEF ToolInv
  <1>5. Known(toUi', session, phase', slot', call')
    <2>1. Known(toUi, session, phase', slot', call') BY <1>2, KnownGoes DEF ToolInv
    <2> QED BY <1>1, <2>1, KnownEmbed
  <1>6. Ordered(toUi', session) BY <1>1, OrderedEmbed DEF ToolInv
  <1>7. Fits(toUi', session, pane.turn, approval) BY <1>1, <1>3, FitsEmbed DEF ToolInv
  <1>8. Decided(toHost', pane.turn, approval) BY DecidedEmbed DEF ToolInv
  <1>9. DecidedOnce(toHost') BY DecidedOnceEmbed DEF ToolInv
  <1>10. Undecided(toHost', phase', slot', call')
    <2>1. Undecided(toHost, phase', slot', call') BY <1>2, UndecidedGoes DEF ToolInv
    <2> QED BY <2>1, UndecidedEmbed
  <1>11. Unheard(toHost', toUi', session) BY <1>1, UnheardEmbed DEF ToolInv
  <1>12. CallFits(toUi', session, slot', call', pane.turn, approval)
    <2>1. CallFits(toUi, session, slot', call', pane.turn, approval) BY CallGoes DEF ToolInv
    <2> QED BY <1>3, <2>1, CallFitsStays
  <1> QED BY <1>4, <1>5, <1>6, <1>7, <1>8, <1>9, <1>10, <1>11, <1>12 DEF ToolInv
-----------------------------------------------------------------------------
(* Taking and putting.                                                     *)

LEMMA PopFacts ==
  ASSUME TalkTypes, toUi # << >>, toUi' = Tail(toUi)
  PROVE  /\ Embeds(toUi', toUi, 0) /\ Keeps(toUi', toUi) /\ 0 \notin DOMAIN toUi'
         /\ toUi' \in Seq(Messages) /\ M = toUi[1] /\ 1 \in DOMAIN toUi /\ M \in Messages
         /\ \A i \in DOMAIN toUi' : i + 1 \in DOMAIN toUi /\ toUi'[i] = toUi[i + 1] /\ i \in Nat
  <1>1. toUi \in Seq(Messages) BY DEF TalkTypes, MessageTypes
  <1>2. /\ Embeds(Tail(toUi), toUi, 0) /\ Keeps(Tail(toUi), toUi) /\ 0 \notin DOMAIN Tail(toUi)
        /\ Tail(toUi) \in Seq(Messages) /\ Head(toUi) = toUi[1] /\ 1 \in DOMAIN toUi
        /\ \A i \in DOMAIN Tail(toUi) :
             i + 1 \in DOMAIN toUi /\ Tail(toUi)[i] = toUi[i + 1] /\ i \in Nat
    BY <1>1, TailEmbeds
  <1>3. toUi[1] \in Messages BY <1>1, <1>2, ElementOfSeq, LenProperties
  <1> QED BY <1>2, <1>3 DEF M

LEMMA SayFacts ==
  ASSUME TalkTypes, NEW m \in Messages, toUi' = Append(toUi, m)
  PROVE  /\ Embeds(toUi', toUi, Len(toUi) + 1) /\ KeepsAll(toUi', toUi)
         /\ toUi' \in Seq(Messages) /\ toUi'[Len(toUi) + 1] = m
         /\ Len(toUi) + 1 \in DOMAIN toUi' /\ \A i \in DOMAIN toUi' : ~(Len(toUi) + 1 < i)
  <1>1. toUi \in Seq(Messages) BY DEF TalkTypes, MessageTypes
  <1>2. /\ Embeds(Append(toUi, m), toUi, Len(toUi) + 1) /\ KeepsAll(Append(toUi, m), toUi)
        /\ Append(toUi, m) \in Seq(Messages) /\ Append(toUi, m)[Len(toUi) + 1] = m
        /\ DOMAIN Append(toUi, m) = DOMAIN toUi \cup {Len(toUi) + 1}
        /\ \A i \in DOMAIN toUi : i < Len(toUi) + 1 /\ i \in Nat
        /\ Len(toUi) \in Nat
    BY <1>1, AppendEmbeds
  <1>3. \A i \in DOMAIN Append(toUi, m) : ~(Len(toUi) + 1 < i) BY <1>2
  <1> QED BY <1>2, <1>3

LEMMA UnsaidFacts ==
  ASSUME TalkTypes, toUi' = toUi
  PROVE  Embeds(toUi', toUi, 0) /\ KeepsAll(toUi', toUi) /\ 0 \notin DOMAIN toUi'
  <1>1. toUi \in Seq(Messages) BY DEF TalkTypes, MessageTypes
  <1>2. Embeds(toUi, toUi, 0) /\ KeepsAll(toUi, toUi) /\ 0 \notin DOMAIN toUi
    BY <1>1, SameEmbeds
  <1> QED BY <1>2

LEMMA ReadFacts ==
  ASSUME TalkTypes, toHost # << >>, toHost' = Tail(toHost)
  PROVE  /\ Embeds(toHost', toHost, 0) /\ 0 \notin DOMAIN toHost'
         /\ toHost' \in Seq(Frames) /\ R = toHost[1] /\ 1 \in DOMAIN toHost /\ R \in Frames
         /\ Len(toHost') <= Len(toHost) /\ Len(toHost') \in Nat /\ Len(toHost) \in Nat
         /\ \A i \in DOMAIN toHost' :
              i + 1 \in DOMAIN toHost /\ toHost'[i] = toHost[i + 1] /\ i \in Nat
  <1>1. toHost \in Seq(Frames) BY DEF TalkTypes, FrameTypes
  <1>2. /\ Embeds(Tail(toHost), toHost, 0) /\ 0 \notin DOMAIN Tail(toHost)
        /\ Tail(toHost) \in Seq(Frames) /\ Head(toHost) = toHost[1] /\ 1 \in DOMAIN toHost
        /\ \A i \in DOMAIN Tail(toHost) :
             i + 1 \in DOMAIN toHost /\ Tail(toHost)[i] = toHost[i + 1] /\ i \in Nat
    BY <1>1, TailEmbeds
  <1>3. toHost[1] \in Frames BY <1>1, <1>2, ElementOfSeq, LenProperties
  <1>4. Len(Tail(toHost)) = Len(toHost) - 1 /\ Len(toHost) \in Nat /\ Len(Tail(toHost)) \in Nat
    BY <1>1, <1>2, HeadTailProperties, LenProperties
  <1> QED BY <1>2, <1>3, <1>4 DEF R

LEMMA UnreadFacts ==
  ASSUME TalkTypes, toHost' = toHost
  PROVE  Embeds(toHost', toHost, 0) /\ 0 \notin DOMAIN toHost' /\ toHost' \in Seq(Frames)
  <1>1. toHost \in Seq(Frames) BY DEF TalkTypes, FrameTypes
  <1>2. Embeds(toHost, toHost, 0) /\ 0 \notin DOMAIN toHost BY <1>1, SameEmbeds
  <1> QED BY <1>1, <1>2

\* A frame is posted, or not; there may be room for it or not.
LEMMA PostFacts ==
  ASSUME WindowTypes, NEW f \in Frames, Post(f) \/ toHost' = toHost
  PROVE  /\ toHost' \in Seq(Frames) /\ Len(toHost') <= QueueLimit
         /\ ~Alive => toHost' = toHost
         /\ \E k \in Nat : /\ Embeds(toHost', toHost, k)
                           /\ k \in DOMAIN toHost' => toHost'[k] = f
  <1>1. toHost \in Seq(Frames) /\ TalkTypes BY DEF WindowTypes, TalkTypes, FrameTypes
  <1>2. CASE Post(f) /\ CanPost
    <2>1. toHost' = Append(toHost, f) BY <1>2 DEF Post
    <2>2. /\ Embeds(Append(toHost, f), toHost, Len(toHost) + 1)
          /\ Append(toHost, f) \in Seq(Frames) /\ Append(toHost, f)[Len(toHost) + 1] = f
          /\ Len(toHost) \in Nat /\ Len(Append(toHost, f)) = Len(toHost) + 1
      BY <1>1, AppendEmbeds
    <2>3. Len(toHost) < QueueLimit /\ QueueLimit \in Nat /\ Alive
      BY <1>2, WindowAssumption DEF CanPost, Alive
    <2>4. Len(toHost') <= QueueLimit BY <2>1, <2>2, <2>3
    <2>5. Len(toHost) + 1 \in Nat BY <2>2
    <2> QED BY <2>1, <2>2, <2>3, <2>4, <2>5
  <1>3. CASE toHost' = toHost
    <2>1. Embeds(toHost', toHost, 0) /\ 0 \notin DOMAIN toHost' BY <1>1, <1>3, UnreadFacts
    <2> QED BY <1>1, <1>3, <2>1 DEF WindowTypes
  <1>4. Post(f) /\ ~CanPost => toHost' = toHost BY DEF Post
  <1> QED BY <1>2, <1>3, <1>4
-----------------------------------------------------------------------------
(* The types.                                                              *)

LEMMA Shape ==
  ASSUME WindowTypes
  PROVE  /\ TalkTypes /\ drawn \subseteq Turns /\ session \in Nat /\ pane \in Panes
         /\ host \in Hosts /\ call \in Calls /\ approval \in [Approvals -> CardStates]
         /\ slot \in Turns \cup {NoTurn} /\ snapshot \in Snapshots
         /\ phase \in [Turns -> Life!Phases] /\ report \in [Turns -> Life!Reports]
         /\ FrameTypes(toHost, drawn) /\ MessageTypes(toUi, session, drawn)
  BY DEF WindowTypes, UiTypes, ChatTypes, Life!TypeOK, TalkTypes

LEMMA MessageIs ==
  ASSUME session \in Nat, NEW k \in Kinds, NEW t \in Turns \cup {NoTurn}, NEW n \in 0..MaxCalls,
         NEW s \in ToolStatuses
  PROVE  /\ Message(k, t, n, s) \in Messages
         /\ Message(k, t, n, s).session = session /\ Message(k, t, n, s).kind = k
         /\ Message(k, t, n, s).turn = t /\ Message(k, t, n, s).call = n
         /\ Message(k, t, n, s).status = s
  <1>1. Message(k, t, n, s) =
          [session |-> session, kind |-> k, turn |-> t, call |-> n, status |-> s]
    BY DEF Message
  <1>2. Message(k, t, n, s) \in Messages BY <1>1 DEF Messages
  <1> QED BY <1>1, <1>2

LEMMA TurnedIs ==
  ASSUME NEW f \in Frames, NEW t \in Turns
  PROVE  /\ [f EXCEPT !.turn = t] \in Frames /\ [f EXCEPT !.turn = t].method = f.method
         /\ [f EXCEPT !.turn = t].turn = t /\ [f EXCEPT !.turn = t].allow = f.allow
  BY DEF Frames

LEMMA CalledIs ==
  ASSUME NEW f \in Frames, NEW n \in 0..MaxCalls
  PROVE  /\ [f EXCEPT !.call = n] \in Frames /\ [f EXCEPT !.call = n].method = f.method
         /\ [f EXCEPT !.call = n].turn = f.turn /\ [f EXCEPT !.call = n].call = n
         /\ [f EXCEPT !.call = n].allow = f.allow
  BY DEF Frames

LEMMA AllowedIs ==
  ASSUME NEW f \in Frames
  PROVE  /\ [f EXCEPT !.allow = TRUE] \in Frames /\ [f EXCEPT !.allow = TRUE].method = f.method
         /\ [f EXCEPT !.allow = TRUE].turn = f.turn /\ [f EXCEPT !.allow = TRUE].call = f.call
         /\ [f EXCEPT !.allow = TRUE].allow = TRUE
  BY DEF Frames

LEMMA GenerationIs ==
  ASSUME NEW f \in Frames, NEW g \in Nat
  PROVE  /\ [f EXCEPT !.generation = g] \in Frames
         /\ [f EXCEPT !.generation = g].method = f.method
         /\ [f EXCEPT !.generation = g].generation = g
  BY DEF Frames

LEMMA ProjectIs ==
  ASSUME NEW f \in Frames, NEW p \in Projects
  PROVE  /\ [f EXCEPT !.project = p] \in Frames
         /\ [f EXCEPT !.project = p].method = f.method
         /\ [f EXCEPT !.project = p].generation = f.generation
  BY DEF Frames

LEMMA RequestIs ==
  ASSUME NEW m \in Methods
  PROVE  /\ Request(m) \in Frames /\ Request(m).method = m /\ Request(m).turn = NoTurn
         /\ Request(m).allow = FALSE
  <1>1. 0 \in 0..MaxCalls BY WindowAssumption
  <1>2. Request(m) = [method |-> m, turn |-> NoTurn, call |-> 0, allow |-> FALSE,
                      generation |-> 0, project |-> "none"]
    BY DEF Request
  <1>3. Request(m) \in Frames BY <1>1, <1>2 DEF Frames
  <1> QED BY <1>2, <1>3

LEMMA TurnRequestIs ==
  ASSUME NEW m \in Methods, NEW t \in Turns
  PROVE  /\ [Request(m) EXCEPT !.turn = t] \in Frames
         /\ [Request(m) EXCEPT !.turn = t].method = m
         /\ [Request(m) EXCEPT !.turn = t].turn = t
         /\ [Request(m) EXCEPT !.turn = t].allow = FALSE
  <1> DEFINE f == Request(m)
  <1>1. f \in Frames /\ f.method = m /\ f.allow = FALSE BY RequestIs
  <1> HIDE DEF f
  <1>2. /\ [f EXCEPT !.turn = t] \in Frames /\ [f EXCEPT !.turn = t].method = m
        /\ [f EXCEPT !.turn = t].turn = t /\ [f EXCEPT !.turn = t].allow = FALSE
    BY <1>1, TurnedIs
  <1> QED BY <1>2 DEF f

LEMMA InitializeIs ==
  ASSUME NEW g \in Nat, NEW p \in Projects
  PROVE  LET f == [Request("initialize") EXCEPT !.generation = g, !.project = p]
         IN  f \in Frames /\ f.method = "initialize" /\ f.generation = g
  <1> DEFINE d == Request("initialize")
             e == [d EXCEPT !.generation = g]
             f == [d EXCEPT !.generation = g, !.project = p]
  <1>1. d \in Frames /\ d.method = "initialize"
    <2>1. "initialize" \in Methods BY DEF Methods
    <2> QED BY <2>1, RequestIs
  <1>2. f = [e EXCEPT !.project = p] OBVIOUS
  <1> HIDE DEF d
  <1>3. e \in Frames /\ e.method = "initialize" /\ e.generation = g BY <1>1, GenerationIs
  <1> HIDE DEF e, f
  <1>4. f \in Frames /\ f.method = "initialize" /\ f.generation = g
    BY <1>2, <1>3, ProjectIs
  <1> QED BY <1>4 DEF d, f

\* f answers the prompt of call n of turn t.
Decision(f, t, n, b) ==
  f \in Frames /\ f.method = "respond" /\ f.turn = t /\ f.call = n /\ f.allow = b

LEMMA RespondIs ==
  ASSUME NEW t \in Turns, NEW n \in 1..MaxCalls
  PROVE  Decision([Request("respond") EXCEPT !.turn = t, !.call = n], t, n, FALSE)
  <1> DEFINE d == Request("respond")
             e == [d EXCEPT !.turn = t]
             f == [d EXCEPT !.turn = t, !.call = n]
  <1>1. d \in Frames /\ d.method = "respond" /\ d.allow = FALSE
    <2>1. "respond" \in Methods BY DEF Methods
    <2> QED BY <2>1, RequestIs
  <1>2. f = [e EXCEPT !.call = n] OBVIOUS
  <1>3. n \in 0..MaxCalls BY WindowAssumption
  <1> HIDE DEF d
  <1>4. e \in Frames /\ e.method = "respond" /\ e.turn = t /\ e.allow = FALSE BY <1>1, TurnedIs
  <1> HIDE DEF e, f
  <1>5. f \in Frames /\ f.method = "respond" /\ f.turn = t /\ f.call = n /\ f.allow = FALSE
    BY <1>2, <1>3, <1>4, CalledIs
  <1>6. Decision(f, t, n, FALSE) BY <1>5 DEF Decision
  <1> QED BY <1>6 DEF d, f

LEMMA AllowIs ==
  ASSUME NEW t \in Turns, NEW n \in 1..MaxCalls
  PROVE  Decision([Request("respond") EXCEPT !.turn = t, !.call = n, !.allow = TRUE],
                  t, n, TRUE)
  <1> DEFINE d == Request("respond")
             e == [d EXCEPT !.turn = t]
             c == [e EXCEPT !.call = n]
             f == [d EXCEPT !.turn = t, !.call = n, !.allow = TRUE]
  <1>1. d \in Frames /\ d.method = "respond"
    <2>1. "respond" \in Methods BY DEF Methods
    <2> QED BY <2>1, RequestIs
  <1>2. f = [c EXCEPT !.allow = TRUE] OBVIOUS
  <1>3. n \in 0..MaxCalls BY WindowAssumption
  <1> HIDE DEF d
  <1>4. e \in Frames /\ e.method = "respond" /\ e.turn = t BY <1>1, TurnedIs
  <1> HIDE DEF e, f
  <1>5. c \in Frames /\ c.method = "respond" /\ c.turn = t /\ c.call = n
    BY <1>3, <1>4, CalledIs
  <1> HIDE DEF c
  <1>6. f \in Frames /\ f.method = "respond" /\ f.turn = t /\ f.call = n /\ f.allow = TRUE
    BY <1>2, <1>5, AllowedIs
  <1>7. Decision(f, t, n, TRUE) BY <1>6 DEF Decision
  <1> QED BY <1>7 DEF d, f
-----------------------------------------------------------------------------
(* Types and the process, one lemma per kind of step.                      *)

\* What is sent next is of a turn that was drawn, and of a call if it has one.
GoodFrame(f, d) ==
  /\ f.method \in {"sendTurn", "respond"} => f.turn \in d
  /\ f.method = "respond" => f.call # 0
GoodMessage(m, s, d) ==
  /\ m.session <= s
  /\ m.kind \notin BareKinds => m.turn \in d
  /\ m.kind \in ToolKinds => m.call # 0

LEMMA TalkStays ==
  ASSUME WindowTypes, session' \in Nat, session <= session', drawn \subseteq drawn',
         NEW k, NEW l, Embeds(toHost', toHost, k), Embeds(toUi', toUi, l),
         toHost' \in Seq(Frames), toUi' \in Seq(Messages),
         k \in DOMAIN toHost' => GoodFrame(toHost'[k], drawn'),
         l \in DOMAIN toUi' => GoodMessage(toUi'[l], session', drawn')
  PROVE  TalkTypes'
  <1>1. FrameTypes(toHost, drawn) /\ MessageTypes(toUi, session, drawn) /\ session \in Nat
    BY Shape
  <1>2. FrameTypes(toHost', drawn') BY <1>1, FrameTypesEmbed DEF GoodFrame
  <1>3. MessageTypes(toUi', session', drawn') BY <1>1, MessageTypesEmbed DEF GoodMessage
  <1> QED BY <1>2, <1>3 DEF TalkTypes

\* A message is taken from the queue, or not.
LEMMA TakeFacts ==
  ASSUME TalkTypes, toUi' = toUi \/ (toUi # << >> /\ toUi' = Tail(toUi))
  PROVE  Embeds(toUi', toUi, 0) /\ 0 \notin DOMAIN toUi' /\ toUi' \in Seq(Messages)
  <1>1. CASE toUi' = toUi
    <2>1. toUi \in Seq(Messages) BY DEF TalkTypes, MessageTypes
    <2> QED BY <1>1, <2>1, UnsaidFacts
  <1>2. CASE toUi # << >> /\ toUi' = Tail(toUi) BY <1>2, PopFacts
  <1> QED BY <1>1, <1>2

LEMMA WindowSteps ==
  ASSUME WindowTypes, HostInv, UNCHANGED <<snapshot, session, bridge, hostVars>>,
         events' \in 0..MaxEvents, at' \in {"idle", "join", "closed"},
         after'.why \in {"none", "retry", "context", "close"},
         after'.seen \in Snapshots \cup {NoSnapshot},
         after'.why = "context" => after'.seen \in Snapshots,
         pane' \in Panes, approval' \in [Approvals -> CardStates], gate' \in BOOLEAN,
         drawn \subseteq drawn', drawn' \subseteq Turns,
         toUi' = toUi \/ (toUi # << >> /\ toUi' = Tail(toUi)),
         NEW f \in Frames, Post(f) \/ toHost' = toHost, GoodFrame(f, drawn')
  PROVE  WindowTypes' /\ HostInv'
  <1>1. TalkTypes /\ session \in Nat BY Shape
  <1>2. Embeds(toUi', toUi, 0) /\ 0 \notin DOMAIN toUi' /\ toUi' \in Seq(Messages)
    BY <1>1, TakeFacts
  <1>3. PICK k \in Nat : Embeds(toHost', toHost, k) /\ (k \in DOMAIN toHost' => toHost'[k] = f)
    BY PostFacts
  <1>4. toHost' \in Seq(Frames) /\ Len(toHost') <= QueueLimit /\ (~Alive => toHost' = toHost)
    BY PostFacts
  <1>5. session' \in Nat /\ session <= session' BY <1>1
  <1>6. TalkTypes' BY <1>2, <1>3, <1>4, <1>5, TalkStays
  <1>7. UiTypes' BY <1>1 DEF UiTypes
  <1>8. ChatTypes' BY DEF WindowTypes, ChatTypes, Life!TypeOK, Life!Phases, Life!Reports,
                          Life!Statuses, hostVars
  <1>9. WindowTypes' BY <1>4, <1>6, <1>7, <1>8 DEF WindowTypes
  <1>10. HostInv' BY <1>4 DEF HostInv, Alive, hostVars
  <1> QED BY <1>9, <1>10

LEMMA ChatSteps ==
  ASSUME WindowTypes, Beyond, ChatTypes', bridge' \in {"starting", "open", "late", "failed", "stopped"},
         NEW k, Embeds(toHost', toHost, k), toHost' \in Seq(Frames), k \notin DOMAIN toHost',
         Len(toHost') <= QueueLimit,
         NEW l, Embeds(toUi', toUi, l), toUi' \in Seq(Messages),
         l \in DOMAIN toUi' => GoodMessage(toUi'[l], session, drawn)
  PROVE  WindowTypes'
  <1>1. session \in Nat BY Shape
  <1>2. UNCHANGED <<snapshot, events, at, after, session, pane, drawn, approval, gate>>
    BY DEF Beyond, paneVars
  <1>3. session' \in Nat /\ session <= session' /\ drawn \subseteq drawn' BY <1>1, <1>2
  <1>4. TalkTypes' BY <1>2, <1>3, TalkStays
  <1>5. UiTypes' BY <1>2 DEF WindowTypes, UiTypes
  <1> QED BY <1>2, <1>4, <1>5 DEF WindowTypes

LEMMA CanPostAlive ==
  CanPost => Alive
  BY DEF CanPost, Alive

LEMMA RequestGood ==
  ASSUME NEW f \in Frames, f.method \notin {"sendTurn", "respond"}, NEW d
  PROVE  GoodFrame(f, d)
  BY DEF GoodFrame
-----------------------------------------------------------------------------
(* Types and the process: the window.                                      *)

LEMMA PaneIs ==
  ASSUME NEW p \in Panes
  PROVE  /\ p.connected \in BOOLEAN /\ p.initialized \in BOOLEAN /\ p.initializing \in BOOLEAN
         /\ p.mcpReady \in BOOLEAN /\ p.generation \in Nat /\ p.project \in Projects
         /\ p.turn \in Turns \cup {NoTurn} /\ p.cancelRequested \in BOOLEAN
         /\ p.stopButton \in BOOLEAN
  BY DEF Panes

LEMMA TryFacts ==
  ASSUME NEW u \in Panes, snapshot \in Snapshots, TryInitialize(u)
  PROVE  /\ pane' \in Panes /\ pane'.turn = u.turn
         /\ \E f \in Frames : f.method = "initialize" /\ (Post(f) \/ toHost' = toHost)
         /\ \/ /\ pane'.initialized = u.initialized /\ pane'.initializing = u.initializing
               /\ pane'.generation = u.generation /\ toHost' = toHost
            \/ /\ ~u.initialized /\ ~u.initializing
               /\ ~pane'.initialized /\ pane'.initializing = CanPost
               /\ \E f \in Frames : /\ Post(f) /\ f.method = "initialize"
                                    /\ f.generation = pane'.generation
  <1>1. snapshot.generation \in Nat BY DEF Snapshots
  <1>2. CanPost \in BOOLEAN BY DEF CanPost
  <1>3. u.project \in Projects BY PaneIs
  <1> DEFINE g == snapshot.generation
             f == [Request("initialize") EXCEPT !.generation = g, !.project = u.project]
             v == [u EXCEPT !.generation = g, !.initializing = CanPost]
  <1>4. f \in Frames /\ f.method = "initialize" /\ f.generation = g
    BY <1>1, <1>3, InitializeIs
  <1>5. /\ v \in Panes /\ v.turn = u.turn /\ v.initialized = u.initialized
        /\ v.initializing = CanPost /\ v.generation = g
    BY <1>1, <1>2 DEF Panes
  <1>6. \/ pane' = u /\ toHost' = toHost
        \/ ~u.initialized /\ ~u.initializing /\ pane' = v /\ Post(f)
    BY DEF TryInitialize
  <1> HIDE DEF f, v, g
  <1>7. CASE pane' = u /\ toHost' = toHost BY <1>4, <1>7
  <1>8. CASE ~u.initialized /\ ~u.initializing /\ pane' = v /\ Post(f) BY <1>4, <1>5, <1>8
  <1> QED BY <1>6, <1>7, <1>8

LEMMA ConnectedIs ==
  ASSUME NEW p \in Panes
  PROVE  /\ [p EXCEPT !.connected = TRUE] \in Panes
         /\ [p EXCEPT !.connected = TRUE].turn = p.turn
         /\ [p EXCEPT !.connected = TRUE].initialized = p.initialized
         /\ [p EXCEPT !.connected = TRUE].initializing = p.initializing
         /\ [p EXCEPT !.connected = TRUE].generation = p.generation
  BY DEF Panes

LEMMA RefreshedIs ==
  ASSUME NEW p \in Panes, NEW b \in BOOLEAN, NEW c \in Projects
  PROVE  LET u == [p EXCEPT !.mcpReady = b, !.project = c]
         IN  /\ u \in Panes /\ u.turn = p.turn /\ u.initialized = p.initialized
             /\ u.initializing = p.initializing /\ u.generation = p.generation
  BY DEF Panes

LEMMA AnsweredIs ==
  ASSUME NEW p \in Panes, NEW b \in BOOLEAN
  PROVE  LET u == [p EXCEPT !.initializing = FALSE, !.initialized = b]
         IN  /\ u \in Panes /\ u.turn = p.turn /\ u.initialized = b
             /\ u.initializing = FALSE /\ u.generation = p.generation
  BY DEF Panes

LEMMA FinishedIs ==
  ASSUME NEW p \in Panes
  PROVE  /\ Finished(p) \in Panes /\ Finished(p).turn = p.turn
         /\ Finished(p).initialized = p.initialized
         /\ Finished(p).initializing = p.initializing /\ Finished(p).generation = p.generation
  BY DEF Panes, Finished

LEMMA OverIs ==
  ASSUME NEW p \in Panes
  PROVE  LET u == [p EXCEPT !.turn = NoTurn, !.stopButton = FALSE]
         IN  /\ u \in Panes /\ u.turn = NoTurn /\ u.initialized = p.initialized
             /\ u.initializing = p.initializing /\ u.generation = p.generation
  BY DEF Panes

LEMMA DownIs ==
  ASSUME NEW p \in Panes
  PROVE  LET u == [p EXCEPT !.connected = FALSE, !.initializing = FALSE,
                            !.initialized = FALSE, !.turn = NoTurn, !.stopButton = FALSE]
         IN  u \in Panes /\ u.turn = NoTurn
  BY DEF Panes

LEMMA StartedIs ==
  ASSUME NEW p \in Panes, NEW t \in Turns
  PROVE  LET u == [p EXCEPT !.turn = t, !.cancelRequested = FALSE, !.stopButton = TRUE]
         IN  /\ u \in Panes /\ u.turn = t /\ u.initialized = p.initialized
             /\ u.initializing = p.initializing /\ u.generation = p.generation
  BY DEF Panes

LEMMA StoppingIs ==
  ASSUME NEW p \in Panes, NEW b \in BOOLEAN
  PROVE  LET u == [p EXCEPT !.cancelRequested = TRUE, !.stopButton = b]
         IN  /\ u \in Panes /\ u.turn = p.turn /\ u.initialized = p.initialized
             /\ u.initializing = p.initializing /\ u.generation = p.generation
  BY DEF Panes

LEMMA NewUiIs ==
  ASSUME NEW s \in Snapshots
  PROVE  NewUi(s) \in Panes /\ NewUi(s).turn = NoTurn /\ ~NewUi(s).initialized
  <1>1. s.running \in BOOLEAN /\ s.project \in Projects BY DEF Snapshots
  <1> QED BY <1>1 DEF NewUi, Panes

LEMMA NoApprovalsIs == NoApprovals \in [Approvals -> CardStates]
  BY DEF NoApprovals, CardStates

LEMMA HandlerIs ==
  ASSUME WindowTypes, Handler
  PROVE  /\ UNCHANGED <<snapshot, session, bridge, hostVars, events, at, after, drawn>>
         /\ events' \in 0..MaxEvents /\ at' \in {"idle", "join", "closed"}
         /\ after'.why \in {"none", "retry", "context", "close"}
         /\ after'.seen \in Snapshots \cup {NoSnapshot}
         /\ after'.why = "context" => after'.seen \in Snapshots
         /\ drawn \subseteq drawn' /\ drawn' \subseteq Turns
  <1>1. UNCHANGED <<snapshot, session, bridge, hostVars, events, at, after, drawn>>
    BY DEF Handler
  <1> QED BY <1>1 DEF WindowTypes, UiTypes

LEMMA HandlerSteps ==
  ASSUME WindowTypes, HostInv, Handler, pane' \in Panes, approval' \in [Approvals -> CardStates],
         gate' \in BOOLEAN, toUi' = toUi \/ (toUi # << >> /\ toUi' = Tail(toUi)),
         NEW f \in Frames, Post(f) \/ toHost' = toHost, GoodFrame(f, drawn)
  PROVE  WindowTypes' /\ HostInv'
  <1>1. drawn' = drawn BY HandlerIs
  <1> QED BY <1>1, HandlerIs, WindowSteps

LEMMA ReceivesIs ==
  ASSUME NEW c, Receives(c)
  PROVE  /\ at = "idle" /\ toUi # << >> /\ toUi' = Tail(toUi) /\ Handler
         /\ M.kind = c /\ M.session = session
  BY DEF Receives

\* A frame that stands for "nothing was posted".
LEMMA SomeFrame ==
  ASSUME NEW d
  PROVE  \E f \in Frames : GoodFrame(f, d) /\ f.method = "shutdown"
  <1>1. "shutdown" \in Methods BY DEF Methods
  <1>2. Request("shutdown") \in Frames /\ Request("shutdown").method = "shutdown"
    BY <1>1, RequestIs
  <1> QED BY <1>2, RequestGood

LEMMA QuietSteps ==
  ASSUME WindowTypes, HostInv, Handler, pane' \in Panes, approval' \in [Approvals -> CardStates],
         gate' \in BOOLEAN, toUi' = toUi \/ (toUi # << >> /\ toUi' = Tail(toUi)), toHost' = toHost
  PROVE  WindowTypes' /\ HostInv'
  <1>1. PICK f \in Frames : GoodFrame(f, drawn) BY SomeFrame
  <1> QED BY <1>1, HandlerSteps

LEMMA UiIs ==
  ASSUME WindowTypes
  PROVE  pane \in Panes /\ approval \in [Approvals -> CardStates] /\ gate \in BOOLEAN
  BY DEF WindowTypes, UiTypes

LEMMA HandlesTypes ==
  ASSUME WindowTypes, HostInv, UiHandles
  PROVE  WindowTypes' /\ HostInv'
  <1>1. pane \in Panes /\ approval \in [Approvals -> CardStates] /\ gate \in BOOLEAN BY UiIs
  <1>2. snapshot \in Snapshots /\ TalkTypes BY Shape
  <1>3. CASE SinkDrops BY <1>1, <1>3, QuietSteps DEF SinkDrops
  <1>4. CASE HandleConnected
    <2> DEFINE u == [pane EXCEPT !.connected = TRUE]
    <2>1. u \in Panes BY <1>1, ConnectedIs
    <2>2. /\ TryInitialize(u) /\ Receives("Connected") /\ approval' = approval /\ gate' = gate
      BY <1>4 DEF HandleConnected
    <2> HIDE DEF u
    <2>3. pane' \in Panes BY <1>2, <2>1, <2>2, TryFacts
    <2>4. PICK f \in Frames : f.method = "initialize" /\ (Post(f) \/ toHost' = toHost)
      BY <1>2, <2>1, <2>2, TryFacts
    <2>5. GoodFrame(f, drawn) BY <2>4, RequestGood
    <2> QED BY <1>1, <2>2, <2>3, <2>4, <2>5, ReceivesIs, HandlerSteps
  <1>5. CASE HandleDown
    <2>1. /\ Handler /\ toUi # << >> /\ toUi' = Tail(toUi) /\ toHost' = toHost
          /\ gate' = FALSE /\ approval' = NoApprovals
      BY <1>5, ReceivesIs DEF HandleDown, FinishTurnUi
    <2>2. pane' \in Panes BY <1>1, <1>5, FinishedIs, DownIs DEF HandleDown
    <2> QED BY <2>1, <2>2, NoApprovalsIs, QuietSteps
  <1>6. CASE HandleInitialized
    <2>1. pane' \in Panes BY <1>1, <1>6, AnsweredIs DEF HandleInitialized
    <2> QED BY <1>1, <1>6, <2>1, ReceivesIs, QuietSteps DEF HandleInitialized
  <1>7. CASE HandleInitializeError
    <2>1. pane' \in Panes BY <1>1, <1>7, AnsweredIs DEF HandleInitializeError
    <2> QED BY <1>1, <1>7, <2>1, ReceivesIs, QuietSteps DEF HandleInitializeError
  <1>8. CASE HandleTurnOk BY <1>1, <1>8, ReceivesIs, QuietSteps DEF HandleTurnOk
  <1>9. TurnOver => pane' \in Panes /\ gate' = FALSE /\ approval' \in [Approvals -> CardStates]
    BY <1>1, FinishedIs, OverIs, NoApprovalsIs DEF TurnOver, FinishTurnUi
  <1>10. CASE HandleTurnError
    BY <1>1, <1>9, <1>10, ReceivesIs, QuietSteps DEF HandleTurnError
  <1>11. CASE HandleEnd
    <2>1. Handler /\ toUi # << >> /\ toUi' = Tail(toUi) /\ toHost' = toHost
      BY <1>11, ReceivesIs DEF HandleEnd
    <2>2. pane' \in Panes /\ gate' \in BOOLEAN /\ approval' \in [Approvals -> CardStates]
      BY <1>1, <1>9, <1>11 DEF HandleEnd
    <2> QED BY <2>1, <2>2, QuietSteps
  <1>12. CASE HandleApprovalRequired
    <2>1. /\ Receives("approvalRequired") /\ Handler /\ toUi # << >> /\ toUi' = Tail(toUi)
          /\ pane' = pane /\ gate' = gate /\ M.kind = "approvalRequired" /\ M.session = session
      BY <1>12, ReceivesIs DEF HandleApprovalRequired
    <2>2. approval' \in [Approvals -> CardStates]
      BY <1>1, <1>12 DEF HandleApprovalRequired, CardStates
    <2>3. M = toUi[1] /\ 1 \in DOMAIN toUi BY <1>2, <2>1, PopFacts
    <2>4. M.turn \in drawn /\ M.turn \in Turns /\ M.call \in 1 .. MaxCalls
      <3>1. MessageTypes(toUi, session, drawn) /\ drawn \subseteq Turns BY Shape
      <3>2. IsTool(toUi[1], session) /\ toUi[1].kind \notin BareKinds
        BY <2>1, <2>3 DEF IsTool, ToolKinds, BareKinds
      <3>3. M.turn \in Turns /\ M.call \in 1 .. MaxCalls
        BY <2>3, <3>1, <3>2, TurnOfMessage
      <3>4. M.turn \in drawn BY <2>3, <3>1, <3>2 DEF MessageTypes
      <3> QED BY <3>3, <3>4
    <2> DEFINE t == M.turn
               n == M.call
               f == [Request("respond") EXCEPT !.turn = t, !.call = n]
    <2>5. f \in Frames /\ f.turn = t /\ f.call = n
      <3>1. t \in Turns /\ n \in 1 .. MaxCalls BY <2>4
      <3> HIDE DEF t, n
      <3>2. Decision(f, t, n, FALSE) BY <3>1, RespondIs
      <3> HIDE DEF f
      <3> QED BY <3>2 DEF Decision
    <2>6. Post(f) \/ toHost' = toHost BY <1>12 DEF HandleApprovalRequired
    <2> HIDE DEF f
    <2>7. GoodFrame(f, drawn) BY <2>4, <2>5 DEF GoodFrame
    <2> QED BY <1>1, <2>1, <2>2, <2>5, <2>6, <2>7, HandlerSteps
  <1>13. CASE HandleToolStarted
    <2>1. approval' \in [Approvals -> CardStates]
      BY <1>1, <1>13 DEF HandleToolStarted, CardStates
    <2> QED BY <1>1, <1>13, <2>1, ReceivesIs, QuietSteps DEF HandleToolStarted
  <1>14. CASE HandleToolCompleted
    <2>1. approval' \in [Approvals -> CardStates]
      BY <1>1, <1>14 DEF HandleToolCompleted, CardStates
    <2> QED BY <1>1, <1>14, <2>1, ReceivesIs, QuietSteps DEF HandleToolCompleted
  <1> QED BY <1>3, <1>4, <1>5, <1>6, <1>7, <1>8, <1>10, <1>11, <1>12, <1>13, <1>14 DEF UiHandles

\* StopAssistant may be called from a click, from the close and from a new context.
LEMMA StopTypes ==
  ASSUME WindowTypes, HostInv, NEW why \in {"retry", "context", "close"}, BeginStop(why),
         events' \in 0..MaxEvents
  PROVE  WindowTypes' /\ HostInv' /\ at' = "join" /\ approval' = NoApprovals
  <1>1. pane \in Panes /\ approval \in [Approvals -> CardStates] /\ gate \in BOOLEAN BY UiIs
  <1>2. snapshot \in Snapshots /\ TalkTypes /\ drawn \subseteq Turns BY Shape
  <1>3. /\ gate' = FALSE /\ approval' = NoApprovals /\ pane' = Finished(pane)
        /\ Post(Request("shutdown")) \/ toHost' = toHost
        /\ at' = "join"
        /\ after' = [why |-> why, seen |-> IF why = "context" THEN snapshot ELSE NoSnapshot]
        /\ UNCHANGED <<snapshot, session, drawn, bridge, toUi, hostVars>>
    BY DEF BeginStop, FinishTurnUi
  <1>4. pane' \in Panes BY <1>1, <1>3, FinishedIs
  <1>5. /\ after'.why \in {"none", "retry", "context", "close"}
        /\ after'.seen \in Snapshots \cup {NoSnapshot}
        /\ after'.why = "context" => after'.seen \in Snapshots
    BY <1>2, <1>3
  <1> DEFINE f == Request("shutdown")
  <1>6. f \in Frames /\ f.method = "shutdown"
    <2>1. "shutdown" \in Methods BY DEF Methods
    <2> QED BY <2>1, RequestIs
  <1>7. Post(f) \/ toHost' = toHost BY <1>3
  <1> HIDE DEF f
  <1>8. GoodFrame(f, drawn') BY <1>6, RequestGood
  <1>9. WindowTypes' /\ HostInv'
    BY <1>2, <1>3, <1>4, <1>5, <1>6, <1>7, <1>8, NoApprovalsIs, WindowSteps
  <1> QED BY <1>3, <1>9

LEMMA ContextTypes ==
  ASSUME WindowTypes, HostInv, UpdateAssistantContext
  PROVE  WindowTypes' /\ HostInv' /\ (at' = "join" => approval' = NoApprovals)
  <1>1. pane \in Panes /\ approval \in [Approvals -> CardStates] /\ gate \in BOOLEAN BY UiIs
  <1>2. snapshot \in Snapshots /\ events \in 0..MaxEvents BY DEF WindowTypes
  <1>3. CASE BeginStop("context") /\ UNCHANGED events
    <2>1. events' \in 0..MaxEvents BY <1>2, <1>3
    <2>2. "context" \in {"retry", "context", "close"} OBVIOUS
    <2> QED BY <1>3, <2>1, <2>2, StopTypes
  <1> DEFINE b == snapshot.running
             c == snapshot.project
             u == [pane EXCEPT !.mcpReady = b, !.project = c]
  <1>4. CASE TryInitialize(u) /\ UNCHANGED <<approval, gate, toUi>> /\ Handler
    <2>1. u \in Panes
      <3>1. b \in BOOLEAN /\ c \in Projects BY <1>2 DEF Snapshots
      <3> HIDE DEF b, c
      <3> QED BY <1>1, <3>1, RefreshedIs
    <2> HIDE DEF u
    <2>2. pane' \in Panes BY <1>2, <1>4, <2>1, TryFacts
    <2>3. PICK f \in Frames : f.method = "initialize" /\ (Post(f) \/ toHost' = toHost)
      BY <1>2, <1>4, <2>1, TryFacts
    <2>4. GoodFrame(f, drawn) BY <2>3, RequestGood
    <2>5. WindowTypes' /\ HostInv' BY <1>1, <1>4, <2>2, <2>3, <2>4, HandlerSteps
    <2>6. at' = at /\ at = "idle" BY <1>4 DEF Handler, UpdateAssistantContext
    <2> QED BY <2>5, <2>6
  <1> QED BY <1>3, <1>4 DEF UpdateAssistantContext

LEMMA ClicksTypes ==
  ASSUME WindowTypes, HostInv, GateInv, Clicks
  PROVE  WindowTypes' /\ HostInv' /\ (at' = "join" => approval' = NoApprovals)
  <1>1. pane \in Panes /\ approval \in [Approvals -> CardStates] /\ gate \in BOOLEAN BY UiIs
  <1>2. snapshot \in Snapshots /\ events \in 0..MaxEvents /\ TalkTypes /\ drawn \subseteq Turns
    BY Shape DEF WindowTypes
  <1>3. ASSUME NEW t \in Turns, SendTurn(t)
        PROVE  WindowTypes' /\ HostInv' /\ at' = "idle"
    <2>1. /\ at = "idle" /\ drawn' = drawn \cup {t} /\ gate' = TRUE
          /\ Post([Request("sendTurn") EXCEPT !.turn = t])
          /\ UNCHANGED <<snapshot, events, at, after, session, approval, bridge, toUi, hostVars>>
      BY <1>3 DEF SendTurn
    <2>2. pane' \in Panes BY <1>1, <1>3, StartedIs DEF SendTurn
    <2> DEFINE f == [Request("sendTurn") EXCEPT !.turn = t]
    <2>3. f \in Frames /\ f.method = "sendTurn" /\ f.turn = t
      <3>1. "sendTurn" \in Methods BY DEF Methods
      <3> QED BY <3>1, TurnRequestIs
    <2>4. Post(f) BY <2>1
    <2> HIDE DEF f
    <2>5. GoodFrame(f, drawn') BY <2>1, <2>3 DEF GoodFrame
    <2>6. /\ events' \in 0..MaxEvents /\ at' \in {"idle", "join", "closed"}
          /\ after'.why \in {"none", "retry", "context", "close"}
          /\ after'.seen \in Snapshots \cup {NoSnapshot}
          /\ after'.why = "context" => after'.seen \in Snapshots
      BY <1>2, <2>1 DEF WindowTypes, UiTypes
    <2>7. drawn \subseteq drawn' /\ drawn' \subseteq Turns BY <1>2, <2>1
    <2> QED BY <1>1, <2>1, <2>2, <2>3, <2>4, <2>5, <2>6, <2>7, WindowSteps
  <1>4. ASSUME NEW a \in Approvals, AllowClick(a) \/ DenyClick(a)
        PROVE  WindowTypes' /\ HostInv' /\ at' = "idle"
    <2>1. /\ at = "idle" /\ Handler /\ UNCHANGED <<pane, gate, toUi>> /\ pane.turn = a[1]
          /\ approval[a] = "pending" /\ at' = at
      BY <1>4 DEF AllowClick, DenyClick, Handler
    <2>2. approval' \in [Approvals -> CardStates]
      BY <1>1, <1>4 DEF AllowClick, DenyClick, CardStates
    <2> DEFINE t == a[1]
               n == a[2]
               f == [Request("respond") EXCEPT !.turn = t, !.call = n]
               g == [Request("respond") EXCEPT !.turn = t, !.call = n, !.allow = TRUE]
    <2>3. t \in Turns /\ n \in 1..MaxCalls BY DEF Approvals
    <2>4. Post(f) \/ Post(g) \/ toHost' = toHost BY <1>4 DEF AllowClick, DenyClick
    <2>5. f \in Frames /\ f.turn = t /\ f.call = n
      <3> HIDE DEF t, n
      <3>1. Decision(f, t, n, FALSE) BY <2>3, RespondIs
      <3> HIDE DEF f
      <3> QED BY <3>1 DEF Decision
    <2>6. g \in Frames /\ g.turn = t /\ g.call = n
      <3> HIDE DEF t, n
      <3>1. Decision(g, t, n, TRUE) BY <2>3, AllowIs
      <3> HIDE DEF g
      <3> QED BY <3>1 DEF Decision
    <2>7. t \in drawn
      <3>1. t # NoTurn BY <2>3, WindowAssumption
      <3> QED BY <2>1, <3>1 DEF GateInv
    <2> HIDE DEF f, g
    <2>8. GoodFrame(f, drawn) /\ GoodFrame(g, drawn)
      <3>1. n # 0 BY <2>3, WindowAssumption
      <3> HIDE DEF t, n
      <3> QED BY <2>5, <2>6, <2>7, <3>1 DEF GoodFrame
    <2>9. \E e \in Frames : (Post(e) \/ toHost' = toHost) /\ GoodFrame(e, drawn)
      BY <2>4, <2>5, <2>6, <2>8
    <2> HIDE DEF t, n
    <2>10. pane' = pane /\ gate' = gate /\ toUi' = toUi BY <2>1
    <2> QED BY <1>1, <2>1, <2>2, <2>9, <2>10, HandlerSteps
  <1>5. ASSUME StopClick PROVE WindowTypes' /\ HostInv' /\ at' = "idle"
    <2>1. /\ at = "idle" /\ Handler /\ gate' = gate /\ toUi' = toUi /\ at' = at
          /\ pane.turn \in Turns
      BY <1>1, <1>5, PaneIs DEF StopClick, Handler
    <2> DEFINE b == ~CanPost
               t == pane.turn
               f == [Request("cancelTurn") EXCEPT !.turn = t]
    <2>2. pane' = [pane EXCEPT !.cancelRequested = TRUE, !.stopButton = b] /\ Post(f)
      BY <1>5 DEF StopClick
    <2>3. approval' \in [Approvals -> CardStates]
      BY <1>1, <1>5 DEF StopClick, CardStates
    <2>4. b \in BOOLEAN BY DEF CanPost
    <2>5. f \in Frames /\ f.method = "cancelTurn"
      <3>1. "cancelTurn" \in Methods BY DEF Methods
      <3>2. t \in Turns BY <2>1
      <3> HIDE DEF t
      <3> QED BY <3>1, <3>2, TurnRequestIs
    <2> HIDE DEF b, f
    <2>6. pane' \in Panes BY <1>1, <2>2, <2>4, StoppingIs
    <2>7. GoodFrame(f, drawn) BY <2>5, RequestGood
    <2> QED BY <1>1, <2>1, <2>2, <2>3, <2>5, <2>6, <2>7, HandlerSteps
  <1>6. ASSUME RetryClick PROVE WindowTypes' /\ HostInv' /\ approval' = NoApprovals
    <2>1. BeginStop("retry") /\ events' = events + 1 /\ events < MaxEvents BY <1>6 DEF RetryClick
    <2>2. events' \in 0..MaxEvents BY <1>2, <2>1, WindowAssumption
    <2>3. "retry" \in {"retry", "context", "close"} OBVIOUS
    <2> QED BY <2>1, <2>2, <2>3, StopTypes
  <1>7. ASSUME CloseWindow PROVE WindowTypes' /\ HostInv' /\ approval' = NoApprovals
    <2>1. BeginStop("close") /\ events' \in 0..MaxEvents BY <1>2, <1>7 DEF CloseWindow
    <2>2. "close" \in {"retry", "context", "close"} OBVIOUS
    <2> QED BY <2>1, <2>2, StopTypes
  <1> QED BY <1>3, <1>4, <1>5, <1>6, <1>7 DEF Clicks
-----------------------------------------------------------------------------
(* Types and the process: the bridge and ChatHost.                         *)

LEMMA HostsAre == NoHost \in Hosts /\ NewHost \in Hosts
  <1>1. NoHost \in Hosts BY DEF NoHost, Hosts
  <1>2. NewHost \in Hosts BY DEF NewHost, NoHost, Hosts
  <1> QED BY <1>1, <1>2

LEMMA NoCallIs == NoCall \in Calls /\ NoCall.at = "none" /\ NoCall.count = 0
  <1>1. 0 \in 0..MaxCalls BY WindowAssumption
  <1> QED BY <1>1 DEF NoCall, Calls

LEMMA BecomesIs ==
  ASSUME WindowTypes, NEW h \in Hosts, HostBecomes(h)
  PROVE  /\ ChatTypes' /\ host' = h /\ toHost' = << >> /\ slot' = NoTurn /\ call' = NoCall
         /\ report' = report
         /\ \A t \in Turns : phase'[t] = "idle" <=> phase[t] = "idle"
         /\ Embeds(toHost', toHost, 0) /\ 0 \notin DOMAIN toHost' /\ toHost' \in Seq(Frames)
         /\ Len(toHost') <= QueueLimit
  <1>1. /\ phase \in [Turns -> Life!Phases] /\ report \in [Turns -> Life!Reports] BY Shape
  <1>2. /\ host' = h /\ slot' = NoTurn /\ cancelled' = FALSE /\ call' = NoCall
        /\ toHost' = << >> /\ report' = report
        /\ phase' = [t \in Turns |-> IF phase[t] \in {"reserved", "running"} THEN "ended"
                                     ELSE phase[t]]
    BY DEF HostBecomes
  <1>3. phase' \in [Turns -> Life!Phases]
    <2>1. "ended" \in Life!Phases BY DEF Life!Phases
    <2> QED BY <1>1, <1>2, <2>1
  <1>4. \A t \in Turns : phase'[t] = "idle" <=> phase[t] = "idle" BY <1>2
  <1>5. Life!TypeOK' BY <1>1, <1>2, <1>3 DEF Life!TypeOK, Life!Phases, Life!Reports, Life!Statuses
  <1>6. ChatTypes' BY <1>2, <1>5, NoCallIs DEF ChatTypes
  <1>7. Embeds(toHost', toHost, 0) /\ 0 \notin DOMAIN toHost' BY <1>2, EmptyEmbeds
  <1>8. toHost' \in Seq(Frames) /\ Len(toHost') = 0 BY <1>2
  <1>9. Len(toHost') <= QueueLimit BY <1>8, WindowAssumption
  <1> QED BY <1>2, <1>4, <1>6, <1>7, <1>8, <1>9

LEMMA GoneInv ==
  ASSUME HostInv, slot' = NoTurn, call' = NoCall, toHost' = << >>, drawn' = drawn,
         \A t \in Turns : phase'[t] = "idle" <=> phase[t] = "idle"
  PROVE  HostInv'
  BY DEF HostInv

LEMMA BareIs ==
  ASSUME WindowTypes, NEW c \in BareKinds
  PROVE  /\ Message(c, NoTurn, 0, "") \in Messages
         /\ GoodMessage(Message(c, NoTurn, 0, ""), session, drawn)
         /\ Message(c, NoTurn, 0, "").kind = c /\ Message(c, NoTurn, 0, "").session = session
  <1>1. c \in Kinds /\ c \notin ToolKinds BY DEF BareKinds, Kinds, ToolKinds
  <1>2. session \in Nat BY Shape
  <1>3. 0 \in 0..MaxCalls /\ "" \in ToolStatuses BY WindowAssumption DEF ToolStatuses
  <1> DEFINE m == Message(c, NoTurn, 0, "")
  <1>4. m \in Messages /\ m.session = session /\ m.kind = c
    <2>1. NoTurn \in Turns \cup {NoTurn} OBVIOUS
    <2>2. m = [session |-> session, kind |-> c, turn |-> NoTurn, call |-> 0, status |-> ""]
      BY DEF Message
    <2> HIDE DEF m
    <2>3. m \in Messages BY <1>1, <1>2, <1>3, <2>1, <2>2 DEF Messages
    <2> QED BY <2>2, <2>3
  <1> HIDE DEF m
  <1>5. GoodMessage(m, session, drawn) BY <1>1, <1>2, <1>4 DEF GoodMessage
  <1> QED BY <1>4, <1>5 DEF m

LEMMA SnapshotTypes ==
  ASSUME WindowTypes, HostInv, SnapshotChanges
  PROVE  WindowTypes' /\ HostInv' /\ UNCHANGED <<paneVars, bridge, toHost, toUi, hostVars>>
  <1>1. UNCHANGED <<paneVars, bridge, toHost, toUi, hostVars>> BY DEF SnapshotChanges
  <1>2. snapshot \in Snapshots /\ events \in 0..MaxEvents BY DEF WindowTypes
  <1>3. events' \in 0..MaxEvents
    <2>1. events < MaxEvents /\ events' = events + 1 BY DEF SnapshotChanges
    <2>2. MaxEvents \in Nat BY WindowAssumption
    <2> QED BY <1>2, <2>1, <2>2
  <1>4. snapshot' \in Snapshots
    <2>1. McpStarts(snapshot) \in Snapshots
      <3> DEFINE g == snapshot.generation + 1
      <3>1. g \in Nat BY <1>2 DEF Snapshots
      <3>2. McpStarts(snapshot) = [snapshot EXCEPT !.running = TRUE, !.generation = g]
        BY DEF McpStarts
      <3> HIDE DEF g
      <3> QED BY <1>2, <3>1, <3>2 DEF Snapshots
    <2>2. McpStops(snapshot) \in Snapshots BY <1>2 DEF McpStops, Snapshots
    <2>3. \A p \in Projects : [snapshot EXCEPT !.project = p] \in Snapshots BY <1>2 DEF Snapshots
    <2> QED BY <2>1, <2>2, <2>3 DEF SnapshotChanges
  <1>5. UiTypes' BY <1>1 DEF WindowTypes, UiTypes, paneVars
  <1>6. ChatTypes' BY <1>1 DEF WindowTypes, ChatTypes, Life!TypeOK, Life!Phases, Life!Reports,
                               Life!Statuses, hostVars
  <1>7. TalkTypes' BY <1>1 DEF WindowTypes, TalkTypes, FrameTypes, MessageTypes, paneVars
  <1>8. HostInv' BY <1>1 DEF HostInv, Alive, hostVars, paneVars
  <1> QED BY <1>1, <1>3, <1>4, <1>5, <1>6, <1>7, <1>8 DEF WindowTypes

LEMMA ReturnTypes ==
  ASSUME WindowTypes, HostInv, StopReturns
  PROVE  /\ WindowTypes' /\ HostInv' /\ at' # "join"
         /\ at' = "idle" => pane'.turn = NoTurn /\ ~pane'.initialized
  <1>1. session \in Nat /\ TalkTypes /\ pane \in Panes /\ drawn \subseteq Turns BY Shape
  <1> DEFINE m == Message("Stopped", NoTurn, 0, "")
  <1>2. m \in Messages /\ GoodMessage(m, session, drawn)
    <2>1. "Stopped" \in BareKinds BY DEF BareKinds
    <2> QED BY <2>1, BareIs
  <1>3. /\ at = "join" /\ toUi' = Append(toUi, m)
        /\ UNCHANGED <<snapshot, events, drawn, approval, gate>> /\ after' = NotStopping
    BY DEF StopReturns
  <1> HIDE DEF m
  <1>4. \E h \in Hosts : HostBecomes(h) BY HostsAre DEF StopReturns
  <1>5. PICK h \in Hosts : HostBecomes(h) BY <1>4
  <1>6. /\ ChatTypes' /\ toHost' = << >> /\ slot' = NoTurn /\ call' = NoCall
        /\ \A t \in Turns : phase'[t] = "idle" <=> phase[t] = "idle"
        /\ Embeds(toHost', toHost, 0) /\ 0 \notin DOMAIN toHost' /\ toHost' \in Seq(Frames)
        /\ Len(toHost') <= QueueLimit
    BY <1>5, BecomesIs
  <1>7. HostInv' BY <1>3, <1>6, GoneInv
  <1>8. snapshot \in Snapshots /\ after.seen \in Snapshots \cup {NoSnapshot}
        /\ (after.why = "context" => after.seen \in Snapshots)
    BY DEF WindowTypes, UiTypes
  <1>9. \/ at' = "closed" /\ session' = session /\ pane' = pane /\ bridge' = "stopped"
        \/ /\ at' = "idle" /\ bridge' = "starting" /\ session' = session + 1
           /\ pane' = NewUi(IF after.why = "context" THEN after.seen ELSE snapshot)
    BY DEF StopReturns
  <1>10. pane' \in Panes /\ (at' = "idle" => pane'.turn = NoTurn /\ ~pane'.initialized)
    <2>1. \A s \in Snapshots : NewUi(s) \in Panes /\ NewUi(s).turn = NoTurn /\ ~NewUi(s).initialized
      BY NewUiIs
    <2> QED BY <1>1, <1>8, <1>9, <2>1
  <1>11. session' \in Nat /\ session <= session' BY <1>1, <1>9
  <1>12. UiTypes'
    <2>1. after'.why = "none" /\ after'.seen = NoSnapshot BY <1>3 DEF NotStopping
    <2>2. at' \in {"idle", "join", "closed"} BY <1>9
    <2> QED BY <1>3, <1>10, <1>11, <2>1, <2>2 DEF WindowTypes, UiTypes
  <1>13. TalkTypes'
    <2>1. /\ Embeds(toUi', toUi, Len(toUi) + 1) /\ toUi' \in Seq(Messages)
          /\ toUi'[Len(toUi) + 1] = m
      BY <1>1, <1>2, <1>3, SayFacts
    <2>2. GoodMessage(m, session', drawn')
      <3>1. m.session \in Nat BY <1>2 DEF Messages
      <3> QED BY <1>1, <1>2, <1>3, <1>11, <3>1 DEF GoodMessage
    <2> QED BY <1>3, <1>6, <1>11, <2>1, <2>2, TalkStays
  <1>14. bridge' \in {"starting", "open", "late", "failed", "stopped"} BY <1>9
  <1>15. WindowTypes' BY <1>3, <1>6, <1>12, <1>13, <1>14 DEF WindowTypes
  <1> QED BY <1>7, <1>9, <1>10, <1>15

LEMMA ConnectsTypes ==
  ASSUME WindowTypes, HostInv, BridgeConnects \/ BridgeConnectsLate
  PROVE  WindowTypes' /\ HostInv'
  <1> DEFINE m == Message("Connected", NoTurn, 0, "")
  <1>1. m \in Messages /\ GoodMessage(m, session, drawn)
    <2>1. "Connected" \in BareKinds BY DEF BareKinds
    <2> QED BY <2>1, BareIs
  <1>2. /\ Beyond /\ UNCHANGED <<toHost, hostVars>> /\ toUi' = Append(toUi, m)
        /\ \/ bridge = "starting" /\ bridge' = "open"
           \/ bridge = "late" /\ bridge' = "failed"
    BY DEF BridgeConnects, BridgeConnectsLate
  <1> HIDE DEF m
  <1>3. TalkTypes BY Shape
  <1>4. /\ Embeds(toUi', toUi, Len(toUi) + 1) /\ toUi' \in Seq(Messages)
        /\ toUi'[Len(toUi) + 1] = m
    BY <1>1, <1>2, <1>3, SayFacts
  <1>5. Embeds(toHost', toHost, 0) /\ 0 \notin DOMAIN toHost' /\ toHost' \in Seq(Frames)
    BY <1>2, <1>3, UnreadFacts
  <1>6. ChatTypes' BY <1>2 DEF WindowTypes, ChatTypes, Life!TypeOK, Life!Phases, Life!Reports,
                               Life!Statuses, hostVars
  <1>7. Len(toHost') <= QueueLimit BY <1>2 DEF WindowTypes
  <1>8. WindowTypes' BY <1>1, <1>2, <1>4, <1>5, <1>6, <1>7, ChatSteps
  <1>9. HostInv' BY <1>2 DEF HostInv, Alive, hostVars, Beyond, paneVars
  <1> QED BY <1>8, <1>9

LEMMA FailsFacts ==
  ASSUME WindowTypes, BridgeFails
  PROVE  \E l \in Nat : /\ Embeds(toUi', toUi, l) /\ KeepsAll(toUi', toUi)
                        /\ toUi' \in Seq(Messages) /\ l \in DOMAIN toUi'
                        /\ toUi'[l] = Message("Failed", NoTurn, 0, "")
  <1> DEFINE m == Message("Failed", NoTurn, 0, "")
  <1>1. m \in Messages
    <2>1. "Failed" \in BareKinds BY DEF BareKinds
    <2> QED BY <2>1, BareIs
  <1>2. PICK n \in 0..Len(toUi) :
          toUi' = SubSeq(toUi, 1, n) \o <<m>> \o SubSeq(toUi, n + 1, Len(toUi))
    BY DEF BridgeFails
  <1> HIDE DEF m
  <1>3. toUi \in Seq(Messages) /\ Len(toUi) \in Nat
    BY Shape, LenProperties DEF MessageTypes
  <1>4. /\ With(toUi, n, m) \in Seq(Messages) /\ Embeds(With(toUi, n, m), toUi, n + 1)
        /\ KeepsAll(With(toUi, n, m), toUi) /\ n + 1 \in DOMAIN With(toUi, n, m)
        /\ With(toUi, n, m)[n + 1] = m
    BY <1>1, <1>3, InsertEmbeds
  <1>5. toUi' = With(toUi, n, m) BY <1>2 DEF With
  <1>6. n + 1 \in Nat BY <1>3
  <1> QED BY <1>4, <1>5, <1>6 DEF m

LEMMA FailsTypes ==
  ASSUME WindowTypes, HostInv, BridgeFails
  PROVE  WindowTypes' /\ HostInv'
  <1> DEFINE m == Message("Failed", NoTurn, 0, "")
  <1>1. GoodMessage(m, session, drawn)
    <2>1. "Failed" \in BareKinds BY DEF BareKinds
    <2> QED BY <2>1, BareIs
  <1>2. Beyond /\ HostBecomes(NoHost) /\ bridge' \in {"late", "failed"} BY DEF BridgeFails
  <1>3. PICK l \in Nat : Embeds(toUi', toUi, l) /\ toUi' \in Seq(Messages) /\ toUi'[l] = m
    BY FailsFacts
  <1> HIDE DEF m
  <1>4. WindowTypes' BY <1>1, <1>2, <1>3, BecomesIs, HostsAre, ChatSteps
  <1>5. drawn' = drawn BY <1>2 DEF Beyond, paneVars
  <1>6. HostInv' BY <1>2, <1>5, BecomesIs, HostsAre, GoneInv
  <1> QED BY <1>4, <1>6

LEMMA ReadsIs ==
  ASSUME WindowTypes, HostInv, NEW c, HostReads(c)
  PROVE  /\ toHost # << >> /\ toHost' = Tail(toHost) /\ R.method = c /\ bridge = "open" /\ Alive
         /\ Beyond /\ bridge' = bridge /\ Alive' = Alive
         /\ Embeds(toHost', toHost, 0) /\ 0 \notin DOMAIN toHost' /\ toHost' \in Seq(Frames)
         /\ Len(toHost') <= QueueLimit /\ R = toHost[1] /\ 1 \in DOMAIN toHost /\ R \in Frames
         /\ \A i \in DOMAIN toHost' :
              i + 1 \in DOMAIN toHost /\ toHost'[i] = toHost[i + 1] /\ i \in Nat
         /\ c = "sendTurn" => R.turn \in drawn /\ R.turn \in Turns /\ R.turn # NoTurn
  <1>1. TalkTypes /\ FrameTypes(toHost, drawn) /\ drawn \subseteq Turns BY Shape
  <1>2. /\ toHost # << >> /\ toHost' = Tail(toHost) /\ R.method = c /\ bridge = "open"
        /\ Beyond /\ bridge' = bridge
    BY DEF HostReads
  <1>3. /\ Embeds(toHost', toHost, 0) /\ 0 \notin DOMAIN toHost' /\ toHost' \in Seq(Frames)
        /\ Len(toHost') <= Len(toHost) /\ Len(toHost') \in Nat /\ Len(toHost) \in Nat
        /\ R = toHost[1] /\ 1 \in DOMAIN toHost /\ R \in Frames
        /\ \A i \in DOMAIN toHost' :
             i + 1 \in DOMAIN toHost /\ toHost'[i] = toHost[i + 1] /\ i \in Nat
    BY <1>1, <1>2, ReadFacts
  <1>4. Len(toHost') <= QueueLimit
    <2>1. Len(toHost) <= QueueLimit /\ QueueLimit \in Nat
      BY WindowAssumption DEF WindowTypes
    <2> QED BY <1>3, <2>1
  <1>5. c = "sendTurn" => R.turn \in drawn /\ R.turn \in Turns /\ R.turn # NoTurn
    BY <1>1, <1>2, <1>3, WindowAssumption DEF FrameTypes
  <1> QED BY <1>2, <1>3, <1>4, <1>5 DEF Alive

\* What ChatHost says of the turn in its slot.
GoodSaid(m, c, t, n, z) ==
  /\ m.session = session /\ m.kind = c /\ m.turn = t /\ m.call = n /\ m.status = z
  /\ GoodMessage(m, session, drawn) /\ toUi' = Append(toUi, m)

LEMMA SaysIs ==
  ASSUME WindowTypes, NEW c \in Kinds \ BareKinds, NEW t \in drawn, NEW n \in 0..MaxCalls,
         c \in ToolKinds => n # 0, NEW z \in ToolStatuses, Sends(c, t, n, z)
  PROVE  \E m \in Messages : GoodSaid(m, c, t, n, z)
  <1>1. drawn \subseteq Turns /\ session \in Nat BY Shape
  <1>2. t \in Turns \cup {NoTurn} BY <1>1
  <1> DEFINE m == Message(c, t, n, z)
  <1>3. m = [session |-> session, kind |-> c, turn |-> t, call |-> n, status |-> z]
    BY DEF Message
  <1>4. toUi' = Append(toUi, m) BY DEF Sends
  <1> HIDE DEF m
  <1>5. m \in Messages BY <1>1, <1>2, <1>3 DEF Messages
  <1>6. /\ m.session = session /\ m.kind = c /\ m.turn = t /\ m.call = n /\ m.status = z
    BY <1>3
  <1>7. GoodMessage(m, session, drawn) BY <1>1, <1>6 DEF GoodMessage
  <1> QED BY <1>4, <1>5, <1>6, <1>7 DEF GoodSaid

\* Nothing, or one good message, is said.
LEMMA SomeSaid ==
  ASSUME WindowTypes, HostInv,
         \/ toUi' = toUi
         \/ \E c \in Kinds \ BareKinds, t \in drawn, n \in 0..MaxCalls, z \in ToolStatuses :
              (c \in ToolKinds => n # 0) /\ Sends(c, t, n, z)
         \/ \E c \in BareKinds : Sends(c, NoTurn, 0, "")
  PROVE  \E l : /\ Embeds(toUi', toUi, l) /\ toUi' \in Seq(Messages)
                /\ l \in DOMAIN toUi' => GoodMessage(toUi'[l], session, drawn)
  <1>1. TalkTypes BY Shape
  <1>2. CASE toUi' = toUi
    <2>1. toUi \in Seq(Messages) BY <1>1 DEF TalkTypes, MessageTypes
    <2> QED BY <1>1, <1>2, <2>1, UnsaidFacts
  <1>3. ASSUME NEW c \in Kinds \ BareKinds, NEW t \in drawn, NEW n \in 0..MaxCalls,
               NEW z \in ToolStatuses, c \in ToolKinds => n # 0, Sends(c, t, n, z)
        PROVE  /\ Embeds(toUi', toUi, Len(toUi) + 1) /\ toUi' \in Seq(Messages)
               /\ GoodMessage(toUi'[Len(toUi) + 1], session, drawn)
    <2>1. PICK m \in Messages : GoodSaid(m, c, t, n, z) BY <1>3, SaysIs
    <2>2. GoodMessage(m, session, drawn) /\ toUi' = Append(toUi, m) BY <2>1 DEF GoodSaid
    <2>3. /\ Embeds(toUi', toUi, Len(toUi) + 1) /\ toUi' \in Seq(Messages)
          /\ toUi'[Len(toUi) + 1] = m
      BY <1>1, <2>2, SayFacts
    <2> QED BY <2>2, <2>3
  <1>4. ASSUME NEW c \in BareKinds, Sends(c, NoTurn, 0, "")
        PROVE  /\ Embeds(toUi', toUi, Len(toUi) + 1) /\ toUi' \in Seq(Messages)
               /\ GoodMessage(toUi'[Len(toUi) + 1], session, drawn)
    <2> DEFINE m == Message(c, NoTurn, 0, "")
    <2>1. m \in Messages /\ GoodMessage(m, session, drawn) BY BareIs
    <2>2. toUi' = Append(toUi, m) BY <1>4 DEF Sends
    <2> HIDE DEF m
    <2> QED BY <1>1, <2>1, <2>2, SayFacts
  <1> QED BY <1>2, <1>3, <1>4

LEMMA SlotIs ==
  ASSUME WindowTypes, HostInv, slot # NoTurn
  PROVE  /\ slot \in Turns /\ slot \in drawn /\ bridge = "open" /\ Alive
         /\ phase[slot] \in {"reserved", "running"} /\ phase[slot] # "idle"
  BY Shape DEF HostInv, Alive

LEMMA RouterTypes ==
  ASSUME WindowTypes, HostInv, HostRouter
  PROVE  WindowTypes' /\ HostInv'
  <1>1. /\ host \in Hosts /\ call \in Calls /\ drawn \subseteq Turns
        /\ slot \in Turns \cup {NoTurn} /\ phase \in [Turns -> Life!Phases]
        /\ report \in [Turns -> Life!Reports] /\ TalkTypes
    BY Shape
  <1>2. cancelled \in BOOLEAN /\ bridge \in {"starting", "open", "late", "failed", "stopped"}
    BY DEF WindowTypes, ChatTypes
  <1>3. "" \in ToolStatuses /\ 0 \in 0..MaxCalls BY WindowAssumption DEF ToolStatuses
  <1>4. CASE HostInitializes
    <2>1. HostReads("initialize") /\ UNCHANGED <<slot, phase, report, cancelled, call>>
      BY <1>4 DEF HostInitializes
    <2>2. host' \in Hosts
      <3>1. R \in Frames BY <2>1, ReadsIs
      <3>2. R.generation \in Nat /\ R.project \in Projects \cup {"none"} BY <3>1 DEF Frames
      <3>3. \A g \in Nat, p \in Projects \cup {"none"} :
              [host EXCEPT !.initialized = TRUE, !.generation = g, !.project = p] \in Hosts
        BY <1>1 DEF Hosts
      <3> QED BY <1>1, <1>4, <3>2, <3>3 DEF HostInitializes
    <2>3. ChatTypes' BY <1>1, <1>2, <2>1, <2>2 DEF ChatTypes, Life!TypeOK, Life!Phases,
                                                   Life!Reports, Life!Statuses
    <2>4. \E c \in BareKinds : Sends(c, NoTurn, 0, "")
      BY <1>4 DEF HostInitializes, BareKinds
    <2>5. PICK l : /\ Embeds(toUi', toUi, l) /\ toUi' \in Seq(Messages)
                   /\ l \in DOMAIN toUi' => GoodMessage(toUi'[l], session, drawn)
      BY <2>4, SomeSaid
    <2>6. WindowTypes' BY <1>2, <2>1, <2>3, <2>5, ReadsIs, ChatSteps
    <2>7. HostInv' BY <2>1, ReadsIs DEF HostInv, Beyond, paneVars
    <2> QED BY <2>6, <2>7
  <1>5. CASE HostPreparesTurn
    <2>1. HostReads("sendTurn") /\ UNCHANGED <<host, cancelled, call>>
      BY <1>5 DEF HostPreparesTurn
    <2>2. /\ Beyond /\ bridge' = bridge /\ bridge = "open" /\ Alive /\ Alive' = Alive
          /\ R.turn \in drawn /\ R.turn \in Turns /\ R.turn # NoTurn
      BY <2>1, ReadsIs
    <2>3. /\ \/ toUi' = toUi /\ Life!Reserve(R.turn)
             \/ Sends("turnError", R.turn, 0, "") /\ UNCHANGED <<slot, phase, report>>
      BY <1>5 DEF HostPreparesTurn
    <2>4. ChatTypes' /\ HostInv'
      <3>1. CASE Life!Reserve(R.turn)
        <4>1. /\ slot = NoTurn /\ slot' = R.turn /\ report' = report
              /\ phase' = [phase EXCEPT ![R.turn] = "reserved"]
          BY <3>1 DEF Life!Reserve
        <4>2. phase' \in [Turns -> Life!Phases] BY <1>1, <4>1 DEF Life!Phases
        <4>3. Life!TypeOK'
          BY <1>1, <2>2, <4>1, <4>2 DEF Life!TypeOK, Life!Phases, Life!Reports, Life!Statuses
        <4>4. ChatTypes' BY <1>1, <1>2, <2>1, <4>3 DEF ChatTypes
        <4>5. /\ phase'[R.turn] = "reserved" /\ drawn' = drawn
              /\ \A t \in Turns : t # R.turn => phase'[t] = phase[t]
          BY <1>1, <2>2, <4>1 DEF Beyond, paneVars
        <4>6. HostInv' BY <2>2, <4>1, <4>5 DEF HostInv
        <4> QED BY <4>4, <4>6
      <3>2. CASE UNCHANGED <<slot, phase, report>>
        <4>1. ChatTypes' BY <1>1, <1>2, <2>1, <3>2 DEF ChatTypes, Life!TypeOK, Life!Phases,
                                                       Life!Reports, Life!Statuses
        <4>2. HostInv' BY <2>1, <2>2, <3>2 DEF HostInv, Beyond, paneVars
        <4> QED BY <4>1, <4>2
      <3> QED BY <2>3, <3>1, <3>2
    <2>5. \/ toUi' = toUi
          \/ \E c \in Kinds \ BareKinds, t \in drawn, n \in 0..MaxCalls, z \in ToolStatuses :
               (c \in ToolKinds => n # 0) /\ Sends(c, t, n, z)
      <3>1. "turnError" \in Kinds \ BareKinds /\ "turnError" \notin ToolKinds
        BY DEF Kinds, BareKinds, ToolKinds
      <3> QED BY <1>3, <2>2, <2>3, <3>1
    <2>6. PICK l : /\ Embeds(toUi', toUi, l) /\ toUi' \in Seq(Messages)
                   /\ l \in DOMAIN toUi' => GoodMessage(toUi'[l], session, drawn)
      BY <2>5, SomeSaid
    <2>7. WindowTypes' BY <1>2, <2>1, <2>4, <2>6, ReadsIs, ChatSteps
    <2> QED BY <2>4, <2>7
  <1>6. CASE HostAcceptsTurn
    <2>1. /\ slot # NoTurn /\ Life!Accept(slot) /\ Sends("turnOk", slot, 0, "")
          /\ Beyond /\ UNCHANGED <<bridge, toHost, host, cancelled, call>>
      BY <1>6 DEF HostAcceptsTurn
    <2>2. slot \in Turns /\ slot \in drawn /\ bridge = "open" BY <2>1, SlotIs
    <2>3. slot' = slot /\ report' = report /\ phase' = [phase EXCEPT ![slot] = "running"]
      BY <2>1 DEF Life!Accept
    <2>4. phase' \in [Turns -> Life!Phases] BY <1>1, <2>3 DEF Life!Phases
    <2>5. Life!TypeOK'
      BY <1>1, <2>3, <2>4 DEF Life!TypeOK, Life!Phases, Life!Reports, Life!Statuses
    <2>6. ChatTypes' BY <1>1, <1>2, <2>1, <2>5 DEF ChatTypes
    <2>7. /\ phase'[slot] = "running" /\ drawn' = drawn
          /\ \A t \in Turns : t # slot => phase'[t] = phase[t]
      BY <1>1, <2>1, <2>2, <2>3 DEF Beyond, paneVars
    <2>8. HostInv' BY <2>1, <2>2, <2>3, <2>7 DEF HostInv, Alive
    <2>9. "turnOk" \in Kinds \ BareKinds /\ "turnOk" \notin ToolKinds
      BY DEF Kinds, BareKinds, ToolKinds
    <2>10. PICK l : /\ Embeds(toUi', toUi, l) /\ toUi' \in Seq(Messages)
                    /\ l \in DOMAIN toUi' => GoodMessage(toUi'[l], session, drawn)
      BY <1>3, <2>1, <2>2, <2>9, SomeSaid
    <2>11. Embeds(toHost', toHost, 0) /\ 0 \notin DOMAIN toHost' /\ toHost' \in Seq(Frames)
      BY <1>1, <2>1, UnreadFacts
    <2>12. Len(toHost') <= QueueLimit BY <2>1 DEF WindowTypes
    <2>13. WindowTypes' BY <1>2, <2>1, <2>6, <2>10, <2>11, <2>12, ChatSteps
    <2> QED BY <2>8, <2>13
  <1>7. CASE HostCancelsTurn
    <2>1. /\ HostReads("cancelTurn") /\ UNCHANGED <<toUi, host, slot, phase, report, call>>
          /\ cancelled' = (cancelled \/ slot = R.turn)
      BY <1>7 DEF HostCancelsTurn
    <2>2. ChatTypes' BY <1>1, <1>2, <2>1 DEF ChatTypes, Life!TypeOK, Life!Phases,
                                             Life!Reports, Life!Statuses
    <2>3. PICK l : /\ Embeds(toUi', toUi, l) /\ toUi' \in Seq(Messages)
                   /\ l \in DOMAIN toUi' => GoodMessage(toUi'[l], session, drawn)
      BY <2>1, SomeSaid
    <2>4. WindowTypes' BY <1>2, <2>1, <2>2, <2>3, ReadsIs, ChatSteps
    <2>5. HostInv' BY <2>1, ReadsIs DEF HostInv, Beyond, paneVars
    <2> QED BY <2>4, <2>5
  <1>8. CASE HostTakesDecision
    <2>1. HostReads("respond") /\ UNCHANGED <<toUi, host, slot, phase, report, cancelled>>
      BY <1>8 DEF HostTakesDecision
    <2>2. call' \in Calls BY <1>1, <1>8 DEF HostTakesDecision, Calls
    <2>3. ChatTypes' BY <1>1, <1>2, <2>1, <2>2 DEF ChatTypes, Life!TypeOK, Life!Phases,
                                                   Life!Reports, Life!Statuses
    <2>4. PICK l : /\ Embeds(toUi', toUi, l) /\ toUi' \in Seq(Messages)
                   /\ l \in DOMAIN toUi' => GoodMessage(toUi'[l], session, drawn)
      BY <2>1, SomeSaid
    <2>5. WindowTypes' BY <1>2, <2>1, <2>3, <2>4, ReadsIs, ChatSteps
    <2>6. slot = NoTurn => call' = call
      <3>1. ASSUME slot = NoTurn PROVE call.at # "asked"
        BY <3>1, NoCallIs DEF HostInv
      <3> QED BY <1>8, <3>1 DEF HostTakesDecision
    <2>7. HostInv' BY <2>1, <2>6, ReadsIs DEF HostInv, Beyond, paneVars
    <2> QED BY <2>5, <2>7
  <1>9. CASE HostShutsDown
    <2>1. HostBecomes(NoHost) /\ bridge' = "stopped" /\ Beyond /\ toUi' = toUi
      BY <1>9 DEF HostShutsDown
    <2>2. PICK l : /\ Embeds(toUi', toUi, l) /\ toUi' \in Seq(Messages)
                   /\ l \in DOMAIN toUi' => GoodMessage(toUi'[l], session, drawn)
      BY <2>1, SomeSaid
    <2>3. WindowTypes' BY <2>1, <2>2, BecomesIs, HostsAre, ChatSteps
    <2>4. drawn' = drawn BY <2>1 DEF Beyond, paneVars
    <2>5. HostInv' BY <2>1, <2>4, BecomesIs, HostsAre, GoneInv
    <2> QED BY <2>3, <2>5
  <1> QED BY <1>4, <1>5, <1>6, <1>7, <1>8, <1>9 DEF HostRouter

\* A turn in the slot runs, and goes on after its step.
LEMMA StepIs ==
  ASSUME WindowTypes, HostInv, TurnStep
  PROVE  /\ slot # NoTurn /\ slot \in Turns /\ slot \in drawn /\ bridge = "open" /\ Alive
         /\ phase[slot] = "running" /\ report[slot] = "none" /\ Beyond
         /\ UNCHANGED <<bridge, toHost, host, cancelled>> /\ Alive' = Alive
         /\ drawn' = drawn /\ session' = session /\ call.count \in 0..MaxCalls
  <1>1. /\ slot # NoTurn /\ phase[slot] = "running" /\ report[slot] = "none" /\ Beyond
        /\ UNCHANGED <<bridge, toHost, host, cancelled>>
    BY DEF TurnStep, Busy
  <1>2. slot \in Turns /\ slot \in drawn /\ bridge = "open" /\ Alive BY <1>1, SlotIs
  <1>3. call.count \in 0..MaxCalls BY Shape DEF Calls
  <1> QED BY <1>1, <1>2, <1>3 DEF Alive, Beyond, paneVars

LEMMA StepTypes ==
  ASSUME WindowTypes, HostInv, TurnStep, slot' = slot, phase' = phase,
         report' \in [Turns -> Life!Reports], call' \in Calls,
         \/ toUi' = toUi
         \/ \E c \in Kinds \ BareKinds, n \in 0..MaxCalls, z \in ToolStatuses :
              (c \in ToolKinds => n # 0) /\ Sends(c, slot, n, z)
  PROVE  WindowTypes' /\ HostInv'
  <1>1. TalkTypes /\ slot \in Turns \cup {NoTurn} /\ phase \in [Turns -> Life!Phases]
        /\ host \in Hosts
    BY Shape
  <1>2. cancelled \in BOOLEAN /\ bridge \in {"starting", "open", "late", "failed", "stopped"}
        /\ Len(toHost) <= QueueLimit
    BY DEF WindowTypes, ChatTypes
  <1>3. /\ slot # NoTurn /\ slot \in drawn /\ Beyond /\ bridge = "open"
        /\ UNCHANGED <<bridge, toHost, host, cancelled>> /\ Alive' = Alive /\ drawn' = drawn
    BY StepIs
  <1>4. Life!TypeOK' BY <1>1 DEF Life!TypeOK, Life!Phases, Life!Reports, Life!Statuses
  <1>5. ChatTypes' BY <1>1, <1>2, <1>3, <1>4 DEF ChatTypes
  <1>6. PICK l : /\ Embeds(toUi', toUi, l) /\ toUi' \in Seq(Messages)
                 /\ l \in DOMAIN toUi' => GoodMessage(toUi'[l], session, drawn)
    BY <1>3, SomeSaid
  <1>7. Embeds(toHost', toHost, 0) /\ 0 \notin DOMAIN toHost' /\ toHost' \in Seq(Frames)
    BY <1>1, <1>3, UnreadFacts
  <1>8. WindowTypes' BY <1>2, <1>3, <1>5, <1>6, <1>7, ChatSteps
  <1>9. HostInv' BY <1>3 DEF HostInv
  <1> QED BY <1>8, <1>9

LEMMA KindsAre ==
  /\ \A c \in ToolKinds \cup EndKinds : c \in Kinds \ BareKinds
  /\ \A c \in EndKinds : c \notin ToolKinds
  /\ ToolStatuses = {"", "succeeded", "failed", "unknown", "denied"}
  /\ 0 \in 0..MaxCalls
  <1>1. 0 \in 0..MaxCalls BY WindowAssumption
  <1> QED BY <1>1 DEF ToolKinds, EndKinds, Kinds, BareKinds, ToolStatuses

LEMMA CallMoves ==
  ASSUME NEW c \in Calls, NEW x \in {"none", "asked", "allowed", "denied", "started", "failing"}
  PROVE  /\ [c EXCEPT !.at = x] \in Calls /\ [c EXCEPT !.at = x].at = x
         /\ [c EXCEPT !.at = x].count = c.count
  BY DEF Calls

LEMMA AsksIs ==
  ASSUME WindowTypes, call.count < MaxCalls, call' = [at |-> "asked", count |-> call.count + 1]
  PROVE  /\ call' \in Calls /\ call'.at = "asked" /\ call'.count = call.count + 1
         /\ call.count + 1 # 0 /\ call.count + 1 \in 0..MaxCalls /\ call.count \in Nat
  <1>1. call.count \in 0..MaxCalls BY Shape DEF Calls
  <1>2. call.count + 1 # 0 /\ call.count + 1 \in 0..MaxCalls /\ call.count \in Nat
    BY <1>1, WindowAssumption
  <1> QED BY <1>2 DEF Calls

LEMMA EndsTypes ==
  ASSUME WindowTypes, HostInv, HostEndsTurn
  PROVE  /\ WindowTypes' /\ HostInv' /\ slot' = NoTurn
         /\ \A t \in Turns : phase'[t] = "idle" <=> phase[t] = "idle"
  <1>1. /\ slot # NoTurn /\ Life!End(slot) /\ cancelled' = FALSE /\ call' = NoCall
        /\ Beyond /\ UNCHANGED <<bridge, toHost, toUi, host>>
    BY DEF HostEndsTurn
  <1>2. /\ slot' = NoTurn /\ report' = report /\ phase' = [phase EXCEPT ![slot] = "ended"]
    BY <1>1 DEF Life!End
  <1>3. slot \in Turns /\ slot \in drawn /\ bridge = "open" /\ phase[slot] # "idle"
    BY <1>1, SlotIs
  <1>4. TalkTypes /\ phase \in [Turns -> Life!Phases] /\ report \in [Turns -> Life!Reports]
        /\ host \in Hosts
    BY Shape
  <1>5. Life!TypeOK'
    <2>1. phase' \in [Turns -> Life!Phases] BY <1>2, <1>4 DEF Life!Phases
    <2> QED BY <1>2, <1>4, <2>1 DEF Life!TypeOK, Life!Phases, Life!Reports, Life!Statuses
  <1>6. ChatTypes' BY <1>1, <1>4, <1>5, NoCallIs DEF ChatTypes
  <1>7. PICK l : /\ Embeds(toUi', toUi, l) /\ toUi' \in Seq(Messages)
                 /\ l \in DOMAIN toUi' => GoodMessage(toUi'[l], session, drawn)
    BY <1>1, SomeSaid
  <1>8. Embeds(toHost', toHost, 0) /\ 0 \notin DOMAIN toHost' /\ toHost' \in Seq(Frames)
    BY <1>1, <1>4, UnreadFacts
  <1>9. bridge' \in {"starting", "open", "late", "failed", "stopped"} /\ Len(toHost') <= QueueLimit
    BY <1>1 DEF WindowTypes
  <1>10. WindowTypes' BY <1>1, <1>6, <1>7, <1>8, <1>9, ChatSteps
  <1>11. /\ phase'[slot] = "ended" /\ drawn' = drawn
         /\ \A t \in Turns : t # slot => phase'[t] = phase[t]
    BY <1>1, <1>2, <1>3, <1>4 DEF Beyond, paneVars
  <1>12. HostInv' BY <1>1, <1>2, <1>3, <1>11 DEF HostInv, Alive
  <1> QED BY <1>2, <1>3, <1>10, <1>11, <1>12

LEMMA TurnTypes ==
  ASSUME WindowTypes, HostInv, CallNumbered, HostTurn
  PROVE  WindowTypes' /\ HostInv'
  <1>1. call \in Calls /\ report \in [Turns -> Life!Reports] /\ call.count \in 0..MaxCalls
    BY Shape DEF Calls
  <1>2. /\ "" \in ToolStatuses /\ "succeeded" \in ToolStatuses /\ "failed" \in ToolStatuses
        /\ "unknown" \in ToolStatuses /\ "denied" \in ToolStatuses
        /\ "approvalRequired" \in ToolKinds /\ "toolStarted" \in ToolKinds
        /\ "toolCompleted" \in ToolKinds /\ "completed" \in EndKinds /\ "error" \in EndKinds
    BY DEF ToolStatuses, ToolKinds, EndKinds
  <1>3. \A x \in {"none", "asked", "allowed", "denied", "started", "failing"} :
          [call EXCEPT !.at = x] \in Calls
    BY <1>1, CallMoves
  <1>4. ASSUME TurnStep, UNCHANGED <<slot, phase, report>>, call' \in Calls,
               \/ toUi' = toUi
               \/ \E c \in Kinds \ BareKinds, n \in 0..MaxCalls, z \in ToolStatuses :
                    (c \in ToolKinds => n # 0) /\ Sends(c, slot, n, z)
        PROVE  WindowTypes' /\ HostInv'
    BY <1>1, <1>4, StepTypes
  <1>5. CASE HostAsks
    <2>1. call.count < MaxCalls /\ call' = [at |-> "asked", count |-> call.count + 1]
      BY <1>5 DEF HostAsks
    <2>2. call' \in Calls /\ call.count + 1 # 0 /\ call.count + 1 \in 0..MaxCalls
      BY <2>1, AsksIs
    <2>3. Sends("approvalRequired", slot, call.count + 1, "") BY <1>5 DEF HostAsks
    <2>4. \E c \in Kinds \ BareKinds, n \in 0..MaxCalls, z \in ToolStatuses :
            (c \in ToolKinds => n # 0) /\ Sends(c, slot, n, z)
      BY <1>2, <2>2, <2>3, KindsAre
    <2> QED BY <1>4, <1>5, <2>2, <2>4 DEF HostAsks
  <1>6. CASE HostStartsTool
    <2>1. call.count # 0 BY <1>6 DEF HostStartsTool, CallNumbered
    <2>2. call' \in Calls BY <1>3, <1>6 DEF HostStartsTool
    <2>3. Sends("toolStarted", slot, call.count, "") BY <1>6 DEF HostStartsTool
    <2>4. \E c \in Kinds \ BareKinds, n \in 0..MaxCalls, z \in ToolStatuses :
            (c \in ToolKinds => n # 0) /\ Sends(c, slot, n, z)
      BY <1>1, <1>2, <2>1, <2>3, KindsAre
    <2> QED BY <1>4, <1>6, <2>2, <2>4 DEF HostStartsTool
  <1>7. CASE HostToolReturns
    <2>1. call.count # 0 BY <1>7 DEF HostToolReturns, CallNumbered
    <2>2. call' \in Calls BY <1>3, <1>7 DEF HostToolReturns
    <2>3. \E z \in ToolStatuses : Sends("toolCompleted", slot, call.count, z)
      BY <1>2, <1>7 DEF HostToolReturns
    <2>4. \E c \in Kinds \ BareKinds, n \in 0..MaxCalls, z \in ToolStatuses :
            (c \in ToolKinds => n # 0) /\ Sends(c, slot, n, z)
      BY <1>1, <1>2, <2>1, <2>3, KindsAre
    <2> QED BY <1>4, <1>7, <2>2, <2>4 DEF HostToolReturns
  <1>8. CASE HostReportsDenial
    <2>1. call.count # 0 BY <1>8 DEF HostReportsDenial, CallNumbered
    <2>2. call' \in Calls BY <1>3, <1>8 DEF HostReportsDenial
    <2>3. Sends("toolCompleted", slot, call.count, "denied") BY <1>8 DEF HostReportsDenial
    <2>4. \E c \in Kinds \ BareKinds, n \in 0..MaxCalls, z \in ToolStatuses :
            (c \in ToolKinds => n # 0) /\ Sends(c, slot, n, z)
      BY <1>1, <1>2, <2>1, <2>3, KindsAre
    <2> QED BY <1>4, <1>8, <2>2, <2>4 DEF HostReportsDenial
  <1>9. CASE HostDropsCall
    <2>1. call' \in Calls BY <1>3, <1>9 DEF HostDropsCall
    <2> QED BY <1>4, <1>9, <2>1 DEF HostDropsCall
  <1>10. CASE HostReportsError
    <2>1. call' \in Calls BY <1>3, <1>10 DEF HostReportsError
    <2>2. \/ toUi' = toUi
          \/ \E c \in Kinds \ BareKinds, n \in 0..MaxCalls, z \in ToolStatuses :
               (c \in ToolKinds => n # 0) /\ Sends(c, slot, n, z)
      BY <1>2, <1>10, KindsAre DEF HostReportsError
    <2> QED BY <1>4, <1>10, <2>1, <2>2 DEF HostReportsError
  <1>11. CASE HostReportsEnd
    <2>1. TurnStep /\ Life!Report(slot) /\ call' = call BY <1>11 DEF HostReportsEnd
    <2>2. /\ slot' = slot /\ phase' = phase /\ report' \in [Turns -> Life!Reports]
      BY <1>1, <2>1 DEF Life!Report
    <2>3. \/ toUi' = toUi
          \/ \E c \in Kinds \ BareKinds, n \in 0..MaxCalls, z \in ToolStatuses :
               (c \in ToolKinds => n # 0) /\ Sends(c, slot, n, z)
      BY <1>2, <1>11, KindsAre DEF HostReportsEnd
    <2> QED BY <1>1, <2>1, <2>2, <2>3, StepTypes
  <1>12. CASE HostEndsTurn BY <1>12, EndsTypes
  <1> QED BY <1>5, <1>6, <1>7, <1>8, <1>9, <1>10, <1>11, <1>12 DEF HostTurn
-----------------------------------------------------------------------------
(* What an idle window relies on, one lemma per kind of step.              *)

LEMMA IdleKeeps ==
  ASSUME WindowTypes, IdleInv, NEW k, NEW l,
         Embeds(toHost', toHost, k), Embeds(toUi', toUi, l),
         k \in DOMAIN toHost' => toHost'[k].method \in {"cancelTurn", "shutdown"},
         l \in DOMAIN toUi' => toUi'[l].kind \in {"Connected", "turnOk"},
         \/ KeepsAll(toUi', toUi)
         \/ Keeps(toUi', toUi) /\ ~(IsTool(toUi[1], session) /\ toUi[1].kind = "toolStarted"),
         session' = session, pane' = pane, gate' = gate, drawn' = drawn, approval' = approval,
         Alive' = Alive, host' = host,
         \A t \in Turns : phase'[t] = "idle" <=> phase[t] = "idle",
         Active' => Active /\ slot' = slot,
         TurnGoes(phase, phase', slot, slot', call, call')
  PROVE  IdleInv'
  <1>1. TalkTypes /\ drawn \subseteq Turns BY Shape
  <1>2. GateInv /\ (Alive => HandshakeInv) /\ ToolInv BY DEF IdleInv
  <1>3. k \in DOMAIN toHost' => /\ toHost'[k].method # "sendTurn"
                                /\ toHost'[k].method # "initialize"
                                /\ toHost'[k].method # "respond"
    OBVIOUS
  <1>4. l \in DOMAIN toUi' =>
          /\ toUi'[l].kind \notin {"Stopped", "Failed", "turnError", "completed", "error"}
          /\ toUi'[l].kind \notin AnswerKinds /\ toUi'[l].kind \notin ToolKinds
    BY DEF AnswerKinds, ToolKinds
  <1>5. GateInv' BY <1>1, <1>2, <1>3, <1>4, GateKeeps
  <1>6. Alive' => HandshakeInv' BY <1>2, <1>3, <1>4, InitKeeps
  <1>7. ToolInv' BY <1>1, <1>2, <1>3, <1>4, ToolKeeps
  <1> QED BY <1>5, <1>6, <1>7 DEF IdleInv

LEMMA StillIs ==
  ASSUME UNCHANGED <<bridge, hostVars>>
  PROVE  /\ Alive' = Alive /\ Active' = Active /\ slot' = slot /\ host' = host /\ call' = call
         /\ \A t \in Turns : phase'[t] = "idle" <=> phase[t] = "idle"
         /\ phase' = phase /\ report' = report
         /\ TurnGoes(phase, phase', slot, slot', call, call')
  BY DEF hostVars, Alive, Active, TurnGoes

LEMMA HandlerStill ==
  ASSUME Handler
  PROVE  /\ UNCHANGED <<snapshot, events, at, after, session, drawn, bridge, hostVars>>
         /\ Alive' = Alive /\ Active' = Active /\ slot' = slot /\ host' = host /\ call' = call
         /\ \A t \in Turns : phase'[t] = "idle" <=> phase[t] = "idle"
         /\ phase' = phase
         /\ TurnGoes(phase, phase', slot, slot', call, call')
  BY StillIs DEF Handler

\* The facts every handler of a message starts from.
LEMMA TakenIs ==
  ASSUME WindowTypes, NEW c, Receives(c)
  PROVE  /\ TalkTypes /\ drawn \subseteq Turns /\ at = "idle"
         /\ Embeds(toUi', toUi, 0) /\ Keeps(toUi', toUi) /\ 0 \notin DOMAIN toUi'
         /\ M = toUi[1] /\ 1 \in DOMAIN toUi /\ M \in Messages /\ M.kind = c
         /\ M.session = session /\ session' = session /\ drawn' = drawn /\ Handler
         /\ \A i \in DOMAIN toUi' :
              i + 1 \in DOMAIN toUi /\ toUi'[i] = toUi[i + 1] /\ i \in Nat /\ i + 1 # 1 /\ 1 < i + 1
  <1>1. TalkTypes /\ drawn \subseteq Turns BY Shape
  <1>2. toUi # << >> /\ toUi' = Tail(toUi) /\ Handler /\ M.kind = c /\ M.session = session
        /\ at = "idle"
    BY ReceivesIs
  <1>3. session' = session /\ drawn' = drawn BY <1>2, HandlerStill
  <1>4. /\ Embeds(toUi', toUi, 0) /\ Keeps(toUi', toUi) /\ 0 \notin DOMAIN toUi'
        /\ M = toUi[1] /\ 1 \in DOMAIN toUi /\ M \in Messages
        /\ \A i \in DOMAIN toUi' : i + 1 \in DOMAIN toUi /\ toUi'[i] = toUi[i + 1] /\ i \in Nat
    BY <1>1, <1>2, PopFacts
  <1>5. \A i \in DOMAIN toUi' : i + 1 # 1 /\ 1 < i + 1
    <2>1. \A i \in DOMAIN toUi' : i \in Nat /\ i # 0 BY <1>4
    <2> QED BY <2>1
  <1> QED BY <1>1, <1>2, <1>3, <1>4, <1>5

\* The head of the queue says nothing of a call.
LEMMA HeadQuiet ==
  ASSUME M = toUi[1], M.kind \notin ToolKinds
  PROVE  ~(IsTool(toUi[1], session) /\ toUi[1].kind = "toolStarted")
  BY DEF IsTool

LEMMA SnapshotIdle ==
  ASSUME WindowTypes, IdleInv, UNCHANGED <<paneVars, bridge, toHost, toUi, hostVars>>
  PROVE  IdleInv'
  <1>1. TalkTypes BY Shape
  <1>2. /\ session' = session /\ pane' = pane /\ gate' = gate /\ drawn' = drawn
        /\ approval' = approval /\ toHost' = toHost /\ toUi' = toUi
    BY DEF paneVars
  <1>3. Embeds(toUi', toUi, 0) /\ KeepsAll(toUi', toUi) /\ 0 \notin DOMAIN toUi'
    BY <1>1, <1>2, UnsaidFacts
  <1>4. Embeds(toHost', toHost, 0) /\ 0 \notin DOMAIN toHost' BY <1>1, <1>2, UnreadFacts
  <1>5. UNCHANGED <<bridge, hostVars>> OBVIOUS
  <1> QED BY <1>2, <1>3, <1>4, <1>5, StillIs, IdleKeeps

LEMMA DropsIdle ==
  ASSUME WindowTypes, IdleInv, SinkDrops
  PROVE  IdleInv'
  <1>1. TalkTypes BY Shape
  <1>2. toUi # << >> /\ toUi' = Tail(toUi) /\ M.session # session BY DEF SinkDrops
  <1>7. Handler /\ pane' = pane /\ approval' = approval /\ gate' = gate /\ toHost' = toHost
    BY DEF SinkDrops
  <1>3. Embeds(toUi', toUi, 0) /\ Keeps(toUi', toUi) /\ 0 \notin DOMAIN toUi' /\ M = toUi[1]
    BY <1>1, <1>2, PopFacts
  <1>4. ~(IsTool(toUi[1], session) /\ toUi[1].kind = "toolStarted") BY <1>2, <1>3 DEF IsTool
  <1>5. Embeds(toHost', toHost, 0) /\ 0 \notin DOMAIN toHost' BY <1>1, <1>7, UnreadFacts
  <1>6. session' = session /\ drawn' = drawn BY <1>7, HandlerStill
  <1>8. /\ Embeds(toUi', toUi, 0) /\ 0 \notin DOMAIN toUi'
        /\ Keeps(toUi', toUi) /\ ~(IsTool(toUi[1], session) /\ toUi[1].kind = "toolStarted")
    BY <1>3, <1>4
  <1>9. /\ Alive' = Alive /\ host' = host /\ (Active' => Active /\ slot' = slot)
        /\ \A t \in Turns : phase'[t] = "idle" <=> phase[t] = "idle"
        /\ TurnGoes(phase, phase', slot, slot', call, call')
    BY <1>7, HandlerStill
  <1> QED BY <1>5, <1>6, <1>7, <1>8, <1>9, IdleKeeps

LEMMA TurnOkIdle ==
  ASSUME WindowTypes, IdleInv, HandleTurnOk
  PROVE  IdleInv'
  <1>1. /\ Receives("turnOk") /\ pane' = pane /\ approval' = approval
        /\ gate' = gate /\ toHost' = toHost
    BY DEF HandleTurnOk
  <1>2. /\ TalkTypes /\ Embeds(toUi', toUi, 0) /\ Keeps(toUi', toUi) /\ 0 \notin DOMAIN toUi'
        /\ M = toUi[1] /\ M.kind = "turnOk" /\ session' = session /\ drawn' = drawn /\ Handler
    BY <1>1, TakenIs
  <1>3. ~(IsTool(toUi[1], session) /\ toUi[1].kind = "toolStarted")
    BY <1>2, HeadQuiet DEF ToolKinds
  <1>4. Embeds(toHost', toHost, 0) /\ 0 \notin DOMAIN toHost' BY <1>1, <1>2, UnreadFacts
  <1> QED BY <1>1, <1>2, <1>3, <1>4, HandlerStill, IdleKeeps

\* A request to initialize is posted at most while none is on its way.
LEMMA TryIdle ==
  ASSUME WindowTypes, IdleInv, Handler, NEW u \in Panes, TryInitialize(u), u.turn = pane.turn,
         u.initialized = pane.initialized, u.initializing = pane.initializing,
         u.generation = pane.generation, approval' = approval, gate' = gate,
         Embeds(toUi', toUi, 0), 0 \notin DOMAIN toUi',
         \/ KeepsAll(toUi', toUi)
         \/ Keeps(toUi', toUi) /\ ~(IsTool(toUi[1], session) /\ toUi[1].kind = "toolStarted")
  PROVE  IdleInv'
  <1>1. TalkTypes /\ drawn \subseteq Turns /\ snapshot \in Snapshots BY Shape
  <1>2. GateInv /\ (Alive => HandshakeInv) /\ ToolInv BY DEF IdleInv
  <1>3. session' = session /\ drawn' = drawn BY HandlerStill
  <1>4. pane'.turn = pane.turn BY <1>1, TryFacts
  <1>5. PICK f \in Frames : f.method = "initialize" /\ (Post(f) \/ toHost' = toHost)
    BY <1>1, TryFacts
  <1>6. PICK k \in Nat : Embeds(toHost', toHost, k) /\ (k \in DOMAIN toHost' => toHost'[k] = f)
    BY <1>5, PostFacts
  <1>7. GateInv' BY <1>1, <1>2, <1>3, <1>4, <1>5, <1>6, HandlerStill, GateKeeps
  <1>8. ToolInv' BY <1>1, <1>2, <1>3, <1>4, <1>5, <1>6, HandlerStill, ToolKeeps
  <1>9. ASSUME Alive' PROVE HandshakeInv'
    <2>1. HandshakeInv /\ host' = host BY <1>2, <1>9, HandlerStill
    <2>2. CASE /\ pane'.initialized = u.initialized /\ pane'.initializing = u.initializing
               /\ pane'.generation = u.generation /\ toHost' = toHost
      <3>1. Embeds(toHost', toHost, 0) /\ 0 \notin DOMAIN toHost' BY <1>1, <2>2, UnreadFacts
      <3> QED BY <1>3, <2>1, <2>2, <3>1, InitKeeps
    <2>3. ASSUME ~u.initialized, ~u.initializing, ~pane'.initialized,
                 pane'.initializing = CanPost, NEW e \in Frames, Post(e),
                 e.method = "initialize", e.generation = pane'.generation
          PROVE  HandshakeInv'
      <3>1. \A i \in DOMAIN toHost : toHost[i].method # "initialize"
        BY <2>1, <2>3 DEF HandshakeInv, InitFrames
      <3>2. \A i \in DOMAIN toUi : ~IsAnswer(toUi[i], session)
        BY <2>1, <2>3 DEF HandshakeInv, InitAnswers
      <3>3. \A i \in DOMAIN toUi' : ~IsAnswer(toUi'[i], session)
        <4>1. ASSUME NEW i \in DOMAIN toUi' PROVE ~IsAnswer(toUi'[i], session)
          <5>1. PICK x \in DOMAIN toUi : toUi'[i] = toUi[x] BY <4>1, OneEmbeds
          <5> QED BY <3>2, <5>1
        <4> QED BY <4>1
      <3>4. InitFrames(toHost', pane')
        <4>1. CASE CanPost
          <5>1. toHost' = Append(toHost, e) BY <2>3, <4>1 DEF Post
          <5>2. toHost \in Seq(Frames) BY <1>1 DEF TalkTypes, FrameTypes
          <5>3. /\ DOMAIN toHost' = DOMAIN toHost \cup {Len(toHost) + 1}
                /\ toHost'[Len(toHost) + 1] = e
                /\ \A i \in DOMAIN toHost : toHost'[i] = toHost[i]
            BY <5>1, <5>2, AppendEmbeds
          <5> QED BY <2>3, <3>1, <4>1, <5>3 DEF InitFrames
        <4>2. CASE ~CanPost
          <5>1. toHost' = toHost BY <2>3, <4>2 DEF Post
          <5> QED BY <3>1, <5>1 DEF InitFrames
        <4> QED BY <4>1, <4>2
      <3>5. Ready(pane', host') BY <2>3 DEF Ready
      <3>6. InitAnswers(toUi', session, pane', host') BY <3>3 DEF InitAnswers
      <3>7. InitOnce(toHost', toUi', session) BY <3>3 DEF InitOnce
      <3> QED BY <1>3, <3>4, <3>5, <3>6, <3>7 DEF HandshakeInv
    <2> QED BY <1>1, <2>2, <2>3, TryFacts
  <1> QED BY <1>7, <1>8, <1>9 DEF IdleInv

LEMMA ConnectedIdle ==
  ASSUME WindowTypes, IdleInv, HandleConnected
  PROVE  IdleInv'
  <1> DEFINE u == [pane EXCEPT !.connected = TRUE]
  <1>1. Receives("Connected") /\ TryInitialize(u) /\ approval' = approval /\ gate' = gate
    BY DEF HandleConnected
  <1>2. /\ u \in Panes /\ u.turn = pane.turn /\ u.initialized = pane.initialized
        /\ u.initializing = pane.initializing /\ u.generation = pane.generation
    BY UiIs, ConnectedIs
  <1> HIDE DEF u
  <1>3. /\ Embeds(toUi', toUi, 0) /\ Keeps(toUi', toUi) /\ 0 \notin DOMAIN toUi'
        /\ M = toUi[1] /\ M.kind = "Connected" /\ Handler
    BY <1>1, TakenIs
  <1>4. ~(IsTool(toUi[1], session) /\ toUi[1].kind = "toolStarted")
    BY <1>3, HeadQuiet DEF ToolKinds
  <1> QED BY <1>1, <1>2, <1>3, <1>4, TryIdle

LEMMA ContextIdle ==
  ASSUME WindowTypes, IdleInv, UpdateAssistantContext, at' = "idle"
  PROVE  IdleInv'
  <1> DEFINE b == snapshot.running
             c == snapshot.project
             u == [pane EXCEPT !.mcpReady = b, !.project = c]
  <1>1. TryInitialize(u) /\ approval' = approval /\ gate' = gate /\ toUi' = toUi /\ Handler
    BY DEF UpdateAssistantContext, BeginStop
  <1>2. /\ u \in Panes /\ u.turn = pane.turn /\ u.initialized = pane.initialized
        /\ u.initializing = pane.initializing /\ u.generation = pane.generation
    <2>1. b \in BOOLEAN /\ c \in Projects BY Shape DEF Snapshots
    <2>2. pane \in Panes BY UiIs
    <2> HIDE DEF b, c
    <2> QED BY <2>1, <2>2, RefreshedIs
  <1> HIDE DEF u
  <1>3. Embeds(toUi', toUi, 0) /\ KeepsAll(toUi', toUi) /\ 0 \notin DOMAIN toUi'
    BY <1>1, Shape, UnsaidFacts
  <1> QED BY <1>1, <1>2, <1>3, TryIdle

\* The answer to a request to initialize is the only one, and no request is left.
LEMMA AnswerIdle ==
  ASSUME WindowTypes, IdleInv, NEW c \in AnswerKinds, Receives(c), NEW b \in BOOLEAN,
         pane' = [pane EXCEPT !.initializing = FALSE, !.initialized = b],
         b => c = "initialized", approval' = approval, gate' = gate, toHost' = toHost
  PROVE  IdleInv'
  <1>1. GateInv /\ (Alive => HandshakeInv) /\ ToolInv BY DEF IdleInv
  <1>2. /\ TalkTypes /\ drawn \subseteq Turns
        /\ Embeds(toUi', toUi, 0) /\ Keeps(toUi', toUi) /\ 0 \notin DOMAIN toUi'
        /\ M = toUi[1] /\ M.kind = c /\ session' = session /\ drawn' = drawn /\ Handler
        /\ 1 \in DOMAIN toUi /\ M.session = session
        /\ \A i \in DOMAIN toUi' :
             i + 1 \in DOMAIN toUi /\ toUi'[i] = toUi[i + 1] /\ i + 1 # 1
    BY TakenIs
  <1>3. ~(IsTool(toUi[1], session) /\ toUi[1].kind = "toolStarted")
    BY <1>2, HeadQuiet DEF ToolKinds, AnswerKinds
  <1>4. Embeds(toHost', toHost, 0) /\ 0 \notin DOMAIN toHost' BY <1>2, UnreadFacts
  <1>5. /\ pane'.turn = pane.turn /\ pane'.initialized = b
        /\ pane'.initializing = FALSE /\ pane'.generation = pane.generation
    BY UiIs, AnsweredIs
  <1>6. GateInv' BY <1>1, <1>2, <1>4, <1>5, HandlerStill, GateKeeps
  <1>7. ToolInv' BY <1>1, <1>2, <1>3, <1>4, <1>5, HandlerStill, ToolKeeps
  <1>8. ASSUME Alive' PROVE HandshakeInv'
    <2>1. HandshakeInv /\ host' = host BY <1>1, <1>2, <1>8, HandlerStill
    <2>2. IsAnswer(toUi[1], session) /\ (b => toUi[1].kind = "initialized")
      BY <1>2 DEF IsAnswer
    <2>3. /\ toUi[1].kind = "initialized" =>
               host.initialized /\ host.generation = pane.generation
          /\ \A j \in DOMAIN toUi : IsAnswer(toUi[j], session) => 1 = j
      BY <1>2, <2>1, <2>2 DEF HandshakeInv, InitAnswers
    <2>4. \A j \in DOMAIN toHost : toHost[j].method # "initialize"
      BY <1>2, <2>1, <2>2 DEF HandshakeInv, InitOnce
    <2>5. \A i \in DOMAIN toUi' : ~IsAnswer(toUi'[i], session) BY <1>2, <2>3
    <2>6. Ready(pane', host') BY <1>5, <2>1, <2>2, <2>3 DEF Ready
    <2>7. InitFrames(toHost', pane') BY <2>4 DEF InitFrames
    <2>8. InitAnswers(toUi', session, pane', host') BY <2>5 DEF InitAnswers
    <2>9. InitOnce(toHost', toUi', session) BY <2>5 DEF InitOnce
    <2> QED BY <1>2, <2>6, <2>7, <2>8, <2>9 DEF HandshakeInv
  <1> QED BY <1>6, <1>7, <1>8 DEF IdleInv

\* The turn of the window is over: its approvals are forgotten with it.
LEMMA ToolClears ==
  ASSUME TalkTypes, drawn \subseteq Turns, ToolInv, NEW l, Embeds(toUi', toUi, l),
         l \notin DOMAIN toUi', toHost' = toHost, session' = session, pane'.turn = NoTurn,
         approval' = NoApprovals, UNCHANGED <<phase, slot, call>>
  PROVE  ToolInv'
  <1>1. FrameTypes(toHost, drawn) /\ MessageTypes(toUi, session, drawn) BY DEF TalkTypes
  <1>2. \A a \in Approvals : approval'[a] = "none" BY DEF NoApprovals
  <1>3. Asked(approval', pane'.turn, phase', slot', call') BY <1>2 DEF Asked
  <1>4. Known(toUi', session, phase', slot', call') BY KnownEmbed DEF ToolInv
  <1>5. Ordered(toUi', session) BY OrderedEmbed DEF ToolInv
  <1>6. Fits(toUi', session, pane'.turn, approval')
    <2>1. ASSUME NEW i \in DOMAIN toUi', IsTool(toUi'[i], session), toUi'[i].turn = NoTurn
          PROVE  FALSE
      <3>1. PICK x \in DOMAIN toUi : toUi'[i] = toUi[x] BY <2>1, OneEmbeds
      <3>2. toUi[x].turn # NoTurn BY <1>1, <2>1, <3>1, TurnOfMessage
      <3> QED BY <2>1, <3>1, <3>2
    <2> QED BY <2>1 DEF Fits
  <1>7. Decided(toHost', pane'.turn, approval')
    <2>1. \A i \in DOMAIN toHost : toHost[i].method = "respond" => toHost[i].turn # NoTurn
      BY <1>1, TurnOfFrame
    <2> QED BY <2>1 DEF Decided
  <1>8. DecidedOnce(toHost') /\ Undecided(toHost', phase', slot', call') BY DEF ToolInv
  <1>9. Unheard(toHost', toUi', session)
    <2>1. Unheard(toHost, toUi, session) BY DEF ToolInv
    <2>2. ASSUME NEW i \in DOMAIN toUi', NEW j \in DOMAIN toHost, IsTool(toUi'[i], session),
                 toHost[j].method = "respond", OfCall(toUi'[i]) = OfCall(toHost[j])
          PROVE  toUi'[i].kind = "approvalRequired"
      <3>1. PICK x \in DOMAIN toUi : toUi'[i] = toUi[x] BY <2>2, OneEmbeds
      <3> QED BY <2>1, <2>2, <3>1 DEF Unheard
    <2> QED BY <2>2 DEF Unheard
  <1>10. CallFits(toUi', session, slot', call', pane'.turn, approval') BY DEF CallFits
  <1> QED BY <1>3, <1>4, <1>5, <1>6, <1>7, <1>8, <1>9, <1>10 DEF ToolInv

\* ChatHost does not work on the turn, and nothing more of it is on the way.
LEMMA GateOpens ==
  ASSUME GateInv, NEW l, Embeds(toUi', toUi, l), l \notin DOMAIN toUi', toHost' = toHost,
         session' = session, pane'.turn = NoTurn, Alive' = Alive,
         UNCHANGED <<phase, slot, report, call>>, ~Active,
         Alive => /\ \A i \in DOMAIN toHost : toHost[i].method # "sendTurn"
                  /\ \A i \in DOMAIN toUi' : ~IsRefusal(toUi'[i], session)
  PROVE  GateInv'
  <1>1. Active' = Active BY DEF Active
  <1>2. Ends(toUi', session, phase', slot', Active')
    <2>1. Ends(toUi, session, phase, slot, Active) BY DEF GateInv
    <2> QED BY <1>1, <2>1, EndsEmbed
  <1>3. Downs(toUi', session, Alive')
    <2>1. Downs(toUi, session, Alive) BY DEF GateInv
    <2> QED BY <2>1, DownsEmbed
  <1>4. ASSUME Alive'
        PROVE  /\ TurnFrames(toHost', pane'.turn, phase')
               /\ Refusals(toUi', session, pane'.turn, phase')
               /\ RefusedOnce(toHost', toUi', session)
    <2>1. /\ \A i \in DOMAIN toHost' : toHost'[i].method # "sendTurn"
          /\ \A i \in DOMAIN toUi' : ~IsRefusal(toUi'[i], session)
      BY <1>4
    <2> QED BY <2>1 DEF TurnFrames, Refusals, RefusedOnce
  <1> QED BY <1>1, <1>2, <1>3, <1>4 DEF GateInv

\* A turn that is over leaves the initialization alone.
LEMMA OverIdle ==
  ASSUME WindowTypes, IdleInv, NEW c \in Kinds \ ToolKinds, Receives(c), ~Active,
         pane'.turn = NoTurn, approval' = NoApprovals, toHost' = toHost,
         Alive => /\ pane'.initialized = pane.initialized
                  /\ pane'.initializing = pane.initializing
                  /\ pane'.generation = pane.generation
                  /\ \A i \in DOMAIN toHost : toHost[i].method # "sendTurn"
                  /\ \A i \in DOMAIN toUi' : ~IsRefusal(toUi'[i], session)
  PROVE  IdleInv'
  <1>1. GateInv /\ (Alive => HandshakeInv) /\ ToolInv BY DEF IdleInv
  <1>2. /\ TalkTypes /\ drawn \subseteq Turns
        /\ Embeds(toUi', toUi, 0) /\ 0 \notin DOMAIN toUi'
        /\ session' = session /\ drawn' = drawn /\ Handler
    BY TakenIs
  <1>3. UNCHANGED <<phase, slot, report, call, host>> /\ Alive' = Alive
    BY <1>2 DEF Handler, hostVars, Alive
  <1>4. GateInv' BY <1>1, <1>2, <1>3, GateOpens
  <1>5. ToolInv' BY <1>1, <1>2, <1>3, ToolClears
  <1>6. Embeds(toHost', toHost, 0) /\ 0 \notin DOMAIN toHost' BY <1>2, UnreadFacts
  <1>7. ASSUME Alive' PROVE HandshakeInv'
    <2>1. HandshakeInv BY <1>1, <1>3, <1>7
    <2> QED BY <1>2, <1>3, <1>6, <1>7, <2>1, InitKeeps
  <1> QED BY <1>4, <1>5, <1>7 DEF IdleInv

LEMMA OverPane ==
  ASSUME WindowTypes, TurnOver
  PROVE  /\ pane'.turn = NoTurn /\ approval' = NoApprovals
         /\ pane'.initialized = pane.initialized /\ pane'.initializing = pane.initializing
         /\ pane'.generation = pane.generation
  <1> DEFINE v == Finished(pane)
  <1>1. /\ v \in Panes /\ v.initialized = pane.initialized
        /\ v.initializing = pane.initializing /\ v.generation = pane.generation
    BY UiIs, FinishedIs
  <1>2. pane' = [v EXCEPT !.turn = NoTurn, !.stopButton = FALSE] /\ approval' = NoApprovals
    BY DEF TurnOver, FinishTurnUi
  <1> HIDE DEF v
  <1> QED BY <1>1, <1>2, OverIs

LEMMA DownIdle ==
  ASSUME WindowTypes, HostInv, IdleInv, HandleDown
  PROVE  IdleInv'
  <1>1. PICK c \in {"Failed", "Stopped"} : Receives(c) BY DEF HandleDown
  <1>2. c \in Kinds \ ToolKinds BY DEF Kinds, ToolKinds
  <1>3. M = toUi[1] /\ M.kind = c /\ M.session = session /\ 1 \in DOMAIN toUi BY <1>1, TakenIs
  <1>4. ~Alive
    <2>1. Downs(toUi, session, Alive) BY DEF IdleInv, GateInv
    <2> QED BY <1>3, <2>1 DEF Downs
  <1>5. ~Active
    <2>1. slot = NoTurn BY <1>4 DEF HostInv, Alive
    <2> QED BY <2>1 DEF Active
  <1>6. pane'.turn = NoTurn
    <2> DEFINE v == Finished(pane)
    <2>1. v \in Panes BY UiIs, FinishedIs
    <2>2. pane' = [v EXCEPT !.connected = FALSE, !.initializing = FALSE,
                            !.initialized = FALSE, !.turn = NoTurn, !.stopButton = FALSE]
      BY DEF HandleDown
    <2> HIDE DEF v
    <2> QED BY <2>1, <2>2, DownIs
  <1>7. approval' = NoApprovals /\ toHost' = toHost BY DEF HandleDown, FinishTurnUi
  <1> QED BY <1>1, <1>2, <1>4, <1>5, <1>6, <1>7, OverIdle

LEMMA TurnErrorIdle ==
  ASSUME WindowTypes, HostInv, IdleInv, HandleTurnError
  PROVE  IdleInv'
  <1>1. Receives("turnError") /\ TurnOver /\ toHost' = toHost BY DEF HandleTurnError
  <1>2. "turnError" \in Kinds \ ToolKinds BY DEF Kinds, ToolKinds
  <1>3. /\ M = toUi[1] /\ M.kind = "turnError" /\ M.session = session /\ 1 \in DOMAIN toUi
        /\ \A i \in DOMAIN toUi' :
             i + 1 \in DOMAIN toUi /\ toUi'[i] = toUi[i + 1] /\ i + 1 # 1
    BY <1>1, TakenIs
  <1>4. IsRefusal(toUi[1], session) BY <1>3 DEF IsRefusal
  <1>5. ASSUME Alive
        PROVE  /\ \A i \in DOMAIN toHost : toHost[i].method # "sendTurn"
               /\ \A i \in DOMAIN toUi' : ~IsRefusal(toUi'[i], session)
               /\ phase[pane.turn] = "idle"
    <2>1. Refusals(toUi, session, pane.turn, phase) /\ RefusedOnce(toHost, toUi, session)
      BY <1>5 DEF IdleInv, GateInv
    <2> QED BY <1>3, <1>4, <2>1 DEF Refusals, RefusedOnce
  <1>6. ~Active
    <2>1. ASSUME Active PROVE FALSE
      <3>1. slot = pane.turn /\ slot # NoTurn BY <2>1 DEF IdleInv, GateInv, Active
      <3>2. Alive /\ phase[slot] # "idle" BY <3>1 DEF HostInv, Alive
      <3> QED BY <1>5, <3>1, <3>2
    <2> QED BY <2>1
  <1> QED BY <1>1, <1>2, <1>5, <1>6, OverPane, OverIdle

LEMMA EndIdle ==
  ASSUME WindowTypes, HostInv, IdleInv, HandleEnd
  PROVE  IdleInv'
  <1>1. PICK c \in EndKinds : Receives(c) BY DEF HandleEnd, EndKinds
  <1>2. c \in Kinds \ ToolKinds BY DEF EndKinds, Kinds, ToolKinds
  <1>3. /\ M = toUi[1] /\ M.kind = c /\ M.session = session /\ 1 \in DOMAIN toUi
        /\ Embeds(toUi', toUi, 0) /\ Keeps(toUi', toUi) /\ 0 \notin DOMAIN toUi'
        /\ session' = session /\ drawn' = drawn /\ Handler /\ TalkTypes
    BY <1>1, TakenIs
  <1>4. toHost' = toHost BY DEF HandleEnd
  <1>5. CASE Current
    <2>1. TurnOver BY <1>5 DEF HandleEnd
    <2>2. IsEnd(toUi[1], session) BY <1>3 DEF IsEnd
    <2>3. toUi[1].turn = pane.turn BY <1>3, <1>5 DEF Current
    <2>4. phase[pane.turn] # "idle" /\ (pane.turn = slot => ~Active)
      BY <1>3, <2>2, <2>3 DEF IdleInv, GateInv, Ends
    <2>5. ~Active BY <2>4 DEF IdleInv, GateInv
    <2>6. ASSUME Alive
          PROVE  /\ \A i \in DOMAIN toHost : toHost[i].method # "sendTurn"
                 /\ \A i \in DOMAIN toUi : ~IsRefusal(toUi[i], session)
      BY <2>4, <2>6 DEF IdleInv, GateInv, TurnFrames, Refusals
    <2>7. Alive => \A i \in DOMAIN toUi' : ~IsRefusal(toUi'[i], session)
      <3>1. ASSUME Alive, NEW i \in DOMAIN toUi' PROVE ~IsRefusal(toUi'[i], session)
        <4>1. PICK x \in DOMAIN toUi : toUi'[i] = toUi[x] BY <1>3, <3>1, OneEmbeds
        <4> QED BY <2>6, <3>1, <4>1
      <3> QED BY <3>1
    <2> QED BY <1>1, <1>2, <1>4, <2>1, <2>5, <2>6, <2>7, OverPane, OverIdle
  <1>6. CASE ~Current
    <2>1. pane' = pane /\ approval' = approval /\ gate' = gate BY <1>6 DEF HandleEnd
    <2>2. ~(IsTool(toUi[1], session) /\ toUi[1].kind = "toolStarted")
      BY <1>2, <1>3, HeadQuiet
    <2>3. Embeds(toHost', toHost, 0) /\ 0 \notin DOMAIN toHost' BY <1>3, <1>4, UnreadFacts
    <2> QED BY <1>3, <2>1, <2>2, <2>3, HandlerStill, IdleKeeps
  <1> QED BY <1>5, <1>6
-----------------------------------------------------------------------------
(* Approvals and their calls.                                              *)

LEMMA ApprovalIs ==
  ASSUME NEW a \in Approvals
  PROVE  /\ a = <<a[1], a[2]>> /\ a[1] \in Turns /\ a[1] # NoTurn /\ a[2] \in 1 .. MaxCalls
         /\ a[2] \in Nat /\ a[2] # 0
  <1>1. a = <<a[1], a[2]>> /\ a[1] \in Turns /\ a[2] \in 1 .. MaxCalls BY DEF Approvals
  <1> QED BY <1>1, WindowAssumption

LEMMA OfCallIs ==
  ASSUME NEW m, NEW a \in Approvals
  PROVE  /\ OfCall(m) = a => m.turn = a[1] /\ m.call = a[2]
         /\ m.turn = a[1] /\ m.call = a[2] => OfCall(m) = a
  BY ApprovalIs DEF OfCall

\* The call that was decided or runs has a card.
LEMMA DecidedCall ==
  ASSUME WindowTypes, CallNumbered, slot # NoTurn, call.at \in {"allowed", "denied", "started"}
  PROVE  <<slot, call.count>> \in Approvals
  <1>1. slot \in Turns /\ call.count \in 0..MaxCalls BY Shape DEF Calls
  <1>2. call.count # 0 BY DEF CallNumbered
  <1>3. call.count \in 1 .. MaxCalls BY <1>1, <1>2, WindowAssumption
  <1> QED BY <1>1, <1>3 DEF Approvals

\* The card of a call that was not decided yet is shown, allowed or closed.
LEMMA CardDecided ==
  ASSUME WindowTypes, CallNumbered, ToolInv, NEW a \in Approvals, a[1] = pane.turn,
         approval[a] \in {"none", "pending"}, phase[a[1]] # "idle",
         a[1] = slot => a[2] <= call.count,
         NEW x \in {"pending", "closed", "allowed"}, approval' = [approval EXCEPT ![a] = x],
         NEW k, Embeds(toHost', toHost, k),
         k \in DOMAIN toHost' =>
           /\ toHost'[k].method = "respond" /\ toHost'[k].turn = a[1] /\ toHost'[k].call = a[2]
           /\ x = IF toHost'[k].allow THEN "allowed" ELSE "closed",
         Embeds(toUi', toUi, 0), 0 \notin DOMAIN toUi',
         \A i \in DOMAIN toUi' : IsTool(toUi'[i], session) => OfCall(toUi'[i]) # a,
         \/ KeepsAll(toUi', toUi)
         \/ Keeps(toUi', toUi) /\ ~(IsTool(toUi[1], session) /\ toUi[1].kind = "toolStarted"),
         session' = session, pane'.turn = pane.turn, UNCHANGED <<phase, slot, call>>
  PROVE  ToolInv'
  <1>1. /\ FrameTypes(toHost, drawn) /\ MessageTypes(toUi, session, drawn)
        /\ drawn \subseteq Turns /\ approval \in [Approvals -> CardStates] /\ call \in Calls
    BY Shape
  <1>2. approval'[a] = x /\ \A c \in Approvals : c # a => approval'[c] = approval[c]
    BY <1>1
  <1>3. a[1] # NoTurn /\ a[2] \in Nat BY ApprovalIs
  <1>4. ASSUME NEW j \in DOMAIN toHost, toHost[j].method = "respond" PROVE OfCall(toHost[j]) # a
    <2>1. ASSUME OfCall(toHost[j]) = a PROVE FALSE
      <3>1. toHost[j].turn = pane.turn BY <2>1, OfCallIs
      <3>2. approval[a] = IF toHost[j].allow THEN "allowed" ELSE "closed"
        BY <1>4, <2>1, <3>1 DEF ToolInv, Decided
      <3> QED BY <3>2
    <2> QED BY <2>1
  <1>5. slot # NoTurn /\ <<slot, call.count>> = a => call.at \notin {"allowed", "denied", "started"}
    <2>1. ASSUME slot # NoTurn, <<slot, call.count>> = a
          PROVE  call.at \notin {"allowed", "denied", "started"}
      <3>1. slot = pane.turn BY <2>1
      <3>2. /\ call.at = "allowed" => approval[a] = "allowed"
            /\ call.at = "denied" => approval[a] = "closed"
            /\ call.at = "started" => Runs(toUi, session, approval, a)
        BY <2>1, <3>1 DEF ToolInv, CallFits
      <3> QED BY <3>2 DEF Runs
    <2> QED BY <2>1
  <1>6. ASSUME k \in DOMAIN toHost', toHost'[k].method = "respond"
        PROVE  OfCall(toHost'[k]) = a
    BY <1>6, OfCallIs
  <1>7. Asked(approval', pane'.turn, phase', slot', call')
    <2>1. Asked(approval, pane.turn, phase, slot, call) BY DEF ToolInv
    <2>2. ASSUME NEW c \in Approvals, approval'[c] # "none"
          PROVE  c[1] = pane.turn /\ phase[c[1]] # "idle" /\ (c[1] = slot => c[2] <= call.count)
      <3>1. CASE c = a BY <3>1
      <3>2. CASE c # a BY <1>2, <2>1, <2>2, <3>2 DEF Asked
      <3> QED BY <3>1, <3>2
    <2> QED BY <2>2 DEF Asked
  <1>8. Known(toUi', session, phase, slot, call) BY KnownEmbed DEF ToolInv
  <1>9. Ordered(toUi', session) BY OrderedEmbed DEF ToolInv
  <1>10. \A c : Announced(toUi, session, c) => Announced(toUi', session, c)
    BY AnnouncedStays
  <1>11. Fits(toUi', session, pane.turn, approval')
    <2>1. ASSUME NEW i \in DOMAIN toUi', IsTool(toUi'[i], session), toUi'[i].turn = pane.turn
          PROVE  FitsIn(toUi'[i], toUi', session, approval')
      <3> DEFINE m == toUi'[i]
      <3>1. i # 0 OBVIOUS
      <3>2. PICK y \in DOMAIN toUi : m = toUi[y] BY <3>1, OneEmbeds
      <3>3. FitsIn(m, toUi, session, approval) BY <2>1, <3>2 DEF ToolInv, Fits, FitsIn
      <3>4. OfCall(m) \in Approvals BY <1>1, <2>1, <3>2, TurnOfMessage
      <3>5. OfCall(m) # a BY <2>1
      <3>6. approval'[OfCall(m)] = approval[OfCall(m)] BY <1>2, <3>4, <3>5
      <3>7. Announced(toUi, session, OfCall(m)) => Announced(toUi', session, OfCall(m))
        BY <1>10
      <3> HIDE DEF m
      <3>8. FitsIn(m, toUi', session, approval') BY <3>3, <3>6, <3>7 DEF FitsIn, Runs
      <3> QED BY <3>8 DEF m
    <2> QED BY <2>1 DEF Fits, FitsIn
  <1>12. Decided(toHost', pane.turn, approval')
    <2>1. Decided(toHost, pane.turn, approval')
      <3>1. ASSUME NEW j \in DOMAIN toHost, toHost[j].method = "respond", toHost[j].turn = pane.turn
            PROVE  approval'[OfCall(toHost[j])] = IF toHost[j].allow THEN "allowed" ELSE "closed"
        <4>1. approval[OfCall(toHost[j])] = IF toHost[j].allow THEN "allowed" ELSE "closed"
          BY <3>1 DEF ToolInv, Decided
        <4>2. OfCall(toHost[j]) \in Approvals BY <1>1, <3>1, TurnOfFrame
        <4> QED BY <1>2, <1>4, <3>1, <4>1, <4>2
      <3> QED BY <3>1 DEF Decided
    <2> QED BY <1>2, <1>6, <2>1, DecidedEmbed
  <1>13. DecidedOnce(toHost') BY <1>4, <1>6, DecidedOnceEmbed DEF ToolInv
  <1>14. Undecided(toHost', phase, slot, call)
    <2>1. Undecided(toHost, phase, slot, call) BY DEF ToolInv
    <2>2. a[1] = slot => \/ a[2] < call.count
                         \/ a[2] = call.count /\ call.at \notin {"allowed", "denied", "started"}
      <3>1. ASSUME a[1] = slot, ~(a[2] < call.count)
            PROVE  a[2] = call.count /\ call.at \notin {"allowed", "denied", "started"}
        <4>1. call.count \in Nat BY <1>1 DEF Calls
        <4>2. a[2] = call.count BY <1>3, <3>1, <4>1
        <4>3. <<slot, call.count>> = a BY <3>1, <4>2, ApprovalIs
        <4> QED BY <1>3, <1>5, <3>1, <4>2, <4>3
      <3> QED BY <3>1
    <2> QED BY <2>1, <2>2, UndecidedEmbed
  <1>15. Unheard(toHost', toUi', session)
    <2>1. Unheard(toHost, toUi, session) BY DEF ToolInv
    <2> QED BY <1>6, <2>1, UnheardEmbed
  <1>16. CallFits(toUi', session, slot, call, pane.turn, approval')
    <2>1. ASSUME slot # NoTurn, slot = pane.turn
          PROVE  /\ call.at = "allowed" => approval'[<<slot, call.count>>] = "allowed"
                 /\ call.at = "denied" => approval'[<<slot, call.count>>] = "closed"
                 /\ call.at = "started" =>
                      Runs(toUi', session, approval', <<slot, call.count>>)
      <3>1. CASE call.at \in {"allowed", "denied", "started"}
        <4>1. <<slot, call.count>> \in Approvals BY <2>1, <3>1, DecidedCall
        <4>2. <<slot, call.count>> # a BY <1>5, <2>1, <3>1
        <4>3. approval'[<<slot, call.count>>] = approval[<<slot, call.count>>]
          BY <1>2, <4>1, <4>2
        <4>4. /\ call.at = "allowed" => approval[<<slot, call.count>>] = "allowed"
              /\ call.at = "denied" => approval[<<slot, call.count>>] = "closed"
              /\ call.at = "started" => Runs(toUi, session, approval, <<slot, call.count>>)
          BY <2>1 DEF ToolInv, CallFits
        <4>5. Runs(toUi, session, approval, <<slot, call.count>>) =>
                Runs(toUi', session, approval', <<slot, call.count>>)
          BY <1>10, <4>3 DEF Runs
        <4> QED BY <4>3, <4>4, <4>5
      <3>2. CASE call.at \notin {"allowed", "denied", "started"} BY <3>2
      <3> QED BY <3>1, <3>2
    <2> QED BY <2>1 DEF CallFits
  <1> QED BY <1>7, <1>8, <1>9, <1>11, <1>12, <1>13, <1>14, <1>15, <1>16 DEF ToolInv

LEMMA RankIs ==
  /\ Rank("approvalRequired") = 1 /\ Rank("toolStarted") = 2 /\ Rank("toolCompleted") = 3
  /\ Told("none") = 3 /\ Told("failing") = 3 /\ Told("started") = 2
  /\ Told("asked") = 1 /\ Told("allowed") = 1 /\ Told("denied") = 1
  BY DEF Rank, Told

\* The card of the call the head of the queue is about goes on.
LEMMA CardMoves ==
  ASSUME WindowTypes, CallNumbered, ToolInv, NEW c \in {"toolStarted", "toolCompleted"},
         NEW a \in Approvals, 1 \in DOMAIN toUi, IsTool(toUi[1], session), toUi[1].kind = c,
         OfCall(toUi[1]) = a, toUi[1].turn = a[1], a[1] = pane.turn, approval[a] # "none",
         c = "toolStarted" => approval[a] = "allowed",
         approval' = [approval EXCEPT ![a] = IF c = "toolStarted" THEN "started" ELSE "ended"],
         Embeds(toUi', toUi, 0), Keeps(toUi', toUi), 0 \notin DOMAIN toUi',
         \A i \in DOMAIN toUi' :
           i + 1 \in DOMAIN toUi /\ toUi'[i] = toUi[i + 1] /\ 1 < i + 1,
         toHost' = toHost, session' = session, pane'.turn = pane.turn,
         UNCHANGED <<phase, slot, call>>
  PROVE  ToolInv'
  <1>1. /\ FrameTypes(toHost, drawn) /\ MessageTypes(toUi, session, drawn)
        /\ drawn \subseteq Turns /\ approval \in [Approvals -> CardStates] /\ call \in Calls
    BY Shape
  <1>2. /\ approval'[a] = IF c = "toolStarted" THEN "started" ELSE "ended"
        /\ \A d \in Approvals : d # a => approval'[d] = approval[d]
    BY <1>1
  <1>3. \A d : d # a /\ Announced(toUi, session, d) => Announced(toUi', session, d)
    BY AnnouncedStays
  <1>4. Asked(approval', pane'.turn, phase', slot', call')
    <2>1. Asked(approval, pane.turn, phase, slot, call) BY DEF ToolInv
    <2>2. \A d \in Approvals : approval'[d] # "none" => approval[d] # "none" BY <1>2
    <2> QED BY <2>1, <2>2 DEF Asked
  <1>5. Known(toUi', session, phase, slot, call) BY KnownEmbed DEF ToolInv
  <1>6. Ordered(toUi', session) BY OrderedEmbed DEF ToolInv
  <1>7. Fits(toUi', session, pane.turn, approval')
    <2>1. ASSUME NEW i \in DOMAIN toUi', IsTool(toUi'[i], session), toUi'[i].turn = pane.turn
          PROVE  FitsIn(toUi'[i], toUi', session, approval')
      <3> DEFINE m == toUi'[i]
      <3>1. i + 1 \in DOMAIN toUi /\ m = toUi[i + 1] /\ 1 < i + 1 OBVIOUS
      <3>2. FitsIn(m, toUi, session, approval) BY <2>1, <3>1 DEF ToolInv, Fits, FitsIn
      <3>3. OfCall(m) \in Approvals /\ m.kind \in ToolKinds
        BY <1>1, <2>1, <3>1, TurnOfMessage DEF IsTool
      <3>4. OfCall(m) = a => Rank(c) < Rank(m.kind)
        BY <2>1, <3>1 DEF ToolInv, Ordered
      <3> HIDE DEF m
      <3>5. ASSUME OfCall(m) = a PROVE FitsIn(m, toUi', session, approval')
        <4>1. c = "toolStarted" /\ m.kind = "toolCompleted"
          BY <3>3, <3>4, <3>5, RankIs DEF ToolKinds
        <4>2. m.status # "denied" BY <3>2, <3>5, <4>1 DEF FitsIn
        <4>3. approval'[a] = "started" BY <1>2, <4>1
        <4> QED BY <3>5, <4>1, <4>2, <4>3 DEF FitsIn, Runs
      <3>6. ASSUME OfCall(m) # a PROVE FitsIn(m, toUi', session, approval')
        <4>1. approval'[OfCall(m)] = approval[OfCall(m)] BY <1>2, <3>3, <3>6
        <4>2. Runs(toUi, session, approval, OfCall(m)) => Runs(toUi', session, approval', OfCall(m))
          BY <1>3, <3>6, <4>1 DEF Runs
        <4> QED BY <3>2, <4>1, <4>2 DEF FitsIn
      <3>7. FitsIn(m, toUi', session, approval') BY <3>5, <3>6
      <3> QED BY <3>7 DEF m
    <2> QED BY <2>1 DEF Fits, FitsIn
  <1>8. Decided(toHost', pane.turn, approval')
    <2>1. ASSUME NEW j \in DOMAIN toHost, toHost[j].method = "respond", toHost[j].turn = pane.turn
          PROVE  approval'[OfCall(toHost[j])] = IF toHost[j].allow THEN "allowed" ELSE "closed"
      <3>1. approval[OfCall(toHost[j])] = IF toHost[j].allow THEN "allowed" ELSE "closed"
        BY <2>1 DEF ToolInv, Decided
      <3>2. OfCall(toHost[j]) # a BY <2>1 DEF ToolInv, Unheard
      <3>3. OfCall(toHost[j]) \in Approvals BY <1>1, <2>1, TurnOfFrame
      <3> QED BY <1>2, <3>1, <3>2, <3>3
    <2> QED BY <2>1 DEF Decided
  <1>9. DecidedOnce(toHost') /\ Undecided(toHost', phase, slot, call) BY DEF ToolInv
  <1>10. Unheard(toHost', toUi', session)
    <2>1. Unheard(toHost, toUi, session) BY DEF ToolInv
    <2>2. ASSUME NEW i \in DOMAIN toUi', NEW j \in DOMAIN toHost, IsTool(toUi'[i], session),
                 toHost[j].method = "respond", OfCall(toUi'[i]) = OfCall(toHost[j])
          PROVE  toUi'[i].kind = "approvalRequired"
      <3>1. PICK y \in DOMAIN toUi : toUi'[i] = toUi[y] BY <2>2, OneEmbeds
      <3> QED BY <2>1, <2>2, <3>1 DEF Unheard
    <2> QED BY <2>2 DEF Unheard
  <1>11. CallFits(toUi', session, slot, call, pane.turn, approval')
    <2>1. ASSUME slot # NoTurn, slot = pane.turn, call.at \in {"allowed", "denied", "started"}
          PROVE  /\ call.at = "allowed" => approval'[<<slot, call.count>>] = "allowed"
                 /\ call.at = "denied" => approval'[<<slot, call.count>>] = "closed"
                 /\ call.at = "started" =>
                      Runs(toUi', session, approval', <<slot, call.count>>)
      <3>1. <<slot, call.count>> \in Approvals BY <2>1, DecidedCall
      <3>2. /\ call.at = "allowed" => approval[<<slot, call.count>>] = "allowed"
            /\ call.at = "denied" => approval[<<slot, call.count>>] = "closed"
            /\ call.at = "started" => Runs(toUi, session, approval, <<slot, call.count>>)
        BY <2>1 DEF ToolInv, CallFits
      <3>3. CASE <<slot, call.count>> = a
        <4>1. toUi[1].turn = slot /\ toUi[1].call = call.count
          BY <2>1, <3>3, OfCallIs DEF OfCall
        <4>2. toUi[1].call < call.count \/ Rank(c) <= Told(call.at)
          BY <4>1 DEF ToolInv, Known
        <4>3. call.count \in Nat BY <1>1 DEF Calls
        <4>4. Rank(c) <= Told(call.at) BY <4>1, <4>2, <4>3
        <4>5. c = "toolStarted" /\ call.at = "started" BY <2>1, <4>4, RankIs
        <4> QED BY <1>2, <3>3, <4>5 DEF Runs
      <3>4. CASE <<slot, call.count>> # a
        <4>1. approval'[<<slot, call.count>>] = approval[<<slot, call.count>>]
          BY <1>2, <3>1, <3>4
        <4>2. Runs(toUi, session, approval, <<slot, call.count>>) =>
                Runs(toUi', session, approval', <<slot, call.count>>)
          BY <1>3, <3>4, <4>1 DEF Runs
        <4> QED BY <3>2, <4>1, <4>2
      <3> QED BY <3>3, <3>4
    <2> QED BY <2>1 DEF CallFits
  <1> QED BY <1>4, <1>5, <1>6, <1>7, <1>8, <1>9, <1>10, <1>11 DEF ToolInv
\* A card is shown, allowed or closed, and the decision may be posted.
LEMMA CardIdle ==
  ASSUME WindowTypes, CallNumbered, IdleInv, Handler, pane' = pane, gate' = gate,
         NEW a \in Approvals, a[1] = pane.turn, approval[a] \in {"none", "pending"},
         phase[a[1]] # "idle", a[1] = slot => a[2] <= call.count,
         NEW x \in {"pending", "closed", "allowed"}, approval' = [approval EXCEPT ![a] = x],
         NEW k, Embeds(toHost', toHost, k),
         k \in DOMAIN toHost' =>
           /\ toHost'[k].method = "respond" /\ toHost'[k].turn = a[1] /\ toHost'[k].call = a[2]
           /\ x = IF toHost'[k].allow THEN "allowed" ELSE "closed",
         Embeds(toUi', toUi, 0), 0 \notin DOMAIN toUi',
         \A i \in DOMAIN toUi' : IsTool(toUi'[i], session) => OfCall(toUi'[i]) # a,
         \/ KeepsAll(toUi', toUi)
         \/ Keeps(toUi', toUi) /\ ~(IsTool(toUi[1], session) /\ toUi[1].kind = "toolStarted")
  PROVE  IdleInv'
  <1>1. TalkTypes /\ drawn \subseteq Turns BY Shape
  <1>2. GateInv /\ (Alive => HandshakeInv) /\ ToolInv BY DEF IdleInv
  <1>3. /\ session' = session /\ drawn' = drawn /\ host' = host /\ Alive' = Alive
        /\ Active' = Active /\ slot' = slot /\ phase' = phase /\ call' = call
        /\ pane'.turn = pane.turn
    BY HandlerStill
  <1>4. k \in DOMAIN toHost' => /\ toHost'[k].method # "sendTurn"
                                /\ toHost'[k].method # "initialize"
    OBVIOUS
  <1>5. GateInv' BY <1>1, <1>2, <1>3, <1>4, GateKeeps
  <1>6. Alive' => HandshakeInv' BY <1>2, <1>3, <1>4, InitKeeps
  <1>7. ToolInv' BY <1>2, <1>3, CardDecided
  <1> QED BY <1>5, <1>6, <1>7 DEF IdleInv

\* What the head of the queue says of a call.
LEMMA HeadOfCall ==
  ASSUME WindowTypes, ToolInv, NEW c \in ToolKinds, Receives(c)
  PROVE  /\ IsTool(toUi[1], session) /\ toUi[1].kind = c /\ OfCall(toUi[1]) = Entry
         /\ Entry \in Approvals /\ toUi[1].turn = Entry[1] /\ Entry[1] = M.turn /\ Entry[2] = M.call
         /\ phase[Entry[1]] # "idle" /\ (Entry[1] = slot => Entry[2] <= call.count)
         /\ \A i \in DOMAIN toUi' : IsTool(toUi'[i], session) /\ OfCall(toUi'[i]) = Entry =>
              Rank(c) < Rank(toUi'[i].kind)
  <1>1. /\ M = toUi[1] /\ 1 \in DOMAIN toUi /\ M.kind = c /\ M.session = session
        /\ \A i \in DOMAIN toUi' :
             i + 1 \in DOMAIN toUi /\ toUi'[i] = toUi[i + 1] /\ 1 < i + 1
    BY TakenIs
  <1>2. IsTool(toUi[1], session) BY <1>1 DEF IsTool
  <1>3. OfCall(toUi[1]) = Entry BY <1>1 DEF OfCall, Entry
  <1>4. Entry \in Approvals /\ toUi[1].call \in 1 .. MaxCalls
    BY <1>1, <1>2, <1>3, Shape, TurnOfMessage
  <1>5. Entry[1] = M.turn /\ Entry[2] = M.call BY DEF Entry
  <1>6. /\ phase[toUi[1].turn] # "idle"
        /\ toUi[1].turn = slot => toUi[1].call < call.count \/ toUi[1].call = call.count
    BY <1>1, <1>2 DEF ToolInv, Known
  <1>7. call.count \in Nat
    <2>1. call \in Calls BY Shape
    <2> QED BY <2>1, WindowAssumption DEF Calls
  <1>8. toUi[1].call \in Nat BY <1>4, WindowAssumption
  <1>9. Entry[1] = slot => Entry[2] <= call.count BY <1>1, <1>5, <1>6, <1>7, <1>8
  <1>10. ASSUME NEW i \in DOMAIN toUi', IsTool(toUi'[i], session), OfCall(toUi'[i]) = Entry
         PROVE  Rank(c) < Rank(toUi'[i].kind)
    BY <1>1, <1>2, <1>3, <1>10 DEF ToolInv, Ordered
  <1> QED BY <1>1, <1>2, <1>3, <1>4, <1>5, <1>6, <1>9, <1>10

LEMMA ApprovalIdle ==
  ASSUME WindowTypes, HostInv, CallNumbered, IdleInv, HandleApprovalRequired
  PROVE  IdleInv'
  <1>1. Receives("approvalRequired") /\ pane' = pane /\ gate' = gate
    BY DEF HandleApprovalRequired
  <1>2. /\ M = toUi[1] /\ M.kind = "approvalRequired" /\ M.session = session /\ 1 \in DOMAIN toUi
        /\ Embeds(toUi', toUi, 0) /\ Keeps(toUi', toUi) /\ 0 \notin DOMAIN toUi'
        /\ session' = session /\ drawn' = drawn /\ Handler /\ TalkTypes
    BY <1>1, TakenIs
  <1>3. ~(IsTool(toUi[1], session) /\ toUi[1].kind = "toolStarted") BY <1>2
  <1>4. CASE ~(Current /\ approval[Entry] = "none")
    <2>1. approval' = approval /\ toHost' = toHost BY <1>4 DEF HandleApprovalRequired
    <2>2. Embeds(toHost', toHost, 0) /\ 0 \notin DOMAIN toHost' BY <1>2, <2>1, UnreadFacts
    <2> QED BY <1>1, <1>2, <1>3, <2>1, <2>2, HandlerStill, IdleKeeps
  <1>5. CASE Current /\ approval[Entry] = "none"
    <2>1. ToolInv BY DEF IdleInv
    <2>2. "approvalRequired" \in ToolKinds BY DEF ToolKinds
    <2>3. /\ Entry \in Approvals /\ Entry[1] = M.turn /\ Entry[2] = M.call
          /\ phase[Entry[1]] # "idle" /\ (Entry[1] = slot => Entry[2] <= call.count)
          /\ \A i \in DOMAIN toUi' : IsTool(toUi'[i], session) /\ OfCall(toUi'[i]) = Entry =>
               Rank("approvalRequired") < Rank(toUi'[i].kind)
      BY <1>1, <2>1, <2>2, HeadOfCall
    <2>4. Entry[1] = pane.turn BY <1>5, <2>3 DEF Current
    <2>5. ASSUME NEW i \in DOMAIN toUi', IsTool(toUi'[i], session) PROVE OfCall(toUi'[i]) # Entry
      <3>1. ASSUME OfCall(toUi'[i]) = Entry PROVE FALSE
        <4>1. PICK y \in DOMAIN toUi : toUi'[i] = toUi[y] BY <1>2, <2>5, OneEmbeds
        <4> DEFINE m == toUi[y]
        <4>2. m.turn = pane.turn BY <2>3, <2>4, <3>1, <4>1, OfCallIs
        <4>3. FitsIn(m, toUi, session, approval)
          BY <2>1, <2>5, <4>1, <4>2 DEF ToolInv, Fits, FitsIn
        <4>4. Rank("approvalRequired") < Rank(m.kind) BY <2>3, <2>5, <3>1, <4>1
        <4>5. m.kind \in ToolKinds /\ OfCall(m) = Entry BY <2>5, <3>1, <4>1 DEF IsTool
        <4> HIDE DEF m
        <4>6. m.kind \in {"toolStarted", "toolCompleted"}
          BY <4>4, <4>5, RankIs DEF ToolKinds
        <4>7. approval[Entry] # "none" BY <4>3, <4>5, <4>6 DEF FitsIn, Runs
        <4> QED BY <1>5, <4>7
      <3> QED BY <3>1
    <2>6. CASE pane.cancelRequested
      <3> DEFINE t == M.turn
                 n == M.call
                 f == [Request("respond") EXCEPT !.turn = t, !.call = n]
      <3>1. t \in Turns /\ n \in 1 .. MaxCalls BY <2>3, ApprovalIs
      <3>6. t = Entry[1] /\ n = Entry[2] BY <2>3
      <3> HIDE DEF t, n
      <3>7. Decision(f, t, n, FALSE) BY <3>1, RespondIs
      <3>3. Post(f) /\ approval' = [approval EXCEPT ![Entry] = "closed"]
        BY <1>5, <2>6 DEF HandleApprovalRequired, t, n, f
      <3> HIDE DEF f
      <3>2. /\ f \in Frames /\ f.method = "respond" /\ f.turn = t /\ f.call = n
            /\ f.allow = FALSE
        BY <3>7 DEF Decision
      <3>4. PICK k \in Nat : Embeds(toHost', toHost, k) /\ (k \in DOMAIN toHost' => toHost'[k] = f)
        BY <3>2, <3>3, PostFacts
      <3> DEFINE a == Entry
      <3>5. /\ a \in Approvals /\ a[1] = pane.turn /\ approval[a] = "none"
            /\ phase[a[1]] # "idle" /\ (a[1] = slot => a[2] <= call.count)
            /\ approval' = [approval EXCEPT ![a] = "closed"]
            /\ f.turn = a[1] /\ f.call = a[2]
            /\ \A i \in DOMAIN toUi' : IsTool(toUi'[i], session) => OfCall(toUi'[i]) # a
        BY <1>5, <2>3, <2>4, <2>5, <3>2, <3>3, <3>6
      <3> HIDE DEF a
      <3> QED BY <1>1, <1>2, <1>3, <3>2, <3>4, <3>5, CardIdle
    <2>7. CASE ~pane.cancelRequested
      <3>1. toHost' = toHost /\ approval' = [approval EXCEPT ![Entry] = "pending"]
        BY <1>5, <2>7 DEF HandleApprovalRequired
      <3>2. Embeds(toHost', toHost, 0) /\ 0 \notin DOMAIN toHost' BY <1>2, <3>1, UnreadFacts
      <3> DEFINE a == Entry
      <3>3. /\ a \in Approvals /\ a[1] = pane.turn /\ approval[a] = "none"
            /\ phase[a[1]] # "idle" /\ (a[1] = slot => a[2] <= call.count)
            /\ approval' = [approval EXCEPT ![a] = "pending"]
            /\ \A i \in DOMAIN toUi' : IsTool(toUi'[i], session) => OfCall(toUi'[i]) # a
        BY <1>5, <2>3, <2>4, <2>5, <3>1
      <3> HIDE DEF a
      <3> QED BY <1>1, <1>2, <1>3, <3>2, <3>3, CardIdle
    <2> QED BY <2>6, <2>7
  <1> QED BY <1>4, <1>5
\* A message of a tool was taken: the gate and the initialization stay.
LEMMA ToolIdle ==
  ASSUME WindowTypes, IdleInv, NEW c, Receives(c), pane' = pane, gate' = gate,
         toHost' = toHost, ToolInv'
  PROVE  IdleInv'
  <1>1. /\ Embeds(toUi', toUi, 0) /\ 0 \notin DOMAIN toUi' /\ TalkTypes /\ drawn \subseteq Turns
        /\ Handler
    BY TakenIs
  <1>2. GateInv /\ (Alive => HandshakeInv) BY DEF IdleInv
  <1>3. /\ session' = session /\ drawn' = drawn /\ host' = host /\ Alive' = Alive
        /\ Active' = Active /\ slot' = slot /\ phase' = phase
    BY <1>1, HandlerStill
  <1>4. Embeds(toHost', toHost, 0) /\ 0 \notin DOMAIN toHost' BY <1>1, UnreadFacts
  <1>5. GateInv' BY <1>1, <1>2, <1>3, <1>4, GateKeeps
  <1>6. Alive' => HandshakeInv' BY <1>1, <1>2, <1>3, <1>4, InitKeeps
  <1> QED BY <1>5, <1>6 DEF IdleInv

\* The head of the queue is of a turn that is not the window's any more.
LEMMA StrayTool ==
  ASSUME TalkTypes, drawn \subseteq Turns, ToolInv, toUi[1].turn # pane.turn,
         Embeds(toUi', toUi, 0), Keeps(toUi', toUi), 0 \notin DOMAIN toUi',
         toHost' = toHost, session' = session, pane' = pane, approval' = approval,
         UNCHANGED <<phase, slot, call>>
  PROVE  ToolInv'
  <1>1. \A a : a[1] = pane.turn /\ Announced(toUi, session, a) => Announced(toUi', session, a)
    <2>1. ASSUME NEW a, a[1] = pane.turn, Announced(toUi, session, a)
          PROVE  Announced(toUi', session, a)
      <3>1. OfCall(toUi[1]) # a BY <2>1 DEF OfCall
      <3> QED BY <2>1, <3>1, AnnouncedStays
    <2> QED BY <2>1
  <1>2. Asked(approval', pane.turn, phase', slot', call') BY DEF ToolInv
  <1>3. Known(toUi', session, phase, slot, call) BY KnownEmbed DEF ToolInv
  <1>4. Ordered(toUi', session) BY OrderedEmbed DEF ToolInv
  <1>5. Fits(toUi', session, pane.turn, approval)
    <2>1. ASSUME NEW i \in DOMAIN toUi', IsTool(toUi'[i], session), toUi'[i].turn = pane.turn
          PROVE  FitsIn(toUi'[i], toUi', session, approval)
      <3> DEFINE m == toUi'[i]
      <3>1. i # 0 OBVIOUS
      <3>2. PICK y \in DOMAIN toUi : m = toUi[y] BY <3>1, OneEmbeds
      <3>3. FitsIn(m, toUi, session, approval) BY <2>1, <3>2 DEF ToolInv, Fits, FitsIn
      <3>4. OfCall(m)[1] = pane.turn BY <2>1 DEF OfCall
      <3>5. Announced(toUi, session, OfCall(m)) => Announced(toUi', session, OfCall(m))
        BY <1>1, <3>4
      <3> HIDE DEF m
      <3>6. FitsIn(m, toUi', session, approval) BY <3>3, <3>5 DEF FitsIn, Runs
      <3> QED BY <3>6 DEF m
    <2> QED BY <2>1 DEF Fits, FitsIn
  <1>6. Decided(toHost, pane.turn, approval) /\ DecidedOnce(toHost)
        /\ Undecided(toHost, phase, slot, call)
    BY DEF ToolInv
  <1>7. Unheard(toHost, toUi', session)
    <2>1. Unheard(toHost, toUi, session) BY DEF ToolInv
    <2>2. ASSUME NEW i \in DOMAIN toUi', NEW j \in DOMAIN toHost, IsTool(toUi'[i], session),
                 toHost[j].method = "respond", OfCall(toUi'[i]) = OfCall(toHost[j])
          PROVE  toUi'[i].kind = "approvalRequired"
      <3>1. PICK y \in DOMAIN toUi : toUi'[i] = toUi[y] BY <2>2, OneEmbeds
      <3> QED BY <2>1, <2>2, <3>1 DEF Unheard
    <2> QED BY <2>2 DEF Unheard
  <1>8. CallFits(toUi', session, slot, call, pane.turn, approval)
    <2>1. CallFits(toUi, session, slot, call, pane.turn, approval) BY DEF ToolInv
    <2>2. ASSUME slot # NoTurn, slot = pane.turn
          PROVE  Announced(toUi, session, <<slot, call.count>>) =>
                   Announced(toUi', session, <<slot, call.count>>)
      <3> DEFINE a == <<slot, call.count>>
      <3>1. a[1] = pane.turn BY <2>2
      <3> HIDE DEF a
      <3>2. Announced(toUi, session, a) => Announced(toUi', session, a) BY <1>1, <3>1
      <3> QED BY <3>2 DEF a
    <2> QED BY <2>1, <2>2, CallFitsStays
  <1> QED BY <1>2, <1>3, <1>4, <1>5, <1>6, <1>7, <1>8 DEF ToolInv

\* A call the window's turn runs finds its card.
LEMMA CardMovesIdle ==
  ASSUME WindowTypes, CallNumbered, IdleInv, NEW c \in {"toolStarted", "toolCompleted"},
         Receives(c), Current, approval[Entry] # "none",
         c = "toolStarted" => approval[Entry] = "allowed",
         approval' = [approval EXCEPT ![Entry] = IF c = "toolStarted" THEN "started" ELSE "ended"],
         pane' = pane, gate' = gate, toHost' = toHost
  PROVE  IdleInv'
  <1>1. c \in ToolKinds BY DEF ToolKinds
  <1>2. ToolInv BY DEF IdleInv
  <1> DEFINE a == Entry
  <1>3. /\ IsTool(toUi[1], session) /\ toUi[1].kind = c /\ OfCall(toUi[1]) = a
        /\ a \in Approvals /\ toUi[1].turn = a[1] /\ a[1] = M.turn
    BY <1>1, <1>2, HeadOfCall
  <1>4. a[1] = pane.turn BY <1>3 DEF Current
  <1>5. /\ approval[a] # "none" /\ (c = "toolStarted" => approval[a] = "allowed")
        /\ approval' = [approval EXCEPT ![a] = IF c = "toolStarted" THEN "started" ELSE "ended"]
    OBVIOUS
  <1> HIDE DEF a
  <1>6. /\ Embeds(toUi', toUi, 0) /\ Keeps(toUi', toUi) /\ 0 \notin DOMAIN toUi'
        /\ 1 \in DOMAIN toUi /\ Handler
        /\ \A i \in DOMAIN toUi' :
             i + 1 \in DOMAIN toUi /\ toUi'[i] = toUi[i + 1] /\ 1 < i + 1
    BY TakenIs
  <1>7. UNCHANGED <<phase, slot, call>> /\ session' = session /\ pane'.turn = pane.turn
    BY <1>6, HandlerStill
  <1>8. ToolInv' BY ONLY CardMoves, <1>2, <1>3, <1>4, <1>5, <1>6, <1>7, WindowTypes, CallNumbered,
                         c \in {"toolStarted", "toolCompleted"}, toHost' = toHost
  <1> QED BY <1>8, ToolIdle

LEMMA StartedIdle ==
  ASSUME WindowTypes, HostInv, CallNumbered, IdleInv, HandleToolStarted
  PROVE  IdleInv'
  <1>1. Receives("toolStarted") /\ pane' = pane /\ gate' = gate /\ toHost' = toHost
    BY DEF HandleToolStarted
  <1>2. ToolInv BY DEF IdleInv
  <1>3. CASE Current
    <2>1. "toolStarted" \in ToolKinds BY DEF ToolKinds
    <2>2. IsTool(toUi[1], session) /\ toUi[1].kind = "toolStarted" /\ OfCall(toUi[1]) = Entry
      BY <1>1, <1>2, <2>1, HeadOfCall
    <2>3. toUi[1].turn = pane.turn /\ 1 \in DOMAIN toUi BY <1>1, <1>3, TakenIs DEF Current
    <2>4. approval[Entry] = "allowed" BY <1>2, <2>2, <2>3 DEF ToolInv, Fits
    <2>5. approval' = [approval EXCEPT ![Entry] = "started"]
      BY <1>3, <2>4 DEF HandleToolStarted, StartFits
    <2>6. approval[Entry] # "none" BY <2>4
    <2> DEFINE c == "toolStarted"
    <2>7. /\ c \in {"toolStarted", "toolCompleted"} /\ Receives(c)
          /\ c = "toolStarted" => approval[Entry] = "allowed"
          /\ approval' = [approval EXCEPT ![Entry] =
                            IF c = "toolStarted" THEN "started" ELSE "ended"]
      BY <1>1, <2>4, <2>5
    <2> HIDE DEF c
    <2> QED BY <1>1, <1>3, <2>6, <2>7, CardMovesIdle
  <1>4. CASE ~Current
    <2>1. approval' = approval BY <1>4 DEF HandleToolStarted
    <2>2. /\ Embeds(toUi', toUi, 0) /\ Keeps(toUi', toUi) /\ 0 \notin DOMAIN toUi'
          /\ 1 \in DOMAIN toUi /\ Handler /\ TalkTypes /\ drawn \subseteq Turns /\ M = toUi[1]
          /\ M.session = session /\ M.kind = "toolStarted"
      BY <1>1, TakenIs
    <2>3. toUi[1].turn # NoTurn
      <3>1. IsTool(toUi[1], session) BY <2>2 DEF IsTool, ToolKinds
      <3> QED BY <2>2, <3>1, Shape, TurnOfMessage
    <2>4. toUi[1].turn # pane.turn BY <1>4, <2>2, <2>3 DEF Current
    <2>5. UNCHANGED <<phase, slot, call>> /\ session' = session BY <2>2, HandlerStill
    <2>6. ToolInv' BY <1>1, <1>2, <2>1, <2>2, <2>4, <2>5, StrayTool
    <2> QED BY <1>1, <2>6, ToolIdle
  <1> QED BY <1>3, <1>4

LEMMA CompletedIdle ==
  ASSUME WindowTypes, HostInv, CallNumbered, IdleInv, HandleToolCompleted
  PROVE  IdleInv'
  <1>1. Receives("toolCompleted") /\ pane' = pane /\ gate' = gate /\ toHost' = toHost
    BY DEF HandleToolCompleted
  <1>2. CASE Current /\ ResultFits
    <2>1. approval[Entry] # "none" BY <1>2 DEF ResultFits
    <2>2. approval' = [approval EXCEPT ![Entry] = "ended"] BY <1>2 DEF HandleToolCompleted
    <2> DEFINE c == "toolCompleted"
    <2>3. /\ c \in {"toolStarted", "toolCompleted"} /\ Receives(c)
          /\ c = "toolStarted" => approval[Entry] = "allowed"
          /\ approval' = [approval EXCEPT ![Entry] =
                            IF c = "toolStarted" THEN "started" ELSE "ended"]
      BY <1>1, <2>2
    <2> HIDE DEF c
    <2> QED BY <1>1, <1>2, <2>1, <2>3, CardMovesIdle
  <1>3. CASE ~(Current /\ ResultFits)
    <2>1. approval' = approval BY <1>3 DEF HandleToolCompleted
    <2>2. /\ M = toUi[1] /\ M.kind = "toolCompleted" /\ TalkTypes /\ Handler
          /\ Embeds(toUi', toUi, 0) /\ Keeps(toUi', toUi) /\ 0 \notin DOMAIN toUi'
      BY <1>1, TakenIs
    <2>3. ~(IsTool(toUi[1], session) /\ toUi[1].kind = "toolStarted") BY <2>2
    <2>4. Embeds(toHost', toHost, 0) /\ 0 \notin DOMAIN toHost' BY <1>1, <2>2, UnreadFacts
    <2> QED BY <1>1, <2>1, <2>2, <2>3, <2>4, HandlerStill, IdleKeeps
  <1> QED BY <1>2, <1>3
-----------------------------------------------------------------------------
(* The clicks.                                                             *)

\* A prompt that waits for the user is of the active turn, and was passed on.
LEMMA PendingIs ==
  ASSUME WindowTypes, ToolInv, NEW a \in Approvals, approval[a] = "pending"
  PROVE  /\ a[1] = pane.turn /\ phase[a[1]] # "idle" /\ (a[1] = slot => a[2] <= call.count)
         /\ \A i \in DOMAIN toUi : IsTool(toUi[i], session) => OfCall(toUi[i]) # a
  <1>1. a[1] = pane.turn /\ phase[a[1]] # "idle" /\ (a[1] = slot => a[2] <= call.count)
    BY DEF ToolInv, Asked
  <1>2. ASSUME NEW i \in DOMAIN toUi, IsTool(toUi[i], session), OfCall(toUi[i]) = a PROVE FALSE
    <2> DEFINE m == toUi[i]
    <2>1. m.turn = pane.turn BY <1>1, <1>2, OfCallIs
    <2>2. FitsIn(m, toUi, session, approval) BY <1>2, <2>1 DEF ToolInv, Fits, FitsIn
    <2>3. m.kind \in ToolKinds /\ OfCall(m) = a BY <1>2 DEF IsTool
    <2> HIDE DEF m
    <2>4. m.kind \in {"approvalRequired", "toolStarted", "toolCompleted"} BY <2>3 DEF ToolKinds
    <2>5. approval[a] # "pending" BY <2>2, <2>3, <2>4 DEF FitsIn, Runs
    <2> QED BY <2>5
  <1> QED BY <1>1, <1>2

\* The click decides the prompt, and posts the decision if it can.
LEMMA DecidesIdle ==
  ASSUME WindowTypes, CallNumbered, IdleInv, Handler, pane' = pane, gate' = gate, toUi' = toUi,
         NEW a \in Approvals, approval[a] = "pending", NEW x \in {"closed", "allowed"},
         approval' = [approval EXCEPT ![a] = x],
         \/ toHost' = toHost
         \/ \E f : Decision(f, a[1], a[2], x = "allowed") /\ Post(f)
  PROVE  IdleInv'
  <1>1. ToolInv /\ TalkTypes BY Shape DEF IdleInv
  <1>2. /\ a[1] = pane.turn /\ phase[a[1]] # "idle" /\ (a[1] = slot => a[2] <= call.count)
        /\ \A i \in DOMAIN toUi' : IsTool(toUi'[i], session) => OfCall(toUi'[i]) # a
    BY <1>1, PendingIs
  <1>3. Embeds(toUi', toUi, 0) /\ KeepsAll(toUi', toUi) /\ 0 \notin DOMAIN toUi'
    BY <1>1, UnsaidFacts
  <1>4. CASE toHost' = toHost
    <2>1. Embeds(toHost', toHost, 0) /\ 0 \notin DOMAIN toHost' BY <1>1, <1>4, UnreadFacts
    <2> QED BY <1>2, <1>3, <2>1, CardIdle
  <1>5. ASSUME NEW f, Decision(f, a[1], a[2], x = "allowed"), Post(f) PROVE IdleInv'
    <2>1. /\ f \in Frames /\ f.method = "respond" /\ f.turn = a[1] /\ f.call = a[2]
          /\ f.allow = (x = "allowed")
      BY <1>5 DEF Decision
    <2>2. PICK k \in Nat : Embeds(toHost', toHost, k) /\ (k \in DOMAIN toHost' => toHost'[k] = f)
      BY <1>5, <2>1, PostFacts
    <2>3. x = IF f.allow THEN "allowed" ELSE "closed" BY <2>1
    <2> QED BY <1>2, <1>3, <2>1, <2>2, <2>3, CardIdle
  <1> QED BY <1>4, <1>5

LEMMA AllowClickIdle ==
  ASSUME WindowTypes, CallNumbered, IdleInv, NEW a \in Approvals, AllowClick(a)
  PROVE  IdleInv'
  <1> DEFINE t == a[1]
             n == a[2]
             f == [Request("respond") EXCEPT !.turn = t, !.call = n, !.allow = TRUE]
  <1>1. /\ approval[a] = "pending" /\ pane' = pane /\ gate' = gate /\ toUi' = toUi /\ Handler
    BY DEF AllowClick
  <1>2. \/ Post(f) /\ approval' = [approval EXCEPT ![a] = IF CanPost THEN "allowed" ELSE "closed"]
        \/ approval' = [approval EXCEPT ![a] = "closed"] /\ toHost' = toHost
    BY DEF AllowClick
  <1>3. Decision(f, t, n, TRUE)
    <2>1. t \in Turns /\ n \in 1..MaxCalls BY DEF Approvals
    <2> HIDE DEF t, n
    <2> QED BY <2>1, AllowIs
  <1> HIDE DEF f
  <1>4. ASSUME Post(f), approval' = [approval EXCEPT ![a] = "allowed"] PROVE IdleInv'
    <2> DEFINE x == "allowed"
    <2>1. /\ x \in {"closed", "allowed"} /\ approval' = [approval EXCEPT ![a] = x]
          /\ Decision(f, a[1], a[2], x = "allowed")
      BY <1>3, <1>4
    <2> HIDE DEF x
    <2> QED BY <1>1, <1>4, <2>1, DecidesIdle
  <1>5. ASSUME toHost' = toHost, approval' = [approval EXCEPT ![a] = "closed"] PROVE IdleInv'
    <2> DEFINE x == "closed"
    <2>1. x \in {"closed", "allowed"} /\ approval' = [approval EXCEPT ![a] = x] BY <1>5
    <2> HIDE DEF x
    <2> QED BY <1>1, <1>5, <2>1, DecidesIdle
  <1>6. Post(f) /\ ~CanPost => toHost' = toHost BY DEF Post
  <1> QED BY <1>2, <1>4, <1>5, <1>6

LEMMA DenyClickIdle ==
  ASSUME WindowTypes, CallNumbered, IdleInv, NEW a \in Approvals, DenyClick(a)
  PROVE  IdleInv'
  <1> DEFINE t == a[1]
             n == a[2]
             x == "closed"
             f == [Request("respond") EXCEPT !.turn = t, !.call = n]
  <1>1. /\ approval[a] = "pending" /\ pane' = pane /\ gate' = gate /\ toUi' = toUi /\ Handler
        /\ Post(f) /\ approval' = [approval EXCEPT ![a] = x]
    BY DEF DenyClick
  <1>2. Decision(f, t, n, FALSE)
    <2>1. t \in Turns /\ n \in 1..MaxCalls BY DEF Approvals
    <2> HIDE DEF t, n
    <2> QED BY <2>1, RespondIs
  <1> HIDE DEF f
  <1>3. x \in {"closed", "allowed"} /\ Decision(f, a[1], a[2], x = "allowed") BY <1>2
  <1> HIDE DEF x
  <1> QED BY <1>1, <1>3, DecidesIdle

\* Prompts that waited for the user are closed: nothing on the way is of them.
LEMMA CardsClose ==
  ASSUME WindowTypes, CallNumbered, ToolInv, NEW k, Embeds(toHost', toHost, k),
         k \in DOMAIN toHost' => toHost'[k].method = "cancelTurn",
         toUi' = toUi, session' = session, pane'.turn = pane.turn,
         UNCHANGED <<phase, slot, call>>,
         approval' = [a \in Approvals |-> IF approval[a] = "pending" THEN "closed"
                                          ELSE approval[a]]
  PROVE  ToolInv'
  <1>1. /\ FrameTypes(toHost, drawn) /\ MessageTypes(toUi, session, drawn)
        /\ drawn \subseteq Turns /\ call \in Calls
    BY Shape
  <1>2. \A a \in Approvals : approval[a] # "pending" => approval'[a] = approval[a] OBVIOUS
  <1>3. Asked(approval', pane'.turn, phase', slot', call')
    <2>1. Asked(approval, pane.turn, phase, slot, call) BY DEF ToolInv
    <2>2. \A d \in Approvals : approval'[d] # "none" => approval[d] # "none" OBVIOUS
    <2> QED BY <2>1, <2>2 DEF Asked
  <1>4. Known(toUi', session, phase, slot, call) /\ Ordered(toUi', session)
        /\ DecidedOnce(toHost)
    BY DEF ToolInv
  <1>5. Fits(toUi', session, pane.turn, approval')
    <2>1. ASSUME NEW i \in DOMAIN toUi', IsTool(toUi'[i], session), toUi'[i].turn = pane.turn
          PROVE  FitsIn(toUi'[i], toUi', session, approval')
      <3> DEFINE m == toUi[i]
      <3>1. FitsIn(m, toUi, session, approval) BY <2>1 DEF ToolInv, Fits, FitsIn
      <3>2. OfCall(m) \in Approvals BY <1>1, <2>1, TurnOfMessage
      <3>3. m.kind \in {"approvalRequired", "toolStarted", "toolCompleted"}
        BY <2>1 DEF IsTool, ToolKinds
      <3> HIDE DEF m
      <3>4. approval[OfCall(m)] # "pending" BY <3>1, <3>3 DEF FitsIn, Runs
      <3>5. approval'[OfCall(m)] = approval[OfCall(m)] BY <1>2, <3>2, <3>4
      <3>6. FitsIn(m, toUi', session, approval') BY <3>1, <3>5 DEF FitsIn, Runs
      <3> QED BY <3>6 DEF m
    <2> QED BY <2>1 DEF Fits, FitsIn
  <1>6. Decided(toHost, pane.turn, approval')
    <2>1. ASSUME NEW j \in DOMAIN toHost, toHost[j].method = "respond", toHost[j].turn = pane.turn
          PROVE  approval'[OfCall(toHost[j])] = IF toHost[j].allow THEN "allowed" ELSE "closed"
      <3>1. approval[OfCall(toHost[j])] = IF toHost[j].allow THEN "allowed" ELSE "closed"
        BY <2>1 DEF ToolInv, Decided
      <3>2. OfCall(toHost[j]) \in Approvals BY <1>1, <2>1, TurnOfFrame
      <3> QED BY <1>2, <3>1, <3>2
    <2> QED BY <2>1 DEF Decided
  <1>7. Decided(toHost', pane.turn, approval') BY <1>6, DecidedEmbed
  <1>8. DecidedOnce(toHost') BY <1>4, DecidedOnceEmbed
  <1>9. Undecided(toHost', phase, slot, call) BY UndecidedEmbed DEF ToolInv
  <1>10. Unheard(toHost', toUi', session)
    <2>1. Unheard(toHost, toUi, session) /\ TalkTypes BY Shape DEF ToolInv
    <2>2. Embeds(toUi', toUi, 0) /\ 0 \notin DOMAIN toUi' BY <2>1, UnsaidFacts
    <2> QED BY <2>1, <2>2, UnheardEmbed
  <1>11. CallFits(toUi', session, slot, call, pane.turn, approval')
    <2>1. ASSUME slot # NoTurn, slot = pane.turn, call.at \in {"allowed", "denied", "started"}
          PROVE  /\ call.at = "allowed" => approval'[<<slot, call.count>>] = "allowed"
                 /\ call.at = "denied" => approval'[<<slot, call.count>>] = "closed"
                 /\ call.at = "started" =>
                      Runs(toUi', session, approval', <<slot, call.count>>)
      <3> DEFINE a == <<slot, call.count>>
      <3>1. a \in Approvals BY <2>1, DecidedCall
      <3>2. /\ call.at = "allowed" => approval[a] = "allowed"
            /\ call.at = "denied" => approval[a] = "closed"
            /\ call.at = "started" => Runs(toUi, session, approval, a)
        BY <2>1 DEF ToolInv, CallFits
      <3> HIDE DEF a
      <3>3. approval[a] # "pending" BY <2>1, <3>2 DEF Runs
      <3>4. approval'[a] = approval[a] BY <1>2, <3>1, <3>3
      <3>5. /\ call.at = "allowed" => approval'[a] = "allowed"
            /\ call.at = "denied" => approval'[a] = "closed"
            /\ call.at = "started" => Runs(toUi', session, approval', a)
        BY <3>2, <3>4 DEF Runs
      <3> QED BY <3>5 DEF a
    <2> QED BY <2>1 DEF CallFits
  <1> QED BY <1>3, <1>4, <1>5, <1>7, <1>8, <1>9, <1>10, <1>11 DEF ToolInv

LEMMA StopClickIdle ==
  ASSUME WindowTypes, CallNumbered, IdleInv, StopClick
  PROVE  IdleInv'
  <1>1. /\ TalkTypes /\ drawn \subseteq Turns /\ pane \in Panes
        /\ GateInv /\ (Alive => HandshakeInv) /\ ToolInv
    BY Shape DEF IdleInv
  <1>2. Handler /\ gate' = gate /\ toUi' = toUi /\ pane.turn \in Turns
    BY <1>1, PaneIs DEF StopClick
  <1>3. approval' = [a \in Approvals |-> IF approval[a] = "pending" THEN "closed"
                                         ELSE approval[a]]
    BY DEF StopClick
  <1> DEFINE b == ~CanPost
             t == pane.turn
             f == [Request("cancelTurn") EXCEPT !.turn = t]
  <1>4. pane' = [pane EXCEPT !.cancelRequested = TRUE, !.stopButton = b] /\ Post(f)
    BY DEF StopClick
  <1>5. b \in BOOLEAN BY DEF CanPost
  <1>6. f \in Frames /\ f.method = "cancelTurn"
    <2>1. "cancelTurn" \in Methods BY DEF Methods
    <2>2. t \in Turns BY <1>2
    <2> HIDE DEF t
    <2> QED BY <2>1, <2>2, TurnRequestIs
  <1> HIDE DEF b, f, t
  <1>7. /\ pane'.turn = pane.turn /\ pane'.initialized = pane.initialized
        /\ pane'.initializing = pane.initializing /\ pane'.generation = pane.generation
    BY <1>1, <1>4, <1>5, StoppingIs
  <1>8. PICK k \in Nat : Embeds(toHost', toHost, k) /\ (k \in DOMAIN toHost' => toHost'[k] = f)
    BY <1>4, <1>6, PostFacts
  <1>9. k \in DOMAIN toHost' => /\ toHost'[k].method = "cancelTurn"
                                /\ toHost'[k].method # "sendTurn"
                                /\ toHost'[k].method # "initialize"
    BY <1>6, <1>8
  <1>10. Embeds(toUi', toUi, 0) /\ 0 \notin DOMAIN toUi' BY <1>1, <1>2, UnsaidFacts
  <1>11. /\ session' = session /\ drawn' = drawn /\ host' = host /\ Alive' = Alive
         /\ Active' = Active /\ slot' = slot /\ phase' = phase /\ call' = call
    BY <1>2, HandlerStill
  <1>12. GateInv' BY <1>1, <1>2, <1>7, <1>8, <1>9, <1>10, <1>11, GateKeeps
  <1>13. Alive' => HandshakeInv' BY <1>1, <1>7, <1>8, <1>9, <1>10, <1>11, InitKeeps
  <1>14. ToolInv' BY <1>1, <1>2, <1>3, <1>7, <1>8, <1>9, <1>11, CardsClose
  <1> QED BY <1>12, <1>13, <1>14 DEF IdleInv

\* A turn is drawn and sent: nothing is on the way of it, and nothing is asked.
LEMMA SendTurnIdle ==
  ASSUME WindowTypes, HostInv, IdleInv, NEW t \in Turns, SendTurn(t)
  PROVE  IdleInv'
  <1>1. /\ TalkTypes /\ drawn \subseteq Turns /\ pane \in Panes
        /\ FrameTypes(toHost, drawn) /\ MessageTypes(toUi, session, drawn)
        /\ GateInv /\ (Alive => HandshakeInv) /\ ToolInv
    BY Shape DEF IdleInv
  <1>2. /\ pane.turn = NoTurn /\ CanPost /\ t \notin drawn /\ drawn' = drawn \cup {t}
        /\ gate' = TRUE /\ session' = session /\ approval' = approval /\ toUi' = toUi
        /\ UNCHANGED <<bridge, hostVars>>
    BY DEF SendTurn
  <1> DEFINE f == [Request("sendTurn") EXCEPT !.turn = t]
             k == Len(toHost) + 1
  <1>3. toHost' = Append(toHost, f) BY <1>2 DEF SendTurn, Post
  <1>4. pane' = [pane EXCEPT !.turn = t, !.cancelRequested = FALSE, !.stopButton = TRUE]
    BY DEF SendTurn
  <1>5. f \in Frames /\ f.method = "sendTurn" /\ f.turn = t
    <2>1. "sendTurn" \in Methods BY DEF Methods
    <2> QED BY <2>1, TurnRequestIs
  <1> HIDE DEF f
  <1>6. /\ Embeds(toHost', toHost, k) /\ toHost'[k] = f /\ DOMAIN toHost' = DOMAIN toHost \cup {k}
        /\ \A i \in DOMAIN toHost : toHost'[i] = toHost[i] /\ i < k
    <2>1. toHost \in Seq(Frames) BY <1>1 DEF FrameTypes
    <2> QED BY <1>3, <1>5, <2>1, AppendEmbeds
  <1> HIDE DEF k
  <1>7. /\ pane'.turn = t /\ pane'.initialized = pane.initialized
        /\ pane'.initializing = pane.initializing /\ pane'.generation = pane.generation
    BY <1>1, <1>4, StartedIs
  <1>8. /\ Alive' = Alive /\ Active' = Active /\ slot' = slot /\ host' = host /\ call' = call
        /\ phase' = phase
    BY <1>2, StillIs
  <1>9. phase[t] = "idle" /\ t # NoTurn
    BY <1>2, WindowAssumption DEF HostInv
  <1>10. t # slot BY <1>9 DEF HostInv
  <1>11. Embeds(toUi', toUi, 0) /\ 0 \notin DOMAIN toUi' BY <1>1, <1>2, UnsaidFacts
  <1>12. toHost'[k].method = "sendTurn" BY <1>5, <1>6
  <1>13. GateInv'
    <2>1. pane'.turn # NoTurn => gate' /\ pane'.turn \in drawn' BY <1>2, <1>7
    <2>2. ~Active' BY <1>1, <1>2, <1>8 DEF GateInv, Active
    <2>3. Ends(toUi', session, phase', slot', Active') /\ Downs(toUi', session, Alive')
      BY <1>1, <1>2, <1>8 DEF GateInv
    <2>4. ASSUME Alive
          PROVE  /\ TurnFrames(toHost', t, phase) /\ Refusals(toUi, session, t, phase)
                 /\ RefusedOnce(toHost', toUi, session)
      <3>1. ASSUME NEW i \in DOMAIN toHost, toHost[i].method = "sendTurn" PROVE FALSE
        <4>1. toHost[i].turn = NoTurn BY <1>1, <1>2, <2>4, <3>1 DEF GateInv, TurnFrames
        <4> QED BY <1>1, <3>1, <4>1, TurnOfFrame
      <3>2. ASSUME NEW i \in DOMAIN toUi, IsRefusal(toUi[i], session) PROVE FALSE
        <4>1. toUi[i].turn = NoTurn BY <1>1, <1>2, <2>4, <3>2 DEF GateInv, Refusals
        <4>2. toUi[i].kind \notin BareKinds BY <3>2 DEF IsRefusal, BareKinds
        <4> QED BY <1>1, <4>1, <4>2, TurnOfMessage
      <3>3. TurnFrames(toHost', t, phase) BY <1>5, <1>6, <1>9, <3>1 DEF TurnFrames
      <3> QED BY <3>2, <3>3 DEF Refusals, RefusedOnce
    <2>5. session' = session /\ toUi' = toUi BY <1>2
    <2> QED BY <1>7, <1>8, <2>1, <2>2, <2>3, <2>4, <2>5 DEF GateInv
  <1>14. Alive' => HandshakeInv'
    <2>1. session' = session BY <1>2
    <2>2. toHost'[k].method # "initialize" BY <1>12
    <2> QED BY <1>1, <1>6, <1>7, <1>8, <1>11, <2>1, <2>2, InitKeeps
  <1>15. ToolInv'
    <2>1. Asked(approval', t, phase, slot, call)
      <3>1. \A a \in Approvals : a[1] # NoTurn BY ApprovalIs
      <3> QED BY <1>1, <1>2, <3>1 DEF ToolInv, Asked
    <2>2. Known(toUi', session, phase, slot, call) /\ Ordered(toUi', session)
      BY <1>1, <1>2 DEF ToolInv
    <2>3. Fits(toUi', session, t, approval')
      BY <1>1, <1>2, <1>9 DEF ToolInv, Known, Fits
    <2>4. toHost'[k].method # "respond" BY <1>12
    <2>5. Decided(toHost, t, approval') BY <1>1, <1>9 DEF ToolInv, Undecided, Decided
    <2>6. Decided(toHost', t, approval') BY <1>6, <2>4, <2>5, DecidedEmbed
    <2>7. DecidedOnce(toHost') BY <1>1, <1>6, <2>4, DecidedOnceEmbed DEF ToolInv
    <2>8. Undecided(toHost', phase, slot, call) BY <1>1, <1>6, <2>4, UndecidedEmbed DEF ToolInv
    <2>9. Unheard(toHost', toUi', session)
      BY <1>1, <1>6, <1>11, <2>4, UnheardEmbed DEF ToolInv
    <2>10. CallFits(toUi', session, slot, call, t, approval') BY <1>10 DEF CallFits
    <2>11. session' = session BY <1>2
    <2> QED BY <1>7, <1>8, <2>1, <2>2, <2>3, <2>6, <2>7, <2>8, <2>9, <2>10, <2>11 DEF ToolInv
  <1> QED BY <1>13, <1>14, <1>15 DEF IdleInv

LEMMA ClicksIdle ==
  ASSUME WindowTypes, HostInv, CallNumbered, IdleInv, Clicks, at' = "idle"
  PROVE  IdleInv'
  <1>1. ASSUME RetryClick \/ CloseWindow PROVE FALSE
    BY <1>1 DEF RetryClick, CloseWindow, BeginStop
  <1> QED BY <1>1, SendTurnIdle, AllowClickIdle, DenyClickIdle, StopClickIdle DEF Clicks

LEMMA HandlesIdle ==
  ASSUME WindowTypes, HostInv, CallNumbered, IdleInv, UiHandles
  PROVE  IdleInv'
  <1>1. ASSUME HandleInitialized PROVE IdleInv'
    <2> DEFINE c == "initialized"
               b == TRUE
    <2>1. /\ c \in AnswerKinds /\ Receives(c) /\ b \in BOOLEAN /\ (b => c = "initialized")
          /\ pane' = [pane EXCEPT !.initializing = FALSE, !.initialized = b]
          /\ approval' = approval /\ gate' = gate /\ toHost' = toHost
      BY <1>1 DEF HandleInitialized, AnswerKinds
    <2> HIDE DEF b, c
    <2> QED BY <2>1, AnswerIdle
  <1>2. ASSUME HandleInitializeError PROVE IdleInv'
    <2> DEFINE c == "initializeError"
               b == FALSE
    <2>1. /\ c \in AnswerKinds /\ Receives(c) /\ b \in BOOLEAN /\ (b => c = "initialized")
          /\ pane' = [pane EXCEPT !.initializing = FALSE, !.initialized = b]
          /\ approval' = approval /\ gate' = gate /\ toHost' = toHost
      BY <1>2 DEF HandleInitializeError, AnswerKinds
    <2> HIDE DEF b, c
    <2> QED BY <2>1, AnswerIdle
  <1> QED BY <1>1, <1>2, DropsIdle, ConnectedIdle, DownIdle, TurnOkIdle, TurnErrorIdle, EndIdle,
             ApprovalIdle, StartedIdle, CompletedIdle DEF UiHandles
-----------------------------------------------------------------------------
(* The end of a process.                                                   *)

\* Nothing that is on the way is of the new session.
LEMMA ReturnIdle ==
  ASSUME WindowTypes, HostInv, JoinInv, StopReturns, at' = "idle"
  PROVE  IdleInv'
  <1>1. /\ at = "join" /\ toUi' = Append(toUi, Message("Stopped", NoTurn, 0, ""))
        /\ session' = session + 1 /\ HostBecomes(NewHost) /\ approval' = approval
    BY DEF StopReturns
  <1>2. approval' = NoApprovals BY <1>1 DEF JoinInv
  <1>3. toHost' = << >> /\ slot' = NoTurn /\ call' = NoCall BY <1>1 DEF HostBecomes
  <1>4. pane'.turn = NoTurn /\ ~pane'.initialized BY ReturnTypes
  <1>5. DOMAIN toHost' = {} BY <1>3
  <1>6. session \in Nat /\ MessageTypes(toUi, session, drawn) BY Shape
  <1>12. session' = session + 1 BY <1>1
  <1>13. \A s \in Nat : s <= session => s # session' BY ONLY <1>6, <1>12
  <1>7. ASSUME NEW i \in DOMAIN toUi' PROVE toUi'[i].session # session'
    <2> DEFINE m == Message("Stopped", NoTurn, 0, "")
               k == Len(toUi) + 1
    <2>1. m \in Messages /\ m.session = session
      <3>1. "Stopped" \in BareKinds BY DEF BareKinds
      <3> QED BY <3>1, BareIs
    <2>2. toUi' = Append(toUi, m) BY <1>1
    <2> HIDE DEF m
    <2>3. toUi \in Seq(Messages) BY <1>6 DEF MessageTypes
    <2>4. /\ toUi'[k] = m /\ DOMAIN toUi' = DOMAIN toUi \cup {k}
          /\ \A j \in DOMAIN toUi : toUi'[j] = toUi[j]
      BY <2>1, <2>2, <2>3, AppendEmbeds
    <2> HIDE DEF k
    <2>5. CASE i = k
      <3>1. session # session' BY ONLY <1>6, <1>12
      <3> QED BY <2>1, <2>4, <2>5, <3>1
    <2>6. CASE i \in DOMAIN toUi
      <3> DEFINE s == toUi[i].session
      <3>1. s <= session /\ s \in Nat
        <4>1. toUi[i] \in Messages BY <1>6, <2>6, Shape, TurnOfMessage
        <4> QED BY <1>6, <2>6, <4>1 DEF MessageTypes, Messages
      <3>2. toUi'[i].session = s BY <2>4, <2>6
      <3> HIDE DEF s
      <3> QED BY <1>13, <3>1, <3>2
    <2> QED BY <2>4, <2>5, <2>6
  <1>8. \A a \in Approvals : approval'[a] = "none" BY <1>2 DEF NoApprovals
  <1>9. GateInv'
    <2>1. ~Active' BY <1>3 DEF Active
    <2> QED BY <1>4, <1>5, <1>7, <2>1
        DEF GateInv, Ends, IsEnd, Downs, TurnFrames, Refusals, IsRefusal, RefusedOnce
  <1>10. HandshakeInv'
    BY <1>4, <1>5, <1>7 DEF HandshakeInv, Ready, InitFrames, InitAnswers, IsAnswer, InitOnce
  <1>11. ToolInv'
    <2>1. Asked(approval', pane'.turn, phase', slot', call') BY <1>8 DEF Asked
    <2>2. Known(toUi', session', phase', slot', call') /\ Ordered(toUi', session')
          /\ Fits(toUi', session', pane'.turn, approval')
      BY <1>7 DEF Known, Ordered, Fits, IsTool
    <2>3. Decided(toHost', pane'.turn, approval') /\ DecidedOnce(toHost')
          /\ Undecided(toHost', phase', slot', call') /\ Unheard(toHost', toUi', session')
      BY <1>5 DEF Decided, DecidedOnce, Undecided, Unheard
    <2>4. CallFits(toUi', session', slot', call', pane'.turn, approval')
      BY <1>3 DEF CallFits
    <2> QED BY <2>1, <2>2, <2>3, <2>4 DEF ToolInv
  <1> QED BY <1>9, <1>10, <1>11 DEF IdleInv

LEMMA ConnectsIdle ==
  ASSUME WindowTypes, HostInv, IdleInv, BridgeConnects \/ BridgeConnectsLate
  PROVE  IdleInv'
  <1>1. /\ toUi' = Append(toUi, Message("Connected", NoTurn, 0, ""))
        /\ \/ bridge = "starting" /\ bridge' = "open"
           \/ bridge = "late" /\ bridge' = "failed"
        /\ toHost' = toHost /\ UNCHANGED paneVars /\ UNCHANGED hostVars
    BY DEF BridgeConnects, BridgeConnectsLate, Beyond
  <1>2. TalkTypes BY Shape
  <1> DEFINE m == Message("Connected", NoTurn, 0, "")
             k == Len(toUi) + 1
  <1>3. m \in Messages /\ m.kind = "Connected"
    <2>1. "Connected" \in BareKinds BY DEF BareKinds
    <2> QED BY <2>1, BareIs
  <1>4. toUi' = Append(toUi, m) BY <1>1
  <1> HIDE DEF m
  <1>5. Embeds(toUi', toUi, k) /\ KeepsAll(toUi', toUi) /\ toUi'[k] = m
    BY <1>2, <1>3, <1>4, SayFacts
  <1> HIDE DEF k
  <1>6. Embeds(toHost', toHost, 0) /\ 0 \notin DOMAIN toHost' BY <1>1, <1>2, UnreadFacts
  <1>7. session' = session /\ pane' = pane /\ gate' = gate /\ drawn' = drawn /\ approval' = approval
    BY <1>1 DEF paneVars
  <1>8. Alive' = Alive
    <2>1. (Alive' /\ Alive) \/ (~Alive' /\ ~Alive) BY <1>1 DEF Alive
    <2> QED BY <2>1 DEF Alive
  <1>9. /\ Active' = Active /\ slot' = slot /\ host' = host /\ call' = call /\ phase' = phase
    BY <1>1 DEF hostVars, Active
  <1>10. TurnGoes(phase, phase', slot, slot', call, call') BY <1>9 DEF TurnGoes
  <1> QED BY <1>3, <1>5, <1>6, <1>7, <1>8, <1>9, <1>10, IdleKeeps

\* The process is gone: it works on no turn, and will initialize nothing.
LEMMA GoneIdle ==
  ASSUME WindowTypes, IdleInv, NEW h \in Hosts, HostBecomes(h), UNCHANGED paneVars, ~Alive',
         NEW l, Embeds(toUi', toUi, l), KeepsAll(toUi', toUi),
         l \in DOMAIN toUi' => toUi'[l].kind = "Failed"
  PROVE  IdleInv'
  <1>1. /\ TalkTypes /\ drawn \subseteq Turns /\ GateInv /\ ToolInv BY Shape DEF IdleInv
  <1>2. /\ session' = session /\ pane' = pane /\ gate' = gate /\ drawn' = drawn
        /\ approval' = approval
    BY DEF paneVars
  <1>3. /\ slot' = NoTurn /\ call' = NoCall /\ Embeds(toHost', toHost, 0)
        /\ 0 \notin DOMAIN toHost' /\ \A t \in Turns : phase'[t] = "idle" <=> phase[t] = "idle"
    BY BecomesIs
  <1>4. ~Active' BY <1>3 DEF Active
  <1>5. GateInv'
    <2>1. pane'.turn # NoTurn => gate' /\ pane'.turn \in drawn' BY <1>1, <1>2 DEF GateInv
    <2>2. Ends(toUi', session, phase', slot', Active')
      <3>1. Ends(toUi, session, phase, slot, Active) BY <1>1 DEF GateInv
      <3>2. ASSUME NEW i \in DOMAIN toUi, IsEnd(toUi[i], session), phase[toUi[i].turn] # "idle"
            PROVE  phase'[toUi[i].turn] # "idle"
        <4>1. toUi[i].kind \notin BareKinds BY <3>2 DEF IsEnd, EndKinds, BareKinds
        <4>2. toUi[i].turn \in Turns BY <1>1, <3>2, <4>1, TurnOfMessage DEF TalkTypes
        <4> QED BY <1>3, <3>2, <4>2
      <3>3. l \in DOMAIN toUi' => ~IsEnd(toUi'[l], session) BY DEF IsEnd, EndKinds
      <3> QED BY <1>4, <3>1, <3>2, <3>3, EndsEmbed
    <2>3. Downs(toUi', session, Alive')
      <3>1. Downs(toUi, session, Alive) BY <1>1 DEF GateInv
      <3> QED BY <3>1, DownsEmbed
    <2> QED BY <1>2, <1>4, <2>1, <2>2, <2>3 DEF GateInv
  <1>6. ToolInv'
    <2>1. TurnGoes(phase, phase', slot, slot', call, call') BY <1>3 DEF TurnGoes
    <2>2. l \in DOMAIN toUi' => toUi'[l].kind \notin ToolKinds BY DEF ToolKinds
    <2>3. pane'.turn = pane.turn BY <1>2
    <2> QED BY <1>1, <1>2, <1>3, <2>1, <2>2, <2>3, ToolKeeps
  <1> QED BY <1>5, <1>6 DEF IdleInv

LEMMA FailsIdle ==
  ASSUME WindowTypes, HostInv, IdleInv, BridgeFails
  PROVE  IdleInv'
  <1>1. HostBecomes(NoHost) /\ UNCHANGED paneVars /\ bridge' \in {"late", "failed"}
    BY DEF BridgeFails, Beyond
  <1>2. PICK l \in Nat : /\ Embeds(toUi', toUi, l) /\ KeepsAll(toUi', toUi)
                         /\ toUi'[l] = Message("Failed", NoTurn, 0, "")
    BY FailsFacts
  <1>3. toUi'[l].kind = "Failed"
    <2>1. "Failed" \in BareKinds BY DEF BareKinds
    <2> QED BY <1>2, <2>1, BareIs
  <1>4. ~Alive' BY <1>1 DEF Alive
  <1> DEFINE h == NoHost
  <1>5. h \in Hosts /\ HostBecomes(h) BY <1>1, HostsAre
  <1> HIDE DEF h
  <1> QED BY <1>1, <1>2, <1>3, <1>4, <1>5, GoneIdle

LEMMA ShutsIdle ==
  ASSUME WindowTypes, HostInv, IdleInv, HostShutsDown
  PROVE  IdleInv'
  <1>1. HostBecomes(NoHost) /\ UNCHANGED paneVars /\ bridge' = "stopped" /\ toUi' = toUi
    BY DEF HostShutsDown, Beyond
  <1>2. TalkTypes BY Shape
  <1>3. Embeds(toUi', toUi, 0) /\ KeepsAll(toUi', toUi) /\ 0 \notin DOMAIN toUi'
    BY <1>1, <1>2, UnsaidFacts
  <1>4. ~Alive' BY <1>1 DEF Alive
  <1> DEFINE h == NoHost
  <1>5. h \in Hosts /\ HostBecomes(h) BY <1>1, HostsAre
  <1> HIDE DEF h
  <1> QED BY <1>1, <1>3, <1>4, <1>5, GoneIdle
-----------------------------------------------------------------------------
(* The request loop of ChatHost.                                           *)

LEMMA SaidFacts ==
  ASSUME TalkTypes, NEW m \in Messages, toUi' = Append(toUi, m)
  PROVE  \E k \in Nat :
           /\ Embeds(toUi', toUi, k) /\ KeepsAll(toUi', toUi) /\ toUi'[k] = m
           /\ DOMAIN toUi' = DOMAIN toUi \cup {k}
           /\ \A i \in DOMAIN toUi : toUi'[i] = toUi[i] /\ i < k
           /\ \A i \in DOMAIN toUi' : ~(k < i)
  <1>1. toUi \in Seq(Messages) BY DEF TalkTypes, MessageTypes
  <1> DEFINE k == Len(toUi) + 1
  <1>2. /\ Embeds(toUi', toUi, k) /\ KeepsAll(toUi', toUi) /\ toUi'[k] = m
        /\ DOMAIN toUi' = DOMAIN toUi \cup {k}
        /\ \A i \in DOMAIN toUi : toUi'[i] = toUi[i] /\ i < k
        /\ \A i \in DOMAIN toUi' : ~(k < i)
    BY <1>1, AppendEmbeds, SayFacts
  <1>3. k \in Nat BY <1>1, LenProperties
  <1> HIDE DEF k
  <1> QED BY <1>2, <1>3

LEMMA BeyondIs ==
  ASSUME Beyond
  PROVE  /\ session' = session /\ pane' = pane /\ gate' = gate /\ drawn' = drawn
         /\ approval' = approval /\ at' = at
  BY DEF Beyond, paneVars

LEMMA BareSaid ==
  ASSUME WindowTypes, NEW c \in BareKinds, Sends(c, NoTurn, 0, "")
  PROVE  \E m \in Messages : m.session = session /\ m.kind = c /\ toUi' = Append(toUi, m)
  <1> DEFINE m == Message(c, NoTurn, 0, "")
  <1>1. m \in Messages /\ m.session = session /\ m.kind = c BY BareIs
  <1>2. toUi' = Append(toUi, m) BY DEF Sends
  <1> HIDE DEF m
  <1> QED BY <1>1, <1>2

\* The one request is answered: the answer is the only one.
LEMMA InitializesIdle ==
  ASSUME WindowTypes, HostInv, IdleInv, HostInitializes
  PROVE  IdleInv'
  <1>1. HostReads("initialize") /\ UNCHANGED <<slot, phase, report, cancelled, call>>
    BY DEF HostInitializes
  <1>2. /\ R = toHost[1] /\ R.method = "initialize" /\ 1 \in DOMAIN toHost
        /\ Embeds(toHost', toHost, 0) /\ 0 \notin DOMAIN toHost'
        /\ Alive /\ Alive' = Alive /\ Beyond
        /\ \A i \in DOMAIN toHost' :
             i + 1 \in DOMAIN toHost /\ toHost'[i] = toHost[i + 1] /\ i \in Nat
    BY <1>1, ReadsIs
  <1>3. /\ TalkTypes /\ drawn \subseteq Turns /\ GateInv /\ HandshakeInv /\ ToolInv /\ host \in Hosts
    BY <1>2, Shape DEF IdleInv
  <1>4. /\ session' = session /\ pane' = pane /\ gate' = gate /\ drawn' = drawn
        /\ approval' = approval
    BY <1>2, BeyondIs
  <1>5. PICK c \in AnswerKinds : /\ Sends(c, NoTurn, 0, "")
                                 /\ c = "initialized" =>
                                      host' = [host EXCEPT !.initialized = TRUE,
                                                 !.generation = R.generation, !.project = R.project]
    BY DEF HostInitializes, AnswerKinds
  <1>6. PICK m \in Messages : m.session = session /\ m.kind = c /\ toUi' = Append(toUi, m)
    <2>1. c \in BareKinds BY DEF AnswerKinds, BareKinds
    <2> QED BY <1>5, <2>1, BareSaid
  <1>7. PICK k \in Nat :
          /\ Embeds(toUi', toUi, k) /\ KeepsAll(toUi', toUi) /\ toUi'[k] = m
          /\ DOMAIN toUi' = DOMAIN toUi \cup {k}
          /\ \A i \in DOMAIN toUi : toUi'[i] = toUi[i] /\ i < k
    BY <1>3, <1>6, SaidFacts
  <1>8. /\ pane.initializing /\ ~pane.initialized /\ R.generation = pane.generation
        /\ \A j \in DOMAIN toHost : toHost[j].method = "initialize" => j = 1
    BY <1>2, <1>3 DEF HandshakeInv, InitFrames
  <1>9. \A i \in DOMAIN toUi : ~IsAnswer(toUi[i], session)
    BY <1>2, <1>3 DEF HandshakeInv, InitOnce
  <1>10. \A i \in DOMAIN toHost' : toHost'[i].method # "initialize"
    <2>1. \A i \in DOMAIN toHost' : i + 1 # 1 BY <1>2
    <2> QED BY <1>2, <1>8, <2>1
  <1>11. c = "initialized" => host'.initialized /\ host'.generation = pane.generation
    <2>1. ASSUME c = "initialized" PROVE host'.initialized /\ host'.generation = R.generation
      BY <1>3, <1>5, <2>1 DEF Hosts
    <2> QED BY <1>8, <2>1
  <1>12. HandshakeInv'
    <2>1. Ready(pane', host') BY <1>4, <1>8 DEF Ready
    <2>2. InitFrames(toHost', pane') BY <1>10 DEF InitFrames
    <2>3. InitAnswers(toUi', session, pane', host')
      BY <1>4, <1>6, <1>7, <1>8, <1>9, <1>11 DEF InitAnswers
    <2>4. InitOnce(toHost', toUi', session) BY <1>10 DEF InitOnce
    <2> QED BY <1>4, <2>1, <2>2, <2>3, <2>4 DEF HandshakeInv
  <1>13. toUi'[k].kind \in AnswerKinds BY <1>6, <1>7
  <1>14. GateInv'
    <2>1. toUi'[k].kind \notin {"Stopped", "Failed", "turnError", "completed", "error"}
      BY <1>13 DEF AnswerKinds
    <2>2. Active' = Active /\ slot' = slot /\ phase' = phase BY <1>1 DEF Active
    <2> QED BY <1>2, <1>3, <1>4, <1>7, <2>1, <2>2, GateKeeps
  <1>15. ToolInv'
    <2>1. toUi'[k].kind \notin ToolKinds BY <1>13 DEF AnswerKinds, ToolKinds
    <2>2. TurnGoes(phase, phase', slot, slot', call, call') BY <1>1 DEF TurnGoes
    <2> QED BY <1>2, <1>3, <1>4, <1>7, <2>1, <2>2, ToolKeeps
  <1> QED BY <1>12, <1>14, <1>15 DEF IdleInv

\* The one request for a turn is granted or refused, and nothing is on the way of it.
LEMMA PreparesIdle ==
  ASSUME WindowTypes, HostInv, IdleInv, HostPreparesTurn
  PROVE  IdleInv'
  <1>1. HostReads("sendTurn") /\ UNCHANGED <<host, cancelled, call>> BY DEF HostPreparesTurn
  <1> DEFINE t == R.turn
  <1>2. /\ R = toHost[1] /\ R.method = "sendTurn" /\ 1 \in DOMAIN toHost
        /\ Embeds(toHost', toHost, 0) /\ 0 \notin DOMAIN toHost'
        /\ Alive /\ Alive' = Alive /\ Beyond /\ t \in drawn /\ t \in Turns /\ t # NoTurn
        /\ \A i \in DOMAIN toHost' :
             i + 1 \in DOMAIN toHost /\ toHost'[i] = toHost[i + 1] /\ i \in Nat
    BY <1>1, ReadsIs
  <1>3. /\ TalkTypes /\ drawn \subseteq Turns /\ GateInv /\ HandshakeInv /\ ToolInv
        /\ phase \in [Turns -> Life!Phases]
    BY <1>2, Shape DEF IdleInv
  <1>4. /\ session' = session /\ pane' = pane /\ gate' = gate /\ drawn' = drawn
        /\ approval' = approval
    BY <1>2, BeyondIs
  <1>5. /\ t = pane.turn /\ phase[t] = "idle"
        /\ \A j \in DOMAIN toHost : toHost[j].method = "sendTurn" => j = 1
    BY <1>2, <1>3 DEF GateInv, TurnFrames
  <1>6. \A i \in DOMAIN toUi : ~IsRefusal(toUi[i], session)
    BY <1>2, <1>3 DEF GateInv, RefusedOnce
  <1>7. \A i \in DOMAIN toHost' : toHost'[i].method # "sendTurn"
    <2>1. \A i \in DOMAIN toHost' : i + 1 # 1 BY <1>2
    <2> QED BY <1>2, <1>5, <2>1
  <1>8. \/ Life!Reserve(t) /\ toUi' = toUi
        \/ Sends("turnError", t, 0, "") /\ UNCHANGED <<slot, phase, report>>
    BY DEF HostPreparesTurn
  <1>9. pane'.turn # NoTurn => gate' /\ pane'.turn \in drawn' BY <1>3, <1>4 DEF GateInv
  <1> HIDE DEF t
  <1>10. ASSUME Life!Reserve(t), toUi' = toUi PROVE IdleInv'
    <2>1. /\ slot = NoTurn /\ slot' = t /\ report' = report
          /\ phase' = [phase EXCEPT ![t] = "reserved"]
      BY <1>10 DEF Life!Reserve
    <2>2. \A x \in Turns : phase[x] # "idle" => phase'[x] # "idle" BY <1>3, <2>1
    <2>3. Embeds(toUi', toUi, 0) /\ KeepsAll(toUi', toUi) /\ 0 \notin DOMAIN toUi'
      BY <1>3, <1>10, UnsaidFacts
    <2>4. call'.at = "none" BY <1>1, <2>1, NoCallIs DEF HostInv
    <2>5. Ends(toUi', session, phase', slot', Active')
      <3>1. ASSUME NEW i \in DOMAIN toUi, IsEnd(toUi[i], session)
            PROVE  phase'[toUi[i].turn] # "idle" /\ toUi[i].turn # t
        <4>1. phase[toUi[i].turn] # "idle" BY <1>3, <3>1 DEF GateInv, Ends
        <4>2. toUi[i].kind \notin BareKinds BY <3>1 DEF IsEnd, EndKinds, BareKinds
        <4>3. toUi[i].turn \in Turns BY <1>3, <3>1, <4>2, TurnOfMessage DEF TalkTypes
        <4> QED BY <1>5, <2>2, <4>1, <4>3
      <3> QED BY <1>10, <2>1, <3>1 DEF Ends
    <2>6. Downs(toUi', session, Alive') BY <1>2, <1>3, <1>10 DEF GateInv
    <2>7. /\ TurnFrames(toHost', pane'.turn, phase') /\ Refusals(toUi', session, pane'.turn, phase')
          /\ RefusedOnce(toHost', toUi', session)
      BY <1>6, <1>7, <1>10 DEF TurnFrames, Refusals, RefusedOnce
    <2>8. Active' => slot' = pane'.turn BY <1>4, <1>5, <2>1
    <2>9. GateInv' BY <1>4, <1>9, <2>5, <2>6, <2>7, <2>8 DEF GateInv
    <2>10. HandshakeInv' BY <1>1, <1>2, <1>3, <1>4, <2>3, <1>7, InitKeeps
    <2>11. TurnGoes(phase, phase', slot, slot', call, call')
      BY <1>5, <2>1, <2>2, <2>4 DEF TurnGoes
    <2>12. ToolInv' BY <1>2, <1>3, <1>4, <2>3, <2>11, ToolKeeps
    <2> QED BY <2>9, <2>10, <2>12 DEF IdleInv
  <1>11. ASSUME Sends("turnError", t, 0, ""), UNCHANGED <<slot, phase, report>> PROVE IdleInv'
    <2> DEFINE c == "turnError"
    <2>1. /\ c \in Kinds \ BareKinds /\ c \notin ToolKinds /\ c \notin AnswerKinds
          /\ c \notin EndKinds /\ c \notin {"Stopped", "Failed"} /\ c = "turnError"
      BY DEF Kinds, BareKinds, ToolKinds, AnswerKinds, EndKinds
    <2>15. "" \in ToolStatuses BY DEF ToolStatuses
    <2>16. 0 \in 0..MaxCalls BY WindowAssumption
    <2>2. Sends(c, t, 0, "") BY <1>11
    <2> HIDE DEF c
    <2>3. PICK m \in Messages : GoodSaid(m, c, t, 0, "")
      <3> DEFINE z == ""
                 n == 0
      <3>1. z \in ToolStatuses /\ n \in 0..MaxCalls /\ Sends(c, t, n, z) BY <2>2, <2>15, <2>16
      <3> HIDE DEF z, n
      <3>2. \E m \in Messages : GoodSaid(m, c, t, n, z) BY <1>2, <2>1, <3>1, SaysIs
      <3> QED BY <3>2 DEF z, n
    <2>4. m.session = session /\ m.kind = c /\ m.turn = t /\ toUi' = Append(toUi, m)
      BY <2>3 DEF GoodSaid
    <2>5. PICK k \in Nat :
            /\ Embeds(toUi', toUi, k) /\ KeepsAll(toUi', toUi) /\ toUi'[k] = m
            /\ DOMAIN toUi' = DOMAIN toUi \cup {k}
            /\ \A i \in DOMAIN toUi : toUi'[i] = toUi[i] /\ i < k
      BY <1>3, <2>4, SaidFacts
    <2>6. slot' = slot /\ phase' = phase /\ report' = report /\ Active' = Active
      BY <1>1, <1>11 DEF Active
    <2>7. Ends(toUi', session, phase', slot', Active')
      <3>1. Ends(toUi, session, phase, slot, Active) BY <1>3 DEF GateInv
      <3>2. ~IsEnd(toUi'[k], session) BY <2>1, <2>4, <2>5 DEF IsEnd
      <3> QED BY <2>5, <2>6, <3>1, <3>2, EndsEmbed
    <2>8. Downs(toUi', session, Alive')
      <3>1. Downs(toUi, session, Alive) BY <1>3 DEF GateInv
      <3>2. toUi'[k].kind \notin {"Stopped", "Failed"} BY <2>1, <2>4, <2>5
      <3> QED BY <1>2, <2>5, <3>1, <3>2, DownsEmbed
    <2>9. TurnFrames(toHost', pane'.turn, phase') /\ RefusedOnce(toHost', toUi', session)
      BY <1>7 DEF TurnFrames, RefusedOnce
    <2>10. Refusals(toUi', session, pane'.turn, phase')
      BY <1>4, <1>5, <1>6, <2>4, <2>5, <2>6 DEF Refusals
    <2>11. Active' => slot' = pane'.turn BY <1>3, <1>4, <2>6 DEF GateInv
    <2>12. GateInv' BY <1>4, <1>9, <2>7, <2>8, <2>9, <2>10, <2>11 DEF GateInv
    <2>13. HandshakeInv'
      <3>1. toUi'[k].kind \notin AnswerKinds BY <2>1, <2>4, <2>5
      <3> QED BY <1>1, <1>2, <1>3, <1>4, <2>5, <3>1, InitKeeps
    <2>14. ToolInv'
      <3>1. toUi'[k].kind \notin ToolKinds BY <2>1, <2>4, <2>5
      <3>2. TurnGoes(phase, phase', slot, slot', call, call') BY <1>1, <2>6 DEF TurnGoes
      <3> QED BY <1>2, <1>3, <1>4, <2>5, <3>1, <3>2, ToolKeeps
    <2> QED BY <2>12, <2>13, <2>14 DEF IdleInv
  <1> QED BY <1>8, <1>10, <1>11

LEMMA AcceptsIdle ==
  ASSUME WindowTypes, HostInv, IdleInv, HostAcceptsTurn
  PROVE  IdleInv'
  <1>1. /\ slot # NoTurn /\ Life!Accept(slot) /\ Sends("turnOk", slot, 0, "")
        /\ Beyond /\ UNCHANGED <<bridge, toHost, host, cancelled, call>>
    BY DEF HostAcceptsTurn
  <1>2. slot \in Turns /\ slot \in drawn BY <1>1, SlotIs
  <1>3. TalkTypes /\ phase \in [Turns -> Life!Phases] BY Shape
  <1>4. /\ phase[slot] = "reserved" /\ phase' = [phase EXCEPT ![slot] = "running"]
        /\ slot' = slot /\ report' = report
    BY <1>1 DEF Life!Accept
  <1>5. \A t \in Turns : phase'[t] = "idle" <=> phase[t] = "idle" BY <1>2, <1>3, <1>4
  <1> DEFINE c == "turnOk"
             z == ""
             n == 0
             t == slot
  <1>6. /\ c \in Kinds \ BareKinds /\ c \notin ToolKinds /\ c \in {"Connected", "turnOk"}
    BY DEF Kinds, BareKinds, ToolKinds
  <1>7. z \in ToolStatuses BY DEF ToolStatuses
  <1>8. n \in 0..MaxCalls BY WindowAssumption
  <1>9. Sends(c, t, n, z) /\ t \in drawn BY <1>1, <1>2
  <1> HIDE DEF c, z, n, t
  <1>10. PICK m \in Messages : GoodSaid(m, c, t, n, z) BY <1>6, <1>7, <1>8, <1>9, SaysIs
  <1>11. m.kind = c /\ toUi' = Append(toUi, m) BY <1>10 DEF GoodSaid
  <1>12. PICK k \in Nat : Embeds(toUi', toUi, k) /\ KeepsAll(toUi', toUi) /\ toUi'[k] = m
    BY <1>3, <1>11, SaidFacts
  <1>13. toUi'[k].kind \in {"Connected", "turnOk"} BY <1>6, <1>11, <1>12
  <1>14. Embeds(toHost', toHost, 0) /\ 0 \notin DOMAIN toHost' BY <1>1, <1>3, UnreadFacts
  <1>15. /\ session' = session /\ pane' = pane /\ gate' = gate /\ drawn' = drawn
         /\ approval' = approval
    BY <1>1, BeyondIs
  <1>16. Alive' = Alive /\ host' = host /\ call' = call BY <1>1 DEF Alive
  <1>17. Active' = Active BY <1>4, <1>16 DEF Active
  <1>18. TurnGoes(phase, phase', slot, slot', call, call') BY <1>4, <1>5, <1>16 DEF TurnGoes
  <1> QED BY <1>4, <1>5, <1>12, <1>13, <1>14, <1>15, <1>16, <1>17, <1>18, IdleKeeps

\* A request was read that changes nothing of the turn but its cancellation.
LEMMA ReadIdle ==
  ASSUME WindowTypes, HostInv, IdleInv, NEW c, HostReads(c), toUi' = toUi,
         UNCHANGED <<host, slot, phase, report, call>>
  PROVE  IdleInv'
  <1>1. Embeds(toHost', toHost, 0) /\ 0 \notin DOMAIN toHost' /\ Alive' = Alive /\ Beyond
    BY ReadsIs
  <1>2. TalkTypes BY Shape
  <1>3. Embeds(toUi', toUi, 0) /\ KeepsAll(toUi', toUi) /\ 0 \notin DOMAIN toUi'
    BY <1>2, UnsaidFacts
  <1>4. /\ session' = session /\ pane' = pane /\ gate' = gate /\ drawn' = drawn
        /\ approval' = approval
    BY <1>1, BeyondIs
  <1>5. Active' = Active BY DEF Active
  <1>6. TurnGoes(phase, phase', slot, slot', call, call') BY DEF TurnGoes
  <1> QED BY <1>1, <1>3, <1>4, <1>5, <1>6, IdleKeeps

\* The decision that was read is the only one of its call, and the card says it.
LEMMA DecisionTools ==
  ASSUME WindowTypes, HostInv, ToolInv, HostReads("respond"), toUi' = toUi,
         UNCHANGED <<slot, phase, approval, session>>, pane'.turn = pane.turn, slot # NoTurn,
         slot = R.turn, call.at = "asked", call.count = R.call,
         call' = [call EXCEPT !.at = IF R.allow THEN "allowed" ELSE "denied"]
  PROVE  ToolInv'
  <1>1. /\ FrameTypes(toHost, drawn) /\ MessageTypes(toUi, session, drawn) /\ TalkTypes
        /\ drawn \subseteq Turns /\ call \in Calls
    BY Shape
  <1>2. /\ R = toHost[1] /\ R.method = "respond" /\ 1 \in DOMAIN toHost
        /\ Embeds(toHost', toHost, 0) /\ 0 \notin DOMAIN toHost'
        /\ \A i \in DOMAIN toHost' :
             i + 1 \in DOMAIN toHost /\ toHost'[i] = toHost[i + 1] /\ i \in Nat
    BY ReadsIs
  <1>3. /\ call'.count = call.count /\ call'.at = IF R.allow THEN "allowed" ELSE "denied"
    BY <1>1 DEF Calls
  <1>4. Told(call'.at) = Told(call.at) BY <1>3, RankIs
  <1>5. Embeds(toUi', toUi, 0) /\ 0 \notin DOMAIN toUi' BY <1>1, UnsaidFacts
  <1>6. Asked(approval', pane'.turn, phase', slot', call') BY <1>3 DEF ToolInv, Asked
  <1>7. Known(toUi', session, phase', slot', call') BY <1>3, <1>4 DEF ToolInv, Known
  <1>8. Ordered(toUi', session) /\ Fits(toUi', session, pane.turn, approval') BY DEF ToolInv
  <1>9. Decided(toHost', pane.turn, approval') /\ DecidedOnce(toHost')
        /\ Unheard(toHost', toUi', session)
    <2>1. Decided(toHost, pane.turn, approval) /\ DecidedOnce(toHost)
          /\ Unheard(toHost, toUi, session)
      BY DEF ToolInv
    <2>2. Decided(toHost', pane.turn, approval') BY <1>2, <2>1, DecidedEmbed
    <2>3. DecidedOnce(toHost') BY <1>2, <2>1, DecidedOnceEmbed
    <2>4. Unheard(toHost', toUi', session) BY <1>2, <1>5, <2>1, UnheardEmbed
    <2> QED BY <2>2, <2>3, <2>4
  <1>10. Undecided(toHost', phase', slot', call')
    <2>1. ASSUME NEW i \in DOMAIN toHost', toHost'[i].method = "respond"
          PROVE  /\ phase[toHost'[i].turn] # "idle"
                 /\ toHost'[i].turn = slot => toHost'[i].call < call.count
      <3> DEFINE j == i + 1
      <3>1. j \in DOMAIN toHost /\ toHost'[i] = toHost[j] /\ j # 1 BY <1>2
      <3> HIDE DEF j
      <3>2. /\ phase[toHost[j].turn] # "idle"
            /\ toHost[j].turn = slot => toHost[j].call < call.count \/ toHost[j].call = call.count
        BY <2>1, <3>1 DEF ToolInv, Undecided
      <3>3. OfCall(toHost[j]) # OfCall(toHost[1])
        BY <1>2, <2>1, <3>1 DEF ToolInv, DecidedOnce
      <3>4. ~(toHost[j].turn = slot /\ toHost[j].call = call.count) BY <1>2, <3>3 DEF OfCall
      <3> QED BY <3>1, <3>2, <3>4
    <2> QED BY <1>3, <2>1 DEF Undecided
  <1>11. CallFits(toUi', session, slot', call', pane.turn, approval')
    <2>1. ASSUME slot = pane.turn
          PROVE  approval[<<slot, call.count>>] = IF R.allow THEN "allowed" ELSE "closed"
      <3>1. OfCall(toHost[1]) = <<slot, call.count>> BY <1>2 DEF OfCall
      <3> QED BY <1>2, <2>1, <3>1 DEF ToolInv, Decided
    <2> QED BY <1>3, <2>1 DEF CallFits
  <1> QED BY <1>6, <1>7, <1>8, <1>9, <1>10, <1>11 DEF ToolInv

LEMMA DecisionIdle ==
  ASSUME WindowTypes, HostInv, IdleInv, HostTakesDecision
  PROVE  IdleInv'
  <1>1. HostReads("respond") /\ UNCHANGED <<toUi, host, slot, phase, report, cancelled>>
    BY DEF HostTakesDecision
  <1>2. CASE slot = R.turn /\ call.at = "asked" /\ call.count = R.call
    <2>1. call' = [call EXCEPT !.at = IF R.allow THEN "allowed" ELSE "denied"]
      BY <1>2 DEF HostTakesDecision
    <2>2. /\ Embeds(toHost', toHost, 0) /\ 0 \notin DOMAIN toHost' /\ Beyond /\ Alive' = Alive
      BY <1>1, ReadsIs
    <2>3. /\ session' = session /\ pane' = pane /\ gate' = gate /\ drawn' = drawn
          /\ approval' = approval
      BY <2>2, BeyondIs
    <2>4. slot # NoTurn BY <1>2, NoCallIs DEF HostInv
    <2>5. ToolInv /\ GateInv /\ (Alive => HandshakeInv) BY DEF IdleInv
    <2>6. ToolInv' BY <1>1, <1>2, <2>1, <2>3, <2>4, <2>5, DecisionTools
    <2>7. TalkTypes /\ drawn \subseteq Turns BY Shape
    <2>8. Embeds(toUi', toUi, 0) /\ 0 \notin DOMAIN toUi' BY <1>1, <2>7, UnsaidFacts
    <2>9. Active' => Active /\ slot' = slot BY <1>1, <1>2 DEF Active
    <2>10. GateInv' BY <1>1, <2>2, <2>3, <2>5, <2>7, <2>8, <2>9, GateKeeps
    <2>11. Alive' => HandshakeInv' BY <1>1, <2>2, <2>3, <2>5, <2>8, InitKeeps
    <2> QED BY <2>6, <2>10, <2>11 DEF IdleInv
  <1>3. CASE ~(slot = R.turn /\ call.at = "asked" /\ call.count = R.call)
    <2>1. call' = call BY <1>3 DEF HostTakesDecision
    <2> DEFINE c == "respond"
    <2>2. HostReads(c) BY <1>1
    <2> HIDE DEF c
    <2> QED BY <1>1, <2>1, <2>2, ReadIdle
  <1> QED BY <1>2, <1>3

LEMMA RouterIdle ==
  ASSUME WindowTypes, HostInv, IdleInv, HostRouter
  PROVE  IdleInv'
  <1>1. ASSUME HostCancelsTurn PROVE IdleInv'
    <2> DEFINE c == "cancelTurn"
    <2>1. HostReads(c) /\ UNCHANGED <<toUi, host, slot, phase, report, call>>
      BY <1>1 DEF HostCancelsTurn
    <2> HIDE DEF c
    <2> QED BY <2>1, ReadIdle
  <1> QED BY <1>1, InitializesIdle, PreparesIdle, AcceptsIdle, DecisionIdle, ShutsIdle
      DEF HostRouter
-----------------------------------------------------------------------------
(* The turn of ChatHost.                                                   *)

\* A message of a call comes after those of the call before it, and its card
\* is where the message needs it.
LEMMA ToolSays ==
  ASSUME WindowTypes, HostInv, ToolInv, slot # NoTurn, NEW c \in ToolKinds, NEW n \in Nat,
         NEW m \in Messages, m.session = session, m.kind = c, m.turn = slot, m.call = n,
         toUi' = Append(toUi, m), toHost' = toHost, session' = session, pane' = pane,
         approval' = approval, UNCHANGED <<slot, phase>>, call'.count = n,
         \/ n = call.count + 1 /\ c = "approvalRequired"
         \/ /\ n = call.count /\ call.at \in {"allowed", "denied", "started"}
            /\ Told(call.at) < Rank(c),
         Rank(c) <= Told(call'.at), call'.at \notin {"allowed", "denied"},
         slot = pane.turn => FitsIn(m, toUi, session, approval),
         call'.at = "started" /\ slot = pane.turn =>
           c = "toolStarted" /\ approval[<<slot, n>>] = "allowed"
  PROVE  ToolInv'
  <1>1. /\ FrameTypes(toHost, drawn) /\ MessageTypes(toUi, session, drawn) /\ TalkTypes
        /\ drawn \subseteq Turns /\ call \in Calls
    BY Shape
  <1>2. PICK k \in Nat :
          /\ Embeds(toUi', toUi, k) /\ KeepsAll(toUi', toUi) /\ toUi'[k] = m
          /\ DOMAIN toUi' = DOMAIN toUi \cup {k}
          /\ \A i \in DOMAIN toUi : toUi'[i] = toUi[i] /\ i < k
          /\ \A i \in DOMAIN toUi' : ~(k < i)
    BY <1>1, SaidFacts
  <1>3. call.count \in Nat BY <1>1, WindowAssumption DEF Calls
  <1>4. phase[slot] # "idle" BY SlotIs
  <1>5. \A i \in DOMAIN toUi : IsTool(toUi[i], session) =>
          toUi[i].call \in Nat /\ toUi[i].kind \in ToolKinds
    <2>1. \A i \in DOMAIN toUi : IsTool(toUi[i], session) => toUi[i].call \in 1 .. MaxCalls
      BY <1>1, TurnOfMessage
    <2> QED BY <2>1, WindowAssumption DEF IsTool
  <1>6. \A x \in ToolKinds : Rank(x) \in Nat
    BY RankIs DEF ToolKinds
  <1>7. Told(call.at) \in Nat /\ Told(call'.at) \in Nat BY DEF Told
  <1>8. n = call.count + 1 \/ (n = call.count /\ Told(call.at) < Rank(c)) OBVIOUS
  \* What was said of the turn before.
  <1>9. ASSUME NEW i \in DOMAIN toUi, IsTool(toUi[i], session), toUi[i].turn = slot
        PROVE  \/ toUi[i].call < n
               \/ toUi[i].call = n /\ Rank(toUi[i].kind) < Rank(c)
    <2> DEFINE d == toUi[i].call
               r == Rank(toUi[i].kind)
               w == Told(call.at)
               x == Rank(c)
               g == call.count
    <2>1. d < g \/ (d = g /\ r <= w) BY <1>9 DEF ToolInv, Known
    <2>2. d \in Nat /\ r \in Nat /\ w \in Nat /\ x \in Nat /\ g \in Nat
      BY <1>3, <1>5, <1>6, <1>7, <1>9
    <2>3. n = g + 1 \/ (n = g /\ w < x) BY <1>8
    <2> HIDE DEF d, r, w, x, g
    <2>4. d < n \/ (d = n /\ r < x) BY <2>1, <2>2, <2>3
    <2> QED BY <2>4 DEF d, r, x
  <1>10. Asked(approval', pane'.turn, phase', slot', call')
    <2>1. Asked(approval, pane.turn, phase, slot, call) BY DEF ToolInv
    <2>2. \A a \in Approvals : a[2] <= call.count => a[2] <= n
      <3>1. \A a \in Approvals : a[2] \in Nat BY ApprovalIs
      <3> QED BY <1>3, <1>8, <3>1
    <2> QED BY <2>1, <2>2 DEF Asked
  <1>11. Known(toUi', session, phase', slot', call')
    <2>1. ASSUME NEW i \in DOMAIN toUi, IsTool(toUi[i], session)
          PROVE  /\ phase[toUi[i].turn] # "idle"
                 /\ toUi[i].turn = slot =>
                      \/ toUi[i].call < n
                      \/ toUi[i].call = n /\ Rank(toUi[i].kind) <= Told(call'.at)
      <3>1. phase[toUi[i].turn] # "idle" BY <2>1 DEF ToolInv, Known
      <3> DEFINE r == Rank(toUi[i].kind)
                 x == Rank(c)
                 w == Told(call'.at)
      <3>2. r < x => r <= w
        <4>1. r \in Nat /\ x \in Nat /\ w \in Nat /\ x <= w BY <1>5, <1>6, <1>7, <2>1
        <4> HIDE DEF r, x, w
        <4> QED BY <4>1
      <3> HIDE DEF w
      <3>3. toUi[i].turn = slot => toUi[i].call < n \/ (toUi[i].call = n /\ r <= w)
        BY <1>9, <2>1, <3>2
      <3> QED BY <3>1, <3>3 DEF w
    <2>2. Known(toUi, session, phase, slot, call') BY <2>1 DEF Known
    <2>3. toUi'[k].turn = slot /\ toUi'[k].call = n /\ toUi'[k].kind = c BY <1>2
    <2>4. Known(toUi', session, phase, slot, call') BY <1>2, <1>4, <2>2, <2>3, KnownEmbed
    <2> QED BY <2>4
  <1>12. Ordered(toUi', session)
    <2>1. ASSUME NEW i \in DOMAIN toUi, IsTool(toUi[i], session), OfCall(toUi[i]) = OfCall(m)
          PROVE  Rank(toUi[i].kind) < Rank(c)
      <3>1. toUi[i].turn = slot /\ toUi[i].call = n BY <2>1 DEF OfCall
      <3>2. ~(n < n) OBVIOUS
      <3> QED BY <1>9, <2>1, <3>1, <3>2
    <2>2. Ordered(toUi, session) BY DEF ToolInv
    <2> QED BY <1>2, <2>1, <2>2, OrderedEmbed
  <1>13. \A a : Announced(toUi, session, a) => Announced(toUi', session, a)
    BY <1>2, AnnouncedStays
  <1>14. Fits(toUi', session, pane.turn, approval')
    <2>1. ASSUME NEW i \in DOMAIN toUi', IsTool(toUi'[i], session), toUi'[i].turn = pane.turn
          PROVE  FitsIn(toUi'[i], toUi', session, approval)
      <3> DEFINE y == toUi'[i]
      <3>1. FitsIn(y, toUi, session, approval)
        <4>1. CASE i = k BY <1>2, <2>1, <4>1
        <4>2. CASE i \in DOMAIN toUi
          <5>1. y = toUi[i] BY <1>2, <4>2
          <5> QED BY <2>1, <4>2, <5>1 DEF ToolInv, Fits, FitsIn
        <4> QED BY <1>2, <4>1, <4>2
      <3> HIDE DEF y
      <3>2. FitsIn(y, toUi', session, approval) BY <1>13, <3>1 DEF FitsIn, Runs
      <3> QED BY <3>2 DEF y
    <2> QED BY <2>1 DEF Fits, FitsIn
  <1>15. Decided(toHost', pane.turn, approval') /\ DecidedOnce(toHost') BY DEF ToolInv
  \* No decision of the call is on the way any more.
  <1>16. ASSUME NEW j \in DOMAIN toHost, toHost[j].method = "respond"
         PROVE  /\ phase[toHost[j].turn] # "idle"
                /\ toHost[j].turn = slot => toHost[j].call < n
    <2>1. /\ phase[toHost[j].turn] # "idle"
          /\ toHost[j].turn = slot =>
               \/ toHost[j].call < call.count
               \/ /\ toHost[j].call = call.count
                  /\ call.at \notin {"allowed", "denied", "started"}
      BY <1>16 DEF ToolInv, Undecided
    <2>2. toHost[j].call \in Nat
      <3>1. toHost[j].call \in 1 .. MaxCalls BY <1>1, <1>16, TurnOfFrame
      <3> QED BY <3>1, WindowAssumption
    <2> DEFINE d == toHost[j].call
               g == call.count
    <2>3. d \in Nat /\ g \in Nat BY <1>3, <2>2
    <2>4. toHost[j].turn = slot => d < g \/ (d = g /\ n = g + 1) BY <2>1
    <2>5. n = g + 1 \/ n = g BY <1>8
    <2> HIDE DEF d, g
    <2>6. d < g \/ (d = g /\ n = g + 1) => d < n BY <2>3, <2>5
    <2> QED BY <2>1, <2>4, <2>6 DEF d
  <1>17. Undecided(toHost', phase', slot', call') BY <1>16 DEF Undecided
  <1>18. Unheard(toHost', toUi', session)
    <2>1. \A j \in DOMAIN toHost : toHost[j].method = "respond" => OfCall(m) # OfCall(toHost[j])
      <3>1. ASSUME NEW j \in DOMAIN toHost, toHost[j].method = "respond",
                   OfCall(m) = OfCall(toHost[j])
            PROVE  FALSE
        <4>1. toHost[j].turn = slot /\ toHost[j].call = n BY <3>1 DEF OfCall
        <4> QED BY <1>16, <3>1, <4>1
      <3> QED BY <3>1
    <2>2. Unheard(toHost, toUi, session) BY DEF ToolInv
    <2>3. Embeds(toHost', toHost, 0) /\ 0 \notin DOMAIN toHost' BY <1>1, UnreadFacts
    <2> QED BY <1>2, <2>1, <2>2, <2>3, UnheardEmbed
  <1>19. CallFits(toUi', session, slot', call', pane.turn, approval')
    <2>1. ASSUME slot = pane.turn, call'.at = "started"
          PROVE  Runs(toUi', session, approval, <<slot, n>>)
      <3>1. c = "toolStarted" /\ approval[<<slot, n>>] = "allowed" BY <2>1
      <3>2. OfCall(toUi'[k]) = <<slot, n>> /\ IsTool(toUi'[k], session) /\ toUi'[k].kind = c
        BY <1>2 DEF OfCall, IsTool
      <3>3. Announced(toUi', session, <<slot, n>>) BY <1>2, <3>1, <3>2 DEF Announced
      <3> QED BY <3>1, <3>3 DEF Runs
    <2> QED BY <2>1 DEF CallFits
  <1> QED BY <1>10, <1>11, <1>12, <1>14, <1>15, <1>17, <1>18, <1>19 DEF ToolInv

LEMMA ToolSaysIdle ==
  ASSUME WindowTypes, HostInv, IdleInv, TurnStep, NEW c \in ToolKinds, NEW n \in 1 .. MaxCalls,
         NEW z \in ToolStatuses, Sends(c, slot, n, z), UNCHANGED <<slot, phase, report>>,
         call'.count = n,
         \/ n = call.count + 1 /\ c = "approvalRequired"
         \/ /\ n = call.count /\ call.at \in {"allowed", "denied", "started"}
            /\ Told(call.at) < Rank(c),
         Rank(c) <= Told(call'.at), call'.at \notin {"allowed", "denied"}, call.at # "failing",
         slot = pane.turn =>
           /\ c = "approvalRequired" => approval[<<slot, n>>] = "none"
           /\ c = "toolStarted" => approval[<<slot, n>>] = "allowed"
           /\ c = "toolCompleted" =>
                IF z = "denied" THEN approval[<<slot, n>>] = "closed"
                ELSE Runs(toUi, session, approval, <<slot, n>>),
         call'.at = "started" => c = "toolStarted"
  PROVE  IdleInv'
  <1>1. /\ slot # NoTurn /\ slot \in Turns /\ slot \in drawn /\ Beyond
        /\ UNCHANGED <<bridge, toHost, host, cancelled>> /\ Alive' = Alive
        /\ report[slot] = "none"
    BY StepIs
  <1>2. TalkTypes /\ drawn \subseteq Turns BY Shape
  <1>3. n \in Nat /\ n # 0 /\ n \in 0..MaxCalls BY WindowAssumption
  <1>4. c \in Kinds \ BareKinds BY KindsAre
  <1> DEFINE t == slot
  <1>5. Sends(c, t, n, z) /\ t \in drawn BY <1>1
  <1> HIDE DEF t
  <1>6. PICK m \in Messages : GoodSaid(m, c, t, n, z) BY <1>3, <1>4, <1>5, SaysIs
  <1>7. /\ m.session = session /\ m.kind = c /\ m.turn = slot /\ m.call = n /\ m.status = z
        /\ toUi' = Append(toUi, m)
    BY <1>6 DEF GoodSaid, t
  <1>8. /\ session' = session /\ pane' = pane /\ gate' = gate /\ drawn' = drawn
        /\ approval' = approval
    BY <1>1, BeyondIs
  <1>9. ToolInv /\ GateInv /\ (Alive => HandshakeInv) BY DEF IdleInv
  <1>10. slot = pane.turn => FitsIn(m, toUi, session, approval)
    <2>1. OfCall(m) = <<slot, n>> BY <1>7 DEF OfCall
    <2> QED BY <1>7, <2>1 DEF FitsIn
  <1>11. toHost' = toHost BY <1>1
  <1>12. ToolInv' BY <1>1, <1>3, <1>7, <1>8, <1>9, <1>10, <1>11, ToolSays
  <1>13. PICK k \in Nat : Embeds(toUi', toUi, k) /\ KeepsAll(toUi', toUi) /\ toUi'[k] = m
    BY <1>2, <1>7, SaidFacts
  <1>14. /\ toUi'[k].kind \notin {"Stopped", "Failed", "turnError", "completed", "error"}
         /\ toUi'[k].kind \notin AnswerKinds
    BY <1>7, <1>13 DEF ToolKinds, AnswerKinds
  <1>15. Embeds(toHost', toHost, 0) /\ 0 \notin DOMAIN toHost' BY <1>2, <1>11, UnreadFacts
  <1>16. Active' => Active /\ slot' = slot BY DEF Active
  <1>17. GateInv' BY <1>1, <1>2, <1>8, <1>9, <1>13, <1>14, <1>15, <1>16, GateKeeps
  <1>18. Alive' => HandshakeInv' BY <1>1, <1>8, <1>9, <1>13, <1>14, <1>15, InitKeeps
  <1> QED BY <1>12, <1>17, <1>18 DEF IdleInv

LEMMA AsksIdle ==
  ASSUME WindowTypes, HostInv, IdleInv, HostAsks
  PROVE  IdleInv'
  <1> DEFINE c == "approvalRequired"
             z == ""
             n == call.count + 1
  <1>1. /\ TurnStep /\ call.at = "none" /\ call.count < MaxCalls
        /\ call' = [at |-> "asked", count |-> n] /\ Sends(c, slot, n, z)
        /\ UNCHANGED <<slot, phase, report>>
    BY DEF HostAsks
  <1>2. call'.at = "asked" /\ call'.count = n /\ n # 0 /\ n \in 0..MaxCalls /\ call.count \in Nat
    BY <1>1, AsksIs
  <1>3. n \in 1 .. MaxCalls BY <1>2
  <1>4. c \in ToolKinds /\ c = "approvalRequired" /\ Rank(c) = 1 BY RankIs DEF ToolKinds
  <1>5. z \in ToolStatuses BY DEF ToolStatuses
  <1>6. Rank(c) <= Told(call'.at) BY <1>2, <1>4, RankIs
  <1>7. ASSUME slot = pane.turn PROVE approval[<<slot, n>>] = "none"
    <2> DEFINE a == <<slot, n>>
    <2>1. slot \in Turns BY <1>1, StepIs
    <2>2. a \in Approvals /\ a[1] = slot /\ a[2] = n BY <1>3, <2>1 DEF Approvals
    <2> HIDE DEF a
    <2>3. approval[a] # "none" => n <= call.count BY <2>2 DEF IdleInv, ToolInv, Asked
    <2>4. ~(n <= call.count) BY <1>2
    <2> QED BY <2>3, <2>4 DEF a
  <1>8. call'.at \notin {"allowed", "denied"} /\ call.at # "failing" /\ call'.at # "started"
    BY <1>1, <1>2
  <1>9. n = call.count + 1 OBVIOUS
  <1>10. c \notin {"toolStarted", "toolCompleted"} OBVIOUS
  <1>11. Sends(c, slot, n, z) /\ TurnStep /\ UNCHANGED <<slot, phase, report>> /\ call'.count = n
    BY <1>1, <1>2
  <1> HIDE DEF c, z, n
  <1>12. slot = pane.turn =>
           /\ c = "approvalRequired" => approval[<<slot, n>>] = "none"
           /\ c = "toolStarted" => approval[<<slot, n>>] = "allowed"
           /\ c = "toolCompleted" =>
                IF z = "denied" THEN approval[<<slot, n>>] = "closed"
                ELSE Runs(toUi, session, approval, <<slot, n>>)
    BY <1>7, <1>10
  <1> QED BY <1>3, <1>4, <1>5, <1>6, <1>8, <1>9, <1>11, <1>12, ToolSaysIdle

\* A message of the call that was decided or runs.
LEMMA CallSaysIdle ==
  ASSUME WindowTypes, HostInv, CallNumbered, IdleInv, TurnStep,
         NEW c \in {"toolStarted", "toolCompleted"}, NEW z \in ToolStatuses,
         Sends(c, slot, call.count, z), UNCHANGED <<slot, phase, report>>,
         call.at \in {"allowed", "denied", "started"}, NEW x \in {"started", "none"},
         call' = [call EXCEPT !.at = x], Told(call.at) < Rank(c), Rank(c) <= Told(x),
         c = "toolStarted" => call.at = "allowed",
         c = "toolCompleted" => IF z = "denied" THEN call.at = "denied" ELSE call.at = "started",
         x = "started" => c = "toolStarted"
  PROVE  IdleInv'
  <1> DEFINE n == call.count
  <1>1. slot # NoTurn BY StepIs
  <1>2. <<slot, n>> \in Approvals BY <1>1, DecidedCall
  <1>3. n \in 1 .. MaxCalls BY <1>2 DEF Approvals
  <1>4. call'.at = x /\ call'.count = n
    <2>1. call \in Calls BY Shape
    <2> QED BY <2>1 DEF Calls
  <1>5. ASSUME slot = pane.turn
        PROVE  /\ c = "toolStarted" => approval[<<slot, n>>] = "allowed"
               /\ c = "toolCompleted" =>
                    IF z = "denied" THEN approval[<<slot, n>>] = "closed"
                    ELSE Runs(toUi, session, approval, <<slot, n>>)
    <2>1. /\ call.at = "allowed" => approval[<<slot, n>>] = "allowed"
          /\ call.at = "denied" => approval[<<slot, n>>] = "closed"
          /\ call.at = "started" => Runs(toUi, session, approval, <<slot, n>>)
      BY <1>1, <1>5 DEF IdleInv, ToolInv, CallFits
    <2> QED BY <2>1
  <1>6. c \in ToolKinds /\ c # "approvalRequired" BY DEF ToolKinds
  <1>7. /\ call'.at \notin {"allowed", "denied"} /\ call.at # "failing"
        /\ call'.at = "started" => c = "toolStarted"
    BY <1>4
  <1>8. Rank(c) <= Told(call'.at) BY <1>4
  <1>9. n = call.count /\ Sends(c, slot, n, z) OBVIOUS
  <1> HIDE DEF n
  <1> QED BY <1>3, <1>4, <1>5, <1>6, <1>7, <1>8, <1>9, ToolSaysIdle

LEMMA StartsToolIdle ==
  ASSUME WindowTypes, HostInv, CallNumbered, IdleInv, HostStartsTool
  PROVE  IdleInv'
  <1> DEFINE c == "toolStarted"
             z == ""
             x == "started"
  <1>1. /\ TurnStep /\ call.at = "allowed" /\ call' = [call EXCEPT !.at = x]
        /\ Sends(c, slot, call.count, z) /\ UNCHANGED <<slot, phase, report>>
    BY DEF HostStartsTool
  <1>2. /\ c \in {"toolStarted", "toolCompleted"} /\ x \in {"started", "none"}
        /\ Told(call.at) = 1 /\ Rank(c) = 2 /\ Told(x) = 2 /\ c = "toolStarted"
    BY <1>1, RankIs
  <1>3. z \in ToolStatuses BY DEF ToolStatuses
  <1>4. Told(call.at) < Rank(c) /\ Rank(c) <= Told(x) BY <1>2
  <1>5. c # "toolCompleted" /\ call.at \in {"allowed", "denied", "started"} BY <1>1
  <1> HIDE DEF c, x, z
  <1> QED BY <1>1, <1>2, <1>3, <1>4, <1>5, CallSaysIdle

LEMMA ReturnsToolIdle ==
  ASSUME WindowTypes, HostInv, CallNumbered, IdleInv, HostToolReturns \/ HostReportsDenial
  PROVE  IdleInv'
  <1> DEFINE c == "toolCompleted"
             x == "none"
  <1>1. /\ TurnStep /\ call' = [call EXCEPT !.at = x] /\ UNCHANGED <<slot, phase, report>>
    BY DEF HostToolReturns, HostReportsDenial
  <1>2. \E z \in {"succeeded", "failed", "unknown", "denied"} :
          /\ Sends(c, slot, call.count, z)
          /\ IF z = "denied" THEN call.at = "denied" ELSE call.at = "started"
    <2>1. CASE HostReportsDenial BY <2>1 DEF HostReportsDenial
    <2>2. CASE HostToolReturns
      <3>1. call.at = "started" BY <2>2 DEF HostToolReturns
      <3>2. PICK z \in IF cancelled THEN {"unknown"} ELSE {"succeeded", "failed"} :
              Sends(c, slot, call.count, z)
        BY <2>2 DEF HostToolReturns
      <3>3. z \in {"succeeded", "failed", "unknown"} BY <3>2
      <3> QED BY <3>1, <3>2, <3>3
    <2> QED BY <2>1, <2>2
  <1>3. PICK z \in {"succeeded", "failed", "unknown", "denied"} :
          /\ Sends(c, slot, call.count, z)
          /\ IF z = "denied" THEN call.at = "denied" ELSE call.at = "started"
    BY <1>2
  <1>4. /\ c \in {"toolStarted", "toolCompleted"} /\ x \in {"started", "none"}
        /\ Rank(c) = 3 /\ Told(x) = 3 /\ c # "toolStarted" /\ x # "started"
    BY RankIs
  <1>5. call.at \in {"denied", "started"} BY <1>3
  <1>6. Told(call.at) \in {1, 2} BY <1>5, RankIs
  <1>7. Told(call.at) < Rank(c) /\ Rank(c) <= Told(x) BY <1>4, <1>6
  <1>8. z \in ToolStatuses BY <1>3 DEF ToolStatuses
  <1>9. call.at \in {"allowed", "denied", "started"} BY <1>5
  <1> HIDE DEF c, x
  <1> QED BY <1>1, <1>3, <1>4, <1>7, <1>8, <1>9, CallSaysIdle

LEMMA DropsCallIdle ==
  ASSUME WindowTypes, HostInv, IdleInv, HostDropsCall
  PROVE  IdleInv'
  <1>1. /\ TurnStep /\ call.at \in {"asked", "allowed", "denied"}
        /\ call' = [call EXCEPT !.at = "none"] /\ UNCHANGED <<slot, phase, report, toUi>>
    BY DEF HostDropsCall
  <1>2. /\ Beyond /\ UNCHANGED <<bridge, toHost, host, cancelled>> /\ Alive' = Alive
    BY <1>1, StepIs
  <1>3. call'.at = "none" /\ call'.count = call.count
    <2>1. call \in Calls BY Shape
    <2> QED BY <1>1, <2>1 DEF Calls
  <1>4. /\ session' = session /\ pane' = pane /\ gate' = gate /\ drawn' = drawn
        /\ approval' = approval
    BY <1>2, BeyondIs
  <1>5. TalkTypes BY Shape
  <1>6. Embeds(toUi', toUi, 0) /\ KeepsAll(toUi', toUi) /\ 0 \notin DOMAIN toUi'
    BY <1>1, <1>5, UnsaidFacts
  <1>7. Embeds(toHost', toHost, 0) /\ 0 \notin DOMAIN toHost' BY <1>2, <1>5, UnreadFacts
  <1>8. Active' => Active /\ slot' = slot BY <1>1 DEF Active
  <1>9. TurnGoes(phase, phase', slot, slot', call, call') BY <1>1, <1>3 DEF TurnGoes
  <1>10. phase' = phase /\ host' = host BY <1>1, <1>2
  <1> QED BY <1>2, <1>4, <1>6, <1>7, <1>8, <1>9, <1>10, IdleKeeps

\* The turn is over for ChatHost, which says so or has lost the report.
LEMMA EndSaysIdle ==
  ASSUME WindowTypes, HostInv, IdleInv, TurnStep, UNCHANGED <<slot, phase>>, ~Active',
         TurnGoes(phase, phase', slot, slot', call, call'),
         toUi' = toUi \/ \E c \in EndKinds : Sends(c, slot, 0, "")
  PROVE  IdleInv'
  <1>1. /\ slot \in Turns /\ slot \in drawn /\ Beyond /\ phase[slot] = "running"
        /\ UNCHANGED <<bridge, toHost, host, cancelled>> /\ Alive' = Alive
    BY StepIs
  <1>2. TalkTypes /\ drawn \subseteq Turns BY Shape
  <1>3. /\ session' = session /\ pane' = pane /\ gate' = gate /\ drawn' = drawn
        /\ approval' = approval
    BY <1>1, BeyondIs
  <1>4. ToolInv /\ GateInv /\ (Alive => HandshakeInv) BY DEF IdleInv
  <1>5. PICK k \in Nat : /\ Embeds(toUi', toUi, k) /\ KeepsAll(toUi', toUi)
                         /\ k \in DOMAIN toUi' => toUi'[k].kind \in EndKinds /\ toUi'[k].turn = slot
    <2>1. CASE toUi' = toUi
      <3>1. Embeds(toUi', toUi, 0) /\ KeepsAll(toUi', toUi) /\ 0 \notin DOMAIN toUi'
        BY <1>2, <2>1, UnsaidFacts
      <3> QED BY <3>1
    <2>2. ASSUME NEW c \in EndKinds, Sends(c, slot, 0, "")
          PROVE  \E k \in Nat : /\ Embeds(toUi', toUi, k) /\ KeepsAll(toUi', toUi)
                                /\ k \in DOMAIN toUi' =>
                                     toUi'[k].kind \in EndKinds /\ toUi'[k].turn = slot
      <3>8. 0 \in 0..MaxCalls BY ONLY WindowAssumption
      <3> DEFINE t == slot
                 z == ""
                 n == 0
      <3>1. c \in Kinds \ BareKinds /\ c \notin ToolKinds BY KindsAre
      <3>2. z \in ToolStatuses BY DEF ToolStatuses
      <3>3. n \in 0..MaxCalls BY <3>8
      <3>4. Sends(c, t, n, z) /\ t \in drawn BY <1>1, <2>2
      <3> HIDE DEF t, z, n
      <3>5. PICK m \in Messages : GoodSaid(m, c, t, n, z) BY <3>1, <3>2, <3>3, <3>4, SaysIs
      <3>6. m.kind = c /\ m.turn = slot /\ toUi' = Append(toUi, m) BY <3>5 DEF GoodSaid, t
      <3>7. PICK k \in Nat : Embeds(toUi', toUi, k) /\ KeepsAll(toUi', toUi) /\ toUi'[k] = m
        BY <1>2, <3>6, SaidFacts
      <3> QED BY <2>2, <3>6, <3>7
    <2> QED BY <2>1, <2>2
  <1>6. Embeds(toHost', toHost, 0) /\ 0 \notin DOMAIN toHost' BY <1>1, <1>2, UnreadFacts
  <1>7. GateInv'
    <2>1. pane'.turn # NoTurn => gate' /\ pane'.turn \in drawn' BY <1>3, <1>4 DEF GateInv
    <2>2. Ends(toUi', session, phase, slot, Active')
      <3>1. Ends(toUi, session, phase, slot, Active) BY <1>4 DEF GateInv
      <3>2. k \in DOMAIN toUi' /\ IsEnd(toUi'[k], session) => phase[toUi'[k].turn] # "idle"
        BY <1>1, <1>5
      <3> QED BY <1>5, <3>1, <3>2, EndsEmbed
    <2>3. Downs(toUi', session, Alive')
      <3>1. Downs(toUi, session, Alive) BY <1>4 DEF GateInv
      <3>2. k \in DOMAIN toUi' => toUi'[k].kind \notin {"Stopped", "Failed"}
        BY <1>5 DEF EndKinds
      <3> QED BY <1>1, <1>5, <3>1, <3>2, DownsEmbed
    <2>4. ASSUME Alive
          PROVE  /\ TurnFrames(toHost', pane.turn, phase)
                 /\ Refusals(toUi', session, pane.turn, phase)
                 /\ RefusedOnce(toHost', toUi', session)
      <3>1. /\ TurnFrames(toHost, pane.turn, phase) /\ Refusals(toUi, session, pane.turn, phase)
            /\ RefusedOnce(toHost, toUi, session)
        BY <1>4, <2>4 DEF GateInv
      <3>2. k \in DOMAIN toUi' => ~IsRefusal(toUi'[k], session) BY <1>5 DEF EndKinds, IsRefusal
      <3>3. TurnFrames(toHost', pane.turn, phase) BY <1>1, <3>1
      <3>4. Refusals(toUi', session, pane.turn, phase) BY <1>5, <3>1, <3>2, RefusalsEmbed
      <3>5. RefusedOnce(toHost', toUi', session) BY <1>5, <1>6, <3>1, <3>2, RefusedOnceEmbed
      <3> QED BY <3>3, <3>4, <3>5
    <2>5. phase' = phase /\ slot' = slot OBVIOUS
    <2> QED BY <1>1, <1>3, <2>1, <2>2, <2>3, <2>4, <2>5 DEF GateInv
  <1>8. Alive' => HandshakeInv'
    <2>1. k \in DOMAIN toUi' => toUi'[k].kind \notin AnswerKinds
      BY <1>5 DEF EndKinds, AnswerKinds
    <2> QED BY <1>1, <1>3, <1>4, <1>5, <1>6, <2>1, InitKeeps
  <1>9. ToolInv'
    <2>1. k \in DOMAIN toUi' => toUi'[k].kind \notin ToolKinds BY <1>5, KindsAre
    <2> QED BY <1>2, <1>3, <1>4, <1>5, <1>6, <2>1, ToolKeeps
  <1> QED BY <1>7, <1>8, <1>9 DEF IdleInv

LEMMA ReportsIdle ==
  ASSUME WindowTypes, HostInv, IdleInv, HostReportsError \/ HostReportsEnd
  PROVE  IdleInv'
  <1>1. call \in Calls /\ report \in [Turns -> Life!Reports] BY Shape
  <1>2. CASE HostReportsError
    <2>1. /\ TurnStep /\ call.at = "none" /\ call' = [call EXCEPT !.at = "failing"]
          /\ UNCHANGED <<slot, phase, report>>
          /\ toUi' = toUi \/ Sends("error", slot, 0, "")
      BY <1>2 DEF HostReportsError
    <2>2. call'.at = "failing" /\ call'.count = call.count BY <1>1, <2>1 DEF Calls
    <2>3. ~Active' BY <2>2 DEF Active
    <2>4. TurnGoes(phase, phase', slot, slot', call, call') BY <2>1, <2>2 DEF TurnGoes
    <2>5. toUi' = toUi \/ \E c \in EndKinds : Sends(c, slot, 0, "") BY <2>1 DEF EndKinds
    <2> QED BY <2>1, <2>3, <2>4, <2>5, EndSaysIdle
  <1>3. CASE HostReportsEnd
    <2>1. /\ TurnStep /\ Life!Report(slot) /\ call' = call
          /\ toUi' = toUi \/ Sends("completed", slot, 0, "")
          /\ report'[slot] \in {"completed", "lost"}
      BY <1>3 DEF HostReportsEnd
    <2>2. UNCHANGED <<slot, phase>> BY <2>1 DEF Life!Report
    <2>3. ~Active' BY <2>1, <2>2 DEF Active
    <2>4. TurnGoes(phase, phase', slot, slot', call, call') BY <2>1, <2>2 DEF TurnGoes
    <2>5. toUi' = toUi \/ \E c \in EndKinds : Sends(c, slot, 0, "") BY <2>1 DEF EndKinds
    <2> QED BY <2>1, <2>2, <2>3, <2>4, <2>5, EndSaysIdle
  <1> QED BY <1>2, <1>3

LEMMA EndsIdle ==
  ASSUME WindowTypes, HostInv, IdleInv, HostEndsTurn
  PROVE  IdleInv'
  <1>1. /\ slot # NoTurn /\ Beyond /\ UNCHANGED <<bridge, toHost, toUi, host>> /\ call' = NoCall
    BY DEF HostEndsTurn
  <1>2. slot' = NoTurn /\ \A t \in Turns : phase'[t] = "idle" <=> phase[t] = "idle" BY EndsTypes
  <1>3. /\ session' = session /\ pane' = pane /\ gate' = gate /\ drawn' = drawn
        /\ approval' = approval
    BY <1>1, BeyondIs
  <1>4. TalkTypes BY Shape
  <1>5. Embeds(toUi', toUi, 0) /\ KeepsAll(toUi', toUi) /\ 0 \notin DOMAIN toUi'
    BY <1>1, <1>4, UnsaidFacts
  <1>6. Embeds(toHost', toHost, 0) /\ 0 \notin DOMAIN toHost' BY <1>1, <1>4, UnreadFacts
  <1>7. ~Active' BY <1>2 DEF Active
  <1>8. TurnGoes(phase, phase', slot, slot', call, call') BY <1>2 DEF TurnGoes
  <1>9. Alive' = Alive /\ host' = host BY <1>1 DEF Alive
  <1> QED BY <1>2, <1>3, <1>5, <1>6, <1>7, <1>8, <1>9, IdleKeeps

LEMMA TurnIdle ==
  ASSUME WindowTypes, HostInv, CallNumbered, IdleInv, HostTurn
  PROVE  IdleInv'
  BY AsksIdle, StartsToolIdle, ReturnsToolIdle, DropsCallIdle, ReportsIdle, EndsIdle DEF HostTurn
-----------------------------------------------------------------------------
(* The invariant of the window and its theorems.                           *)

LEMMA Numbered ==
  ASSUME CallNumbered,
         \/ call' = call
         \/ call'.at \in {"none", "failing"}
         \/ call'.count = call.count /\ call.at \notin {"none", "failing"}
         \/ call'.count # 0
  PROVE  CallNumbered'
  BY DEF CallNumbered

LEMMA TurnNumbered ==
  ASSUME WindowTypes, CallNumbered, HostTurn
  PROVE  CallNumbered'
  <1>1. call \in Calls BY Shape
  <1>2. ASSUME HostAsks PROVE CallNumbered'
    <2>1. call.count < MaxCalls /\ call' = [at |-> "asked", count |-> call.count + 1]
      BY <1>2 DEF HostAsks
    <2>2. call'.count = call.count + 1 /\ call.count + 1 # 0 BY <2>1, AsksIs
    <2> QED BY <2>2, Numbered
  <1>3. ASSUME HostStartsTool PROVE CallNumbered'
    <2>1. call'.count = call.count /\ call.at = "allowed"
      BY <1>1, <1>3 DEF HostStartsTool, Calls
    <2> QED BY <2>1, Numbered
  <1>4. ASSUME HostToolReturns \/ HostReportsDenial \/ HostDropsCall \/ HostReportsError
        PROVE  CallNumbered'
    <2>1. call'.at \in {"none", "failing"}
      BY <1>1, <1>4 DEF HostToolReturns, HostReportsDenial, HostDropsCall, HostReportsError, Calls
    <2> QED BY <2>1, Numbered
  <1>5. ASSUME HostReportsEnd PROVE CallNumbered' BY <1>5, Numbered DEF HostReportsEnd
  <1>6. ASSUME HostEndsTurn PROVE CallNumbered'
    <2>1. call'.at = "none" BY <1>6 DEF HostEndsTurn, NoCall
    <2> QED BY <2>1, Numbered
  <1> QED BY <1>2, <1>3, <1>4, <1>5, <1>6 DEF HostTurn

LEMMA RouterNumbered ==
  ASSUME WindowTypes, CallNumbered, HostRouter
  PROVE  CallNumbered'
  <1>1. call \in Calls BY Shape
  <1>2. ASSUME HostTakesDecision PROVE CallNumbered'
    <2>1. \/ call' = call
          \/ call'.count = call.count /\ call.at = "asked"
      BY <1>1, <1>2 DEF HostTakesDecision, Calls
    <2> QED BY <2>1, Numbered
  <1>3. ASSUME HostShutsDown PROVE CallNumbered'
    <2>1. call'.at = "none" BY <1>3 DEF HostShutsDown, HostBecomes, NoCall
    <2> QED BY <2>1, Numbered
  <1>4. ASSUME HostInitializes \/ HostPreparesTurn \/ HostAcceptsTurn \/ HostCancelsTurn
        PROVE  CallNumbered'
    <2>1. call' = call
      BY <1>4 DEF HostInitializes, HostPreparesTurn, HostAcceptsTurn, HostCancelsTurn
    <2> QED BY <2>1, Numbered
  <1> QED BY <1>2, <1>3, <1>4 DEF HostRouter

LEMMA BeginStopSame ==
  ASSUME NEW why, BeginStop(why)
  PROVE  call' = call /\ at' = "join"
  BY DEF BeginStop, hostVars

\* What a handler, a click or the timer does while the UI thread runs.
LEMMA UiStep ==
  ASSUME WindowInv, UiHandles \/ Clicks \/ UpdateAssistantContext
  PROVE  WindowInv'
  <1>1. WindowTypes /\ HostInv /\ CallNumbered /\ (at = "idle" => IdleInv) BY DEF WindowInv
  <1>2. CASE UiHandles
    <2>1. at = "idle" /\ Handler
      BY <1>2 DEF UiHandles, SinkDrops, HandleConnected, HandleDown, HandleInitialized,
                  HandleInitializeError, HandleTurnOk, HandleTurnError, HandleEnd,
                  HandleApprovalRequired, HandleToolStarted, HandleToolCompleted, Receives
    <2>2. call' = call /\ at' = at BY <2>1 DEF Handler, hostVars
    <2>3. CallNumbered' BY <1>1, <2>2, Numbered
    <2>4. WindowTypes' /\ HostInv' BY <1>1, <1>2, HandlesTypes
    <2>5. IdleInv' BY <1>1, <1>2, <2>1, HandlesIdle
    <2> QED BY <2>1, <2>2, <2>3, <2>4, <2>5 DEF WindowInv, JoinInv
  <1>3. CASE Clicks
    <2>1. at = "idle"
      BY <1>3 DEF Clicks, SendTurn, AllowClick, DenyClick, StopClick, RetryClick, CloseWindow
    <2>2. call' = call
      <3>1. ASSUME RetryClick \/ CloseWindow PROVE call' = call
        BY <3>1, BeginStopSame DEF RetryClick, CloseWindow
      <3>2. ASSUME NEW t \in Turns, SendTurn(t) PROVE call' = call
        BY <3>2 DEF SendTurn, hostVars
      <3>3. ASSUME NEW a \in Approvals, AllowClick(a) \/ DenyClick(a) PROVE call' = call
        BY <3>3 DEF AllowClick, DenyClick, Handler, hostVars
      <3>4. ASSUME StopClick PROVE call' = call BY <3>4 DEF StopClick, Handler, hostVars
      <3> QED BY <1>3, <3>1, <3>2, <3>3, <3>4 DEF Clicks
    <2>3. CallNumbered' BY <1>1, <2>2, Numbered
    <2>4. IdleInv BY <1>1, <2>1
    <2>5. WindowTypes' /\ HostInv' /\ JoinInv'
      BY <1>1, <1>3, <2>4, ClicksTypes DEF IdleInv, JoinInv
    <2>6. at' = "idle" => IdleInv' BY <1>1, <1>3, <2>4, ClicksIdle
    <2> QED BY <2>3, <2>5, <2>6 DEF WindowInv
  <1>4. CASE UpdateAssistantContext
    <2>1. at = "idle" BY <1>4 DEF UpdateAssistantContext
    <2>2. call' = call
      <3>1. BeginStop("context") \/ Handler BY <1>4 DEF UpdateAssistantContext
      <3> QED BY <3>1, BeginStopSame DEF Handler, hostVars
    <2>3. CallNumbered' BY <1>1, <2>2, Numbered
    <2>4. WindowTypes' /\ HostInv' /\ JoinInv' BY <1>1, <1>4, ContextTypes DEF JoinInv
    <2>5. at' = "idle" => IdleInv' BY <1>1, <1>4, <2>1, ContextIdle
    <2> QED BY <2>3, <2>4, <2>5 DEF WindowInv
  <1> QED BY <1>2, <1>3, <1>4

\* What the bridge, ChatHost and the renderer do, whatever the UI thread does.
LEMMA OtherStep ==
  ASSUME WindowInv, BridgeConnects \/ BridgeConnectsLate \/ BridgeFails \/ HostRouter
                      \/ HostTurn \/ SnapshotChanges
  PROVE  WindowInv'
  <1>1. WindowTypes /\ HostInv /\ CallNumbered /\ JoinInv /\ (at = "idle" => IdleInv)
    BY DEF WindowInv
  <1>2. at' = at /\ approval' = approval
    <2>1. ASSUME BridgeConnects \/ BridgeConnectsLate \/ BridgeFails PROVE UNCHANGED paneVars
      BY <2>1 DEF BridgeConnects, BridgeConnectsLate, BridgeFails, Beyond
    <2>2. ASSUME HostRouter PROVE UNCHANGED paneVars
      BY <2>2 DEF HostRouter, HostInitializes, HostPreparesTurn, HostAcceptsTurn, HostCancelsTurn,
                  HostTakesDecision, HostShutsDown, HostReads, Beyond
    <2>3. ASSUME HostTurn PROVE UNCHANGED paneVars
      BY <2>3 DEF HostTurn, HostAsks, HostStartsTool, HostToolReturns, HostReportsDenial,
                  HostDropsCall, HostReportsError, HostReportsEnd, HostEndsTurn, TurnStep, Beyond
    <2>4. ASSUME SnapshotChanges PROVE UNCHANGED paneVars BY <2>4 DEF SnapshotChanges
    <2>5. UNCHANGED paneVars BY <2>1, <2>2, <2>3, <2>4
    <2> QED BY <2>5 DEF paneVars
  <1>3. JoinInv' BY <1>1, <1>2 DEF JoinInv
  <1>4. CASE BridgeConnects \/ BridgeConnectsLate
    <2>1. CallNumbered'
      BY <1>1, <1>4, Numbered DEF BridgeConnects, BridgeConnectsLate, hostVars
    <2>2. WindowTypes' /\ HostInv' BY <1>1, <1>4, ConnectsTypes
    <2>3. at' = "idle" => IdleInv' BY <1>1, <1>2, <1>4, ConnectsIdle
    <2> QED BY <1>3, <2>1, <2>2, <2>3 DEF WindowInv
  <1>5. CASE BridgeFails
    <2>1. call'.at = "none" BY <1>5 DEF BridgeFails, HostBecomes, NoCall
    <2>2. CallNumbered' BY <1>1, <2>1, Numbered
    <2>3. WindowTypes' /\ HostInv' BY <1>1, <1>5, FailsTypes
    <2>4. at' = "idle" => IdleInv' BY <1>1, <1>2, <1>5, FailsIdle
    <2> QED BY <1>3, <2>2, <2>3, <2>4 DEF WindowInv
  <1>6. CASE HostRouter
    <2>1. WindowTypes' /\ HostInv' /\ CallNumbered' BY <1>1, <1>6, RouterTypes, RouterNumbered
    <2>2. at' = "idle" => IdleInv' BY <1>1, <1>2, <1>6, RouterIdle
    <2> QED BY <1>3, <2>1, <2>2 DEF WindowInv
  <1>7. CASE HostTurn
    <2>1. WindowTypes' /\ HostInv' /\ CallNumbered' BY <1>1, <1>7, TurnTypes, TurnNumbered
    <2>2. at' = "idle" => IdleInv' BY <1>1, <1>2, <1>7, TurnIdle
    <2> QED BY <1>3, <2>1, <2>2 DEF WindowInv
  <1>8. CASE SnapshotChanges
    <2>1. WindowTypes' /\ HostInv' /\ UNCHANGED <<paneVars, bridge, toHost, toUi, hostVars>>
      BY <1>1, <1>8, SnapshotTypes
    <2>2. CallNumbered' BY <1>1, <2>1, Numbered DEF hostVars
    <2>3. at' = "idle" => IdleInv' BY <1>1, <1>2, <2>1, SnapshotIdle
    <2> QED BY <1>3, <2>1, <2>2, <2>3 DEF WindowInv
  <1> QED BY <1>4, <1>5, <1>6, <1>7, <1>8

LEMMA ReturnStep ==
  ASSUME WindowInv, StopReturns
  PROVE  WindowInv'
  <1>1. WindowTypes /\ HostInv /\ CallNumbered /\ JoinInv BY DEF WindowInv
  <1>2. call'.at = "none"
    <2>1. \E h \in {NoHost, NewHost} : HostBecomes(h) BY DEF StopReturns
    <2>2. call' = NoCall BY <2>1 DEF HostBecomes
    <2> QED BY <2>2 DEF NoCall
  <1>3. CallNumbered' BY <1>1, <1>2, Numbered
  <1>4. WindowTypes' /\ HostInv' /\ JoinInv' BY <1>1, ReturnTypes DEF JoinInv
  <1>5. at' = "idle" => IdleInv' BY <1>1, ReturnIdle
  <1> QED BY <1>3, <1>4, <1>5 DEF WindowInv

LEMMA WindowStep ==
  ASSUME WindowInv, [WindowNext]_windowVars
  PROVE  WindowInv'
  <1>1. CASE WindowNext BY <1>1, UiStep, OtherStep, ReturnStep DEF WindowNext
  <1>2. CASE UNCHANGED windowVars
    <2>1. WindowTypes' /\ HostInv' /\ CallNumbered' /\ JoinInv'
      <3>1. UNCHANGED <<snapshot, events, at, after, session, pane, drawn, approval, gate,
                        bridge, toHost, toUi, host, slot, phase, report, cancelled, call>>
        BY <1>2 DEF windowVars, paneVars, hostVars
      <3>2. WindowTypes /\ HostInv /\ CallNumbered /\ JoinInv BY DEF WindowInv
      <3>3. WindowTypes'
        BY <3>1, <3>2 DEF WindowTypes, UiTypes, ChatTypes, TalkTypes, Life!TypeOK
      <3>4. HostInv' /\ CallNumbered' /\ JoinInv'
        BY <3>1, <3>2 DEF HostInv, Alive, CallNumbered, JoinInv
      <3> QED BY <3>3, <3>4
    <2>2. at' = "idle" => IdleInv'
      <3>1. UNCHANGED <<paneVars, bridge, toHost, toUi, hostVars>> /\ at' = at
        BY <1>2 DEF windowVars, paneVars
      <3> QED BY <3>1, SnapshotIdle DEF WindowInv
    <2> QED BY <2>1, <2>2 DEF WindowInv
  <1> QED BY <1>1, <1>2

LEMMA WindowStarts ==
  ASSUME WindowInit
  PROVE  WindowInv
  <1>1. snapshot \in Snapshots BY DEF WindowInit, Snapshots
  <1>2. /\ events = 0 /\ at = "idle" /\ after = NotStopping /\ session = 1 /\ pane = NewUi(snapshot)
        /\ drawn = {} /\ approval = NoApprovals /\ gate = FALSE /\ bridge = "starting"
        /\ toHost = << >> /\ toUi = << >> /\ host = NewHost /\ Life!Init /\ cancelled = FALSE
        /\ call = NoCall
    BY DEF WindowInit
  <1>3. pane \in Panes /\ pane.turn = NoTurn /\ ~pane.initialized BY <1>1, <1>2, NewUiIs
  <1>4. slot = NoTurn /\ \A t \in Turns : phase[t] = "idle" BY <1>2 DEF Life!Init
  <1>5. DOMAIN toHost = {} /\ DOMAIN toUi = {} BY <1>2
  <1>6. WindowTypes
    <2>1. UiTypes BY <1>2, <1>3, NoApprovalsIs DEF UiTypes, NotStopping
    <2>2. Life!TypeOK
      BY <1>2 DEF Life!Init, Life!TypeOK, Life!Phases, Life!Reports, Life!Statuses
    <2>3. ChatTypes BY <1>2, <2>2, HostsAre, NoCallIs DEF ChatTypes
    <2>4. toHost \in Seq(Frames) /\ toUi \in Seq(Messages) BY <1>2
    <2>5. TalkTypes BY <1>5, <2>4 DEF TalkTypes, FrameTypes, MessageTypes
    <2>6. Len(toHost) <= QueueLimit BY <1>2, WindowAssumption
    <2>7. events \in 0..MaxEvents BY <1>2, WindowAssumption
    <2> QED BY <1>1, <1>2, <2>1, <2>3, <2>5, <2>6, <2>7 DEF WindowTypes
  <1>7. HostInv BY <1>2, <1>4 DEF HostInv
  <1>8. CallNumbered /\ JoinInv BY <1>2, NoCallIs DEF CallNumbered, JoinInv
  <1>9. GateInv
    <2>1. ~Active BY <1>4 DEF Active
    <2> QED BY <1>3, <1>5, <2>1 DEF GateInv, Ends, Downs, TurnFrames, Refusals, RefusedOnce
  <1>10. HandshakeInv BY <1>3, <1>5 DEF HandshakeInv, Ready, InitFrames, InitAnswers, InitOnce
  <1>11. ToolInv
    <2>1. Asked(approval, pane.turn, phase, slot, call) BY <1>2 DEF Asked, NoApprovals
    <2>2. Known(toUi, session, phase, slot, call) /\ Ordered(toUi, session)
          /\ Fits(toUi, session, pane.turn, approval)
      BY <1>5 DEF Known, Ordered, Fits
    <2>3. Decided(toHost, pane.turn, approval) /\ DecidedOnce(toHost)
          /\ Undecided(toHost, phase, slot, call) /\ Unheard(toHost, toUi, session)
      BY <1>5 DEF Decided, DecidedOnce, Undecided, Unheard
    <2>4. CallFits(toUi, session, slot, call, pane.turn, approval) BY <1>4 DEF CallFits
    <2> QED BY <2>1, <2>2, <2>3, <2>4 DEF ToolInv
  <1> QED BY <1>6, <1>7, <1>8, <1>9, <1>10, <1>11 DEF WindowInv, IdleInv

\* WindowInv is inductive: whichever of the UI thread, the bridge, the request loop and the turn
\* of ChatHost takes the next step, what is on the way fits what each of them remembers.
THEOREM WindowInvariant == WindowSpec => []WindowInv
  <1>1. WindowInit => WindowInv BY WindowStarts
  <1>2. WindowInv /\ [WindowNext]_windowVars => WindowInv' BY WindowStep
  <1> QED BY <1>1, <1>2, PTL DEF WindowSpec

\* Every variable keeps its type, and a message is never of a session that is yet to come.
THEOREM WindowTypeCorrect == WindowSpec => []WindowTypeOK
  <1>1. WindowInv => WindowTypeOK
    <2> SUFFICES ASSUME WindowInv PROVE WindowTypeOK OBVIOUS
    <2>1. /\ WindowTypes /\ FrameTypes(toHost, drawn) /\ MessageTypes(toUi, session, drawn)
          /\ drawn \subseteq Turns
      BY Shape DEF WindowInv
    <2>2. \A i \in DOMAIN toHost : toHost[i].method \in Methods
      BY <2>1, TurnOfFrame DEF Frames
    <2>3. \A i \in DOMAIN toUi : toUi[i].kind \in Kinds
      BY <2>1, TurnOfMessage DEF Messages
    <2>4. \A i \in DOMAIN toUi : toUi[i].session <= session BY <2>1 DEF MessageTypes
    <2>5. /\ UiTypes /\ ChatTypes /\ snapshot \in Snapshots /\ events \in 0..MaxEvents
          /\ bridge \in {"starting", "open", "late", "failed", "stopped"} /\ Len(toHost) <= QueueLimit
      BY <2>1 DEF WindowTypes
    <2> QED BY <2>2, <2>3, <2>4, <2>5
            DEF WindowTypeOK, UiTypes, ChatTypes, Panes, Hosts, Calls, CardStates
  <1> QED BY <1>1, WindowInvariant, PTL

\* Until ChatHost reports the end or the failure of a turn the render gate is closed, whatever
\* was cancelled, denied, given up by a full queue, or came late from an earlier session.
THEOREM GateAlwaysCovers == WindowSpec => []GateCoversTurn
  <1>1. WindowInv => GateCoversTurn
    <2> SUFFICES ASSUME WindowInv, Busy, at = "idle", call.at # "failing" PROVE gate
      BY DEF GateCoversTurn
    <2>1. GateInv /\ slot # NoTurn BY DEF WindowInv, IdleInv, Busy
    <2>2. Active BY <2>1 DEF Busy, Active
    <2> QED BY <2>1, <2>2 DEF GateInv
  <1> QED BY <1>1, WindowInvariant, PTL

\* What the head of the queue says of a call finds its card.
LEMMA HeadFits ==
  ASSUME WindowInv
  PROVE  ToolMessagesFit
  <1> SUFFICES ASSUME at = "idle", toUi # << >>, M.session = session, Current
               PROVE  /\ M.kind = "toolStarted" => StartFits
                      /\ M.kind = "toolCompleted" => ResultFits
    BY DEF ToolMessagesFit
  <1>1. WindowTypes /\ ToolInv BY DEF WindowInv, IdleInv
  <1>2. toUi \in Seq(Messages) BY <1>1, Shape DEF MessageTypes
  <1>3. M = toUi[1] /\ 1 \in DOMAIN toUi
    <2>1. M = toUi[1] BY DEF M
    <2>2. Len(toUi) \in Nat /\ Len(toUi) # 0 /\ DOMAIN toUi = 1 .. Len(toUi)
      BY <1>2, EmptySeq, LenProperties
    <2> QED BY <2>1, <2>2
  <1>4. DOMAIN toUi \subseteq Nat \ {0}
    <2>1. DOMAIN toUi = 1 .. Len(toUi) /\ Len(toUi) \in Nat BY <1>2, LenProperties
    <2> QED BY <2>1
  <1> DEFINE m == toUi[1]
  <1>5. m.turn = pane.turn /\ m.session = session BY <1>3 DEF Current
  <1>6. OfCall(m) = Entry BY <1>3 DEF OfCall, Entry
  <1>7. CASE m.kind = "toolStarted"
    <2>1. IsTool(m, session) BY <1>5, <1>7 DEF IsTool, ToolKinds
    <2>2. approval[Entry] = "allowed" BY <1>1, <1>3, <1>5, <1>6, <1>7, <2>1 DEF ToolInv, Fits
    <2> QED BY <1>3, <1>7, <2>2 DEF StartFits
  <1>8. CASE m.kind = "toolCompleted"
    <2>1. IsTool(m, session) BY <1>5, <1>8 DEF IsTool, ToolKinds
    <2>2. IF m.status = "denied" THEN approval[Entry] = "closed"
          ELSE Runs(toUi, session, approval, Entry)
      BY <1>1, <1>3, <1>5, <1>6, <1>8, <2>1 DEF ToolInv, Fits
    <2>3. ~Announced(toUi, session, Entry)
      <3>1. ASSUME NEW j \in DOMAIN toUi, IsTool(toUi[j], session), toUi[j].kind = "toolStarted",
                   OfCall(toUi[j]) = Entry
            PROVE  FALSE
        <4>1. j # 1 BY <1>8, <3>1
        <4>2. 1 < j BY <1>4, <4>1
        <4>3. Rank(m.kind) < Rank(toUi[j].kind)
          BY <1>1, <1>3, <1>6, <2>1, <3>1, <4>2 DEF ToolInv, Ordered
        <4> QED BY <1>8, <3>1, <4>3, RankIs
      <3> QED BY <3>1 DEF Announced
    <2>4. IF m.status = "denied" THEN approval[Entry] = "closed" ELSE approval[Entry] = "started"
      BY <2>2, <2>3 DEF Runs
    <2> QED BY <1>3, <1>8, <2>4 DEF ResultFits
  <1> QED BY <1>3, <1>7, <1>8

\* A message about a tool finds its approval where its handler expects it, and a window that
\* thinks ChatHost initialized has a ChatHost of the MCP session it compares snapshots with.
THEOREM MessagesAlwaysFit == WindowSpec => []MessagesFit
  <1>1. WindowInv => HostServesGeneration
    <2> SUFFICES ASSUME WindowInv, at = "idle", pane.initialized, bridge = "open"
                 PROVE  host.initialized /\ host.generation = pane.generation
      BY DEF HostServesGeneration
    <2>1. HandshakeInv BY DEF WindowInv, IdleInv, Alive
    <2> QED BY <2>1 DEF HandshakeInv, Ready
  <1> QED BY <1>1, HeadFits, WindowInvariant, PTL DEF MessagesFit

\* A mutation starts only while its card says that the user allowed it: no prompt of another
\* call, no second decision and no message of an older bridge can stand for the click.
THEOREM ConsentAlwaysFirst == WindowSpec => ConsentComesFirst
  <1>1. WindowInv /\ [WindowNext]_windowVars =>
          (HostStartsTool /\ at = "idle" => approval[<<slot, call.count>>] = "allowed")
    <2> SUFFICES ASSUME WindowInv, HostStartsTool, at = "idle"
                 PROVE  approval[<<slot, call.count>>] = "allowed"
      OBVIOUS
    <2>1. slot # NoTurn /\ report[slot] = "none" /\ call.at = "allowed"
      BY DEF HostStartsTool, TurnStep, Busy
    <2>2. GateInv /\ ToolInv BY DEF WindowInv, IdleInv
    <2>3. slot = pane.turn BY <2>1, <2>2 DEF GateInv, Active
    <2>4. CallFits(toUi, session, slot, call, pane.turn, approval) BY <2>2 DEF ToolInv
    <2> QED BY <2>1, <2>3, <2>4 DEF CallFits
  <1> QED BY <1>1, WindowInvariant, PTL DEF WindowSpec, ConsentComesFirst

=============================================================================
