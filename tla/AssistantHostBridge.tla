------------------------ MODULE AssistantHostBridge ------------------------
(***************************************************************************)
(* AssistantHostBridge.cpp: the native end of the pipe to ChatHost, for the *)
(* life of one bridge (the window creates a new one for every session).     *)
(*                                                                         *)
(* Actors: the window's UI thread (Start, Post, StopAndJoin), the reader    *)
(* and the writer thread of the bridge, and the ChatHost process.  The      *)
(* atomics are read and written without m_queueMutex, so each access is a   *)
(* step of its own; what is done under the mutex is one step, except for    *)
(* the wait of the condition variable, which tests its predicate in one     *)
(* step and blocks in the next one.                                         *)
(* Bytes of a frame, error codes and diagnostics are left out.              *)
(***************************************************************************)
EXTENDS Integers, Sequences

CONSTANTS MaximumQueuedFrames,   \* maximumQueuedFrames (64 in the code)
          MaxPosts               \* bound: requests the window makes

ASSUME BoundsAssumption == MaximumQueuedFrames \in Nat \ {0} /\ MaxPosts \in Nat

VARIABLES
  ui,             \* what the UI thread is doing with the bridge
  handled,        \* state updates the UI thread has handled
  outbound,       \* AssistantUiState::outboundSequence
  updates,        \* state updates published, in order
  queue,          \* m_queue: sequence numbers of the frames
  accepting,      \* m_acceptingPosts
  connected,      \* m_connected
  failed,         \* m_failed
  shutdownPosted, \* m_shutdownPosted
  stopEvent,      \* m_stopEvent is signalled
  stopRequested,  \* the stop tokens of both threads
  childExited,    \* StopAndJoin saw the child exit in the grace period
  reader, writer, \* where the threads are
  child,          \* the ChatHost process
  posted, sent    \* history: frames accepted by Post, frames written

uiVars      == <<ui, handled, outbound, childExited>>
atomics     == <<accepting, connected, failed, shutdownPosted, stopEvent, stopRequested>>
history     == <<posted, sent>>
vars == <<uiVars, updates, queue, atomics, reader, writer, child, history>>

-----------------------------------------------------------------------------
States == {"Stopped", "Starting", "WaitingForConnection", "Connected", "Failed"}

UiSteps == {"new", "launched", "cleanup", "cleanupNotify", "cleanupJoin", "idle", "notify",
            "stop", "grace", "signal", "stopNotify", "join", "stopped"}

FailSteps   == {"fail", "failSignal", "failNotify", "failPublish"}
ReaderSteps == {"off", "start", "connect", "mark", "publish", "notify", "read",
                "closing", "closeNotify", "closePublish", "done"} \cup FailSteps
WriterSteps == {"off", "begin", "top", "test", "blocking", "waiting", "write", "pop", "done"}
                 \cup FailSteps

TypeOK ==
  /\ ui \in UiSteps /\ childExited \in BOOLEAN
  /\ outbound \in 0..MaxPosts /\ handled \in Nat
  /\ updates \in Seq(States)
  /\ queue \in Seq(1..MaxPosts) /\ Len(queue) <= MaximumQueuedFrames
  /\ accepting \in BOOLEAN /\ connected \in BOOLEAN /\ failed \in BOOLEAN
  /\ shutdownPosted \in BOOLEAN /\ stopEvent \in BOOLEAN /\ stopRequested \in BOOLEAN
  /\ reader \in ReaderSteps /\ writer \in WriterSteps
  /\ child \in {"none", "launched", "open", "exited"}
  /\ posted \in Seq(1..MaxPosts) /\ sent \in Seq(1..MaxPosts)

Init ==
  /\ ui = "new" /\ handled = 0 /\ outbound = 0 /\ childExited = FALSE
  /\ updates = <<>> /\ queue = <<>>
  /\ accepting = FALSE /\ connected = FALSE /\ failed = FALSE
  /\ shutdownPosted = FALSE /\ stopEvent = FALSE /\ stopRequested = FALSE
  /\ reader = "off" /\ writer = "off" /\ child = "none"
  /\ posted = <<>> /\ sent = <<>>

Publish(s) == updates' = Append(updates, s)

\* TerminateJobObject.
Terminated == IF child = "none" THEN "none" ELSE "exited"

\* m_queueMutex is free: only the writer keeps it across a step.
MutexFree == writer # "blocking"

\* notify_one or notify_all, without the mutex: a thread that has not blocked
\* yet does not notice.
WriterNotified == IF writer = "waiting" THEN "test" ELSE writer

-----------------------------------------------------------------------------
(* The UI thread. *)

\* Start up to the writer thread; m_started is set from here on.
StartLaunches ==
  /\ ui = "new"
  /\ Publish("Starting")
  /\ accepting' = TRUE /\ child' = "launched" /\ writer' = "begin"
  /\ ui' = "launched"
  /\ UNCHANGED <<handled, outbound, childExited, queue, connected, failed, shutdownPosted,
                 stopEvent, stopRequested, reader, history>>

\* No executable, pipe, job or process: CleanupFailedStart finds no threads.
StartFails ==
  /\ ui = "new"
  /\ updates' = updates \o <<"Starting", "Failed">>
  /\ ui' = "stopped"
  /\ UNCHANGED <<handled, outbound, childExited, queue, atomics, reader, writer, child, history>>

StartReader ==
  /\ ui = "launched"
  /\ \/ reader' = "start" /\ ui' = "idle"
     \/ reader' = reader /\ ui' = "cleanup"
  /\ UNCHANGED <<handled, outbound, childExited, updates, queue, atomics, writer, child, history>>

\* CleanupFailedStart with only the writer running.
CleanupSignals ==
  /\ ui = "cleanup"
  /\ accepting' = FALSE /\ stopEvent' = TRUE /\ stopRequested' = TRUE
  /\ ui' = "cleanupNotify"
  /\ UNCHANGED <<handled, outbound, childExited, updates, queue, connected, failed,
                 shutdownPosted, reader, writer, child, history>>

CleanupNotifies ==
  /\ ui = "cleanupNotify"
  /\ writer' = WriterNotified /\ child' = Terminated
  /\ ui' = "cleanupJoin"
  /\ UNCHANGED <<handled, outbound, childExited, updates, queue, atomics, reader, history>>

CleanupJoins ==
  /\ ui = "cleanupJoin" /\ writer = "done"
  /\ Publish("Failed")
  /\ ui' = "stopped"
  /\ UNCHANGED <<handled, outbound, childExited, queue, atomics, reader, writer, child, history>>

\* The dispatcher queue runs the next state update on the UI thread.
HandleAssistantHostState ==
  /\ ui = "idle" /\ handled < Len(updates)
  /\ handled' = handled + 1
  /\ UNCHANGED <<ui, outbound, childExited, updates, queue, atomics, reader, writer, child,
                 history>>

\* AssistantUiState::connected: what the last handled update said.
UiConnected == handled > 0 /\ updates[handled] = "Connected"

\* Post, called for a request of the window; the shutdown request is made by
\* StopAssistant, which stops the bridge next.
PostAccepted(isShutdown) ==
  /\ ui = "idle" /\ UiConnected /\ outbound < MaxPosts
  /\ MutexFree /\ accepting /\ Len(queue) < MaximumQueuedFrames
  /\ outbound' = outbound + 1
  /\ queue' = Append(queue, outbound')
  /\ posted' = Append(posted, outbound')
  /\ shutdownPosted' = isShutdown
  /\ accepting' = ~isShutdown
  /\ ui' = "notify"
  /\ UNCHANGED <<handled, childExited, updates, connected, failed, stopEvent, stopRequested,
                 reader, writer, child, sent>>

\* Not accepting, no free slot, or too many bytes queued.
PostRefused ==
  /\ ui = "idle" /\ UiConnected /\ outbound < MaxPosts
  /\ outbound' = outbound + 1
  /\ ui' \in {"idle", "stop"}
  /\ UNCHANGED <<handled, childExited, updates, queue, atomics, reader, writer, child, history>>

\* Mutant: Post forgets the notification.
PostNotifiesNobody ==
  /\ ui = "notify"
  /\ ui' = IF shutdownPosted THEN "stop" ELSE "idle"
  /\ UNCHANGED <<handled, outbound, childExited, updates, queue, atomics, reader, writer, child,
                 history>>

PostNotifies ==
  /\ ui = "notify"
  /\ writer' = WriterNotified
  /\ ui' = IF shutdownPosted THEN "stop" ELSE "idle"
  /\ UNCHANGED <<handled, outbound, childExited, updates, queue, atomics, reader, child, history>>

\* StopAssistant without a shutdown request.
StopAssistant ==
  /\ ui = "idle"
  /\ ui' = "stop"
  /\ UNCHANGED <<handled, outbound, childExited, updates, queue, atomics, reader, writer, child,
                 history>>

\* StopAndJoin.
StopBegins ==
  /\ ui = "stop"
  /\ accepting' = FALSE
  /\ ui' = IF shutdownPosted THEN "grace" ELSE "signal"
  /\ UNCHANGED <<handled, outbound, childExited, updates, queue, connected, failed,
                 shutdownPosted, stopEvent, stopRequested, reader, writer, child, history>>

\* Up to two seconds for the child to exit by itself.
StopGrace ==
  /\ ui = "grace"
  /\ childExited' = (child = "exited")
  /\ ui' = "signal"
  /\ UNCHANGED <<handled, outbound, updates, queue, atomics, reader, writer, child, history>>

StopSignals ==
  /\ ui = "signal"
  /\ stopEvent' = TRUE /\ stopRequested' = TRUE
  /\ ui' = "stopNotify"
  /\ UNCHANGED <<handled, outbound, childExited, updates, queue, accepting, connected, failed,
                 shutdownPosted, reader, writer, child, history>>

\* Mutant: a child that was asked to shut down is trusted to do so.
StopTrustsChild ==
  /\ ui = "stopNotify"
  /\ writer' = WriterNotified
  /\ child' = IF shutdownPosted THEN child ELSE Terminated
  /\ ui' = "join"
  /\ UNCHANGED <<handled, outbound, childExited, updates, queue, atomics, reader, history>>

StopNotifies ==
  /\ ui = "stopNotify"
  /\ writer' = WriterNotified
  /\ child' = IF childExited THEN child ELSE Terminated
  /\ ui' = "join"
  /\ UNCHANGED <<handled, outbound, childExited, updates, queue, atomics, reader, history>>

StopJoins ==
  /\ ui = "join" /\ reader = "done" /\ writer = "done"
  /\ Publish("Stopped")
  /\ connected' = FALSE /\ failed' = FALSE /\ shutdownPosted' = FALSE
  /\ queue' = <<>>
  /\ ui' = "stopped"
  /\ UNCHANGED <<handled, outbound, childExited, accepting, stopEvent, stopRequested, reader,
                 writer, child, history>>

-----------------------------------------------------------------------------
(* Fail, run by either thread; "fail" is its call, "done" the thread's end. *)

ThreadGoes(th, from, next, notified) ==
  \/ /\ th = "reader" /\ reader = from /\ reader' = next
     /\ writer' = IF notified THEN WriterNotified ELSE writer
  \/ /\ th = "writer" /\ writer = from /\ writer' = next /\ UNCHANGED reader

\* Mutant: both threads may report the failure.
FailTakesAlways(th) ==
  /\ ThreadGoes(th, "fail", "failSignal", FALSE)
  /\ failed' = TRUE
  /\ UNCHANGED <<uiVars, updates, queue, accepting, connected, shutdownPosted, stopEvent,
                 stopRequested, child, history>>

FailTakes(th) ==
  /\ ThreadGoes(th, "fail", IF failed THEN "done" ELSE "failSignal", FALSE)
  /\ failed' = TRUE
  /\ UNCHANGED <<uiVars, updates, queue, accepting, connected, shutdownPosted, stopEvent,
                 stopRequested, child, history>>

FailSignals(th) ==
  /\ ThreadGoes(th, "failSignal", "failNotify", FALSE)
  /\ accepting' = FALSE /\ connected' = FALSE /\ stopEvent' = TRUE
  /\ child' = Terminated
  /\ UNCHANGED <<uiVars, updates, queue, failed, shutdownPosted, stopRequested, history>>

FailNotifies(th) ==
  /\ ThreadGoes(th, "failNotify", "failPublish", TRUE)
  /\ UNCHANGED <<uiVars, updates, queue, atomics, child, history>>

FailPublishes(th) ==
  /\ ThreadGoes(th, "failPublish", "done", FALSE)
  /\ Publish("Failed")
  /\ UNCHANGED <<uiVars, queue, atomics, child, history>>

Fail(th) == FailTakes(th) \/ FailSignals(th) \/ FailNotifies(th) \/ FailPublishes(th)

-----------------------------------------------------------------------------
(* ReaderMain. *)

ReaderOnly == UNCHANGED <<uiVars, queue, writer, child, history>>

ReaderStarts ==
  /\ reader = "start" /\ reader' = "connect"
  /\ Publish("WaitingForConnection")
  /\ ReaderOnly /\ UNCHANGED atomics

\* ConnectToChild and the check of the client's process id.
ReaderConnects ==
  /\ reader = "connect"
  /\ reader' = IF stopRequested THEN "done" ELSE "mark"
  /\ child = "open"
  /\ ReaderOnly /\ UNCHANGED <<updates, atomics>>

ReaderStopped ==
  /\ reader \in {"connect", "read"} /\ (stopEvent \/ stopRequested)
  /\ reader' = "done"
  /\ ReaderOnly /\ UNCHANGED <<updates, atomics>>

\* Time-out, the child's exit, a foreign client, no event to wait for.
ReaderCannotConnect ==
  /\ reader = "connect"
  /\ reader' = IF stopRequested THEN "done" ELSE "fail"
  /\ ReaderOnly /\ UNCHANGED <<updates, atomics>>

ReaderMarksConnected ==
  /\ reader = "mark" /\ reader' = "publish"
  /\ connected' = TRUE
  /\ ReaderOnly
  /\ UNCHANGED <<updates, accepting, failed, shutdownPosted, stopEvent, stopRequested>>

ReaderPublishesConnected ==
  /\ reader = "publish" /\ reader' = "notify"
  /\ Publish("Connected")
  /\ ReaderOnly /\ UNCHANGED atomics

ReaderNotifies ==
  /\ reader = "notify" /\ reader' = "read"
  /\ writer' = WriterNotified
  /\ UNCHANGED <<uiVars, updates, queue, atomics, child, history>>

\* The bytes were no valid frames, the read failed or had no event.  The stop event is looked
\* at before each operation starts and while it is pending, so an operation
\* that ends at once may still fail after the event was set.
ReaderFails ==
  /\ reader = "read" /\ child = "open"
  /\ reader' = "fail"
  /\ ReaderOnly /\ UNCHANGED <<updates, atomics>>

\* The child is gone: a clean end only on a frame boundary and after shutdown
\* was posted.
ReaderDisconnected ==
  /\ reader = "read" /\ child = "exited"
  /\ \/ reader' = "fail"
     \/ shutdownPosted /\ reader' = "closing"
  /\ ReaderOnly /\ UNCHANGED <<updates, atomics>>

ReaderCloses ==
  /\ reader = "closing" /\ reader' = "closeNotify"
  /\ accepting' = FALSE /\ connected' = FALSE /\ stopEvent' = TRUE
  /\ ReaderOnly /\ UNCHANGED <<updates, failed, shutdownPosted, stopRequested>>

ReaderCloseNotifies ==
  /\ reader = "closeNotify" /\ reader' = "closePublish"
  /\ writer' = WriterNotified
  /\ UNCHANGED <<uiVars, updates, queue, atomics, child, history>>

ReaderClosePublishes ==
  /\ reader = "closePublish" /\ reader' = "done"
  /\ Publish("Stopped")
  /\ ReaderOnly /\ UNCHANGED atomics

\* What the reader does by itself; bytes that make it fail need not come.
ReaderMain ==
  \/ ReaderStarts \/ ReaderConnects \/ ReaderCannotConnect \/ ReaderStopped
  \/ ReaderMarksConnected \/ ReaderPublishesConnected \/ ReaderNotifies
  \/ ReaderDisconnected \/ ReaderCloses \/ ReaderCloseNotifies \/ ReaderClosePublishes
  \/ Fail("reader")

-----------------------------------------------------------------------------
(* WriterMain. *)

WriterOnly == UNCHANGED <<uiVars, updates, atomics, reader, child>>

\* CreateManualResetEvent may throw, before the reader has said anything.
WriterBegins ==
  /\ writer = "begin"
  /\ writer' \in {"top", IF stopRequested THEN "done" ELSE "fail"}
  /\ WriterOnly /\ UNCHANGED <<queue, history>>

WriterLoops ==
  /\ writer = "top"
  /\ writer' = IF stopRequested THEN "done" ELSE "test"
  /\ WriterOnly /\ UNCHANGED <<queue, history>>

\* The predicate of the wait, under the mutex, and what follows it.
WriterTests ==
  /\ writer = "test"
  /\ writer' = IF stopRequested \/ failed THEN "done"
               ELSE IF connected /\ queue # <<>> THEN "write" ELSE "blocking"
  /\ WriterOnly /\ UNCHANGED <<queue, history>>

\* wait releases the mutex and blocks.
WriterBlocks ==
  /\ writer = "blocking" /\ writer' = "waiting"
  /\ WriterOnly /\ UNCHANGED <<queue, history>>

\* A condition variable may wake without a notification.
WriterWakes ==
  /\ writer = "waiting" /\ writer' = "test"
  /\ WriterOnly /\ UNCHANGED <<queue, history>>

WriterWrites ==
  /\ writer = "write" /\ child = "open"
  /\ writer' = "pop"
  /\ sent' = Append(sent, Head(queue))
  /\ WriterOnly /\ UNCHANGED <<queue, posted>>

WriterStopped ==
  /\ writer = "write" /\ stopEvent
  /\ writer' = "done"
  /\ WriterOnly /\ UNCHANGED <<queue, history>>

WriterFails ==
  /\ writer = "write" /\ child = "open"
  /\ writer' = "fail"
  /\ WriterOnly /\ UNCHANGED <<queue, history>>

WriterDisconnected ==
  /\ writer = "write" /\ child = "exited"
  /\ writer' = "fail"
  /\ WriterOnly /\ UNCHANGED <<queue, history>>

WriterPops ==
  /\ writer = "pop" /\ writer' = "top"
  /\ queue' = Tail(queue)
  /\ WriterOnly /\ UNCHANGED history

\* What the writer does by itself; a write ends when the child reads.
WriterMain ==
  \/ WriterBegins \/ WriterLoops \/ WriterTests \/ WriterBlocks \/ WriterStopped
  \/ WriterDisconnected \/ WriterPops \/ Fail("writer")

PipeIo == ReaderFails \/ WriterWrites \/ WriterFails

-----------------------------------------------------------------------------
(* The ChatHost process. *)

ChildConnects ==
  /\ child = "launched" /\ child' = "open"
  /\ UNCHANGED <<uiVars, updates, queue, atomics, reader, writer, history>>

ChildExits ==
  /\ child \in {"launched", "open"} /\ child' = "exited"
  /\ UNCHANGED <<uiVars, updates, queue, atomics, reader, writer, history>>

-----------------------------------------------------------------------------
\* What the UI thread does once it is inside a call of the bridge.
UiCalls ==
  \/ StartReader \/ CleanupSignals \/ CleanupNotifies \/ CleanupJoins
  \/ PostNotifies \/ StopBegins \/ StopGrace \/ StopSignals \/ StopNotifies \/ StopJoins

UiRequests ==
  \/ StartLaunches \/ StartFails \/ HandleAssistantHostState
  \/ \E isShutdown \in BOOLEAN : PostAccepted(isShutdown)
  \/ PostRefused \/ StopAssistant

Next == UiCalls \/ UiRequests \/ ReaderMain \/ WriterMain \/ PipeIo \/ WriterWakes
          \/ ChildConnects \/ ChildExits

Spec == Init /\ [][Next]_vars

\* Threads run; the connection attempt times out; nothing makes a waiting
\* condition variable wake by itself and nothing makes the child read.
Fairness ==
  /\ WF_vars(UiCalls) /\ WF_vars(ReaderMain)
  /\ WF_vars(WriterMain)

FairSpec == Spec /\ Fairness

-----------------------------------------------------------------------------
(* Properties. *)

\* Nothing overtakes: the child gets the accepted frames once each and in the
\* order of Post, although the writer keeps a frame queued while it writes it
\* without the lock; and a failure is reported once however many threads meet it,
\* unless Start fails as well, with no "Connected" after "Stopped".
NothingOutOfOrder ==
  /\ Len(sent) <= Len(posted) /\ \A i \in 1..Len(sent) : sent[i] = posted[i]
  /\ \A i, j \in DOMAIN updates :
       i < j =>
         /\ updates[i] = "Failed" /\ updates[j] = "Failed" => reader = "off" /\ ui = "stopped"
         /\ updates[i] = "Stopped" => updates[j] # "Connected"

\* After StopAndJoin (or a failed Start) the owned process is gone, and no
\* thread can publish or write any more.
StoppedLeavesNothing ==
  ui = "stopped" =>
    child \in {"none", "exited"} /\ reader \in {"off", "done"} /\ writer \in {"off", "done"}

\* The writer takes up every accepted frame, unless the bridge fails or stops:
\* no notification of Post is lost, and the one of the reader is not needed.
QueuedFrameIsTaken ==
  (queue # <<>> /\ ui = "idle") ~> (writer \in {"write", "pop"} \/ failed \/ stopEvent)

\* What the window may rely on.
Channel == INSTANCE HostChannel WITH
             Frames <- 1..MaxPosts, heard <- updates, up <- ui \notin {"new", "stopped"}

\* The threads, the queue and the process behave as one channel: the window hears
\* of the start, the connection and the end once each, and frames are taken and
\* written only between the connection and the end, whichever thread fails and when.
ImplementsChannel == Channel!Spec
=============================================================================
