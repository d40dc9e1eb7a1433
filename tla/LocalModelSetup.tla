--------------------------- MODULE LocalModelSetup ---------------------------
(***************************************************************************)
(* The setup of the local model: the window asks for a model and a backend,*)
(* LocalModelSetupCoordinator runs one setup at a time, and                *)
(* LocalModelSetupService downloads what is missing, verifies it, installs *)
(* the runtime and writes the settings the model server is started from.   *)
(*                                                                         *)
(* What is on disk outlives the host process; the setup, the pipe and what *)
(* the window waits for do not.  Of the frames only those the window acts  *)
(* on are kept: a refused start, the end of a setup, and a frame that was  *)
(* cut when its write was cancelled or timed out.                          *)
(*                                                                         *)
(* The catalogue pins every artifact: a file of the right length is right  *)
(* when every chunk of it is, and a right archive holds a right runtime.   *)
(***************************************************************************)
EXTENDS Naturals, Sequences, FiniteSets

CONSTANTS Models, Backends,
          Archives,          \* for a backend, the archives its runtime needs
          Size,              \* chunks in an artifact
          MaximumAttempts,   \* maximumAttempts (4 in the code)
          MaxFaults,         \* bound: things that go wrong outside the code
          MaxCancels,        \* bound: clicks on Cancel
          MaxCrashes,        \* bound: ends of the host process
          NoRequest

SetOf(s) == {s[i] : i \in DOMAIN s}

Requests  == [model : Models, backend : Backends]
RequestIds == 0 .. 3
Artifacts == Models \cup UNION {SetOf(Archives[b]) : b \in Backends}

ASSUME SetupAssumption ==
  /\ \A b \in Backends : Archives[b] \in Seq(Artifacts \ Models) /\ Archives[b] # <<>>
  /\ Size \in Nat \ {0} /\ MaximumAttempts \in Nat \ {0}
  /\ MaxFaults \in Nat /\ MaxCancels \in Nat /\ MaxCrashes \in Nat
  /\ NoRequest \notin Requests \cup Models

VARIABLES
  partial,     \* Downloads/<artifact>.partial: its length and whether it is right
  file,        \* the model files: "none", "good", "bad"
  installed,   \* the archives in the installed runtime directory of a backend
  settings,    \* inference.json: the request it was written for
  accepted,    \* model-setup-acceptance.json: its model
  op,          \* the running setup
  cancelled,   \* its token
  workerStops, \* the worker awaits StopAsync
  toHost, toWindow,    \* the pipe
  active,      \* modelSetupActive
  requestId,   \* modelSetupRequestId
  asked,       \* what the window asked for last
  shown,       \* the outcome it shows
  silent,      \* a frame to this window was cut, or its last one given up
  faults, cancels, crashes

onDisk   == <<partial, file, installed, settings, accepted>>
host   == <<op, cancelled, workerStops>>
window == <<active, requestId, asked, shown>>
bounds == <<faults, cancels, crashes>>
setupVars   == <<onDisk, host, toHost, toWindow, window, silent, bounds>>

-----------------------------------------------------------------------------
Nothing == [len |-> 0, clean |-> TRUE]

Idle == [step |-> "idle", request |-> NoRequest, id |-> 0, index |-> 1,
         attempt |-> 1, received |-> 0, staged |-> {}]

SetupInit ==
  /\ partial = [a \in Artifacts |-> Nothing]
  /\ file \in [Models -> {"none", "bad"}]
  /\ installed = [b \in Backends |-> {}]
  /\ settings = NoRequest /\ accepted = NoRequest
  /\ op = Idle /\ cancelled = FALSE /\ workerStops = FALSE
  /\ toHost = <<>> /\ toWindow = <<>>
  /\ active = FALSE /\ requestId = 0 /\ asked = NoRequest /\ shown = "none"
  /\ silent = FALSE
  /\ faults = 0 /\ cancels = 0 /\ crashes = 0

\* The frames of the setup methods.
Start(id, r)       == [kind |-> "start", id |-> id, request |-> r]
Cancel             == [kind |-> "cancel"]
Refused(id)        == [kind |-> "end", id |-> id, stage |-> "refused"]
Terminal(id, s)    == [kind |-> "end", id |-> id, stage |-> s]
CutFrame           == [kind |-> "cut"]

Costs(n) == faults + n <= MaxFaults /\ faults' = faults + n

ArchivesOf == Archives[op.request.backend]
\* The artifact the setup is at: the archives in their order, then the model.
Item == IF op.index <= Len(ArchivesOf) THEN ArchivesOf[op.index] ELSE op.request.model
IsArchive == op.index <= Len(ArchivesOf)

\* A step of the setup, and what such a step leaves alone.
OpAt(step)  == op.step = step /\ ~cancelled
          /\ UNCHANGED <<cancelled, workerStops, toHost, window, cancels, crashes>>
OpGoes(step) == op' = [op EXCEPT !.step = step, !.received = 0]
Quiet      == UNCHANGED <<toWindow, silent>>
NoFault    == UNCHANGED faults

-----------------------------------------------------------------------------
(* The coordinator.                                                        *)

\* A setup that has sent its end is still running until its task completes.
TryStart ==
  /\ ~workerStops /\ toHost # <<>> /\ Head(toHost).kind = "start"
  /\ toHost' = Tail(toHost)
  /\ \/ /\ op.step = "idle"
        /\ op' = [Idle EXCEPT !.step = "prepare", !.request = Head(toHost).request,
                              !.id = Head(toHost).id]
        /\ cancelled' = FALSE /\ Quiet
     \/ /\ op.step # "idle"
        /\ toWindow' = Append(toWindow, Refused(Head(toHost).id))
        /\ UNCHANGED <<op, cancelled, silent>>
  /\ UNCHANGED <<onDisk, workerStops, window, bounds>>

RecvCancel ==
  /\ ~workerStops /\ toHost # <<>> /\ Head(toHost).kind = "cancel"
  /\ toHost' = Tail(toHost) /\ cancelled' = (cancelled \/ op.step # "idle")
  /\ Quiet /\ UNCHANGED <<onDisk, op, workerStops, window, bounds>>

\* StopAsync, awaited by the worker once its pipe has ended.
StopAsync ==
  /\ ~workerStops /\ crashes < MaxCrashes /\ crashes' = crashes + 1
  /\ workerStops' = TRUE /\ cancelled' = (op.step # "idle")
  /\ Quiet /\ UNCHANGED <<onDisk, op, toHost, window, faults, cancels>>

\* The steps whose await reports progress, and the others that can be cancelled.
Reporting == {"prepare", "find", "send", "read", "retry", "verify", "extract",
              "model", "manifest", "report"}
Awaiting  == Reporting \cup {"publish", "config", "accept"}

\* A progress frame may be cut by the token between its prefix and its payload.
\* The last one may have been written whole when the token ends its flush.
SetupCancelled ==
  /\ op.step \in Awaiting /\ cancelled
  /\ OpGoes("cancelled")
  /\ \/ Quiet
     \/ /\ op.step \in Reporting
        /\ toWindow' = Append(toWindow, CutFrame) /\ silent' = TRUE
     \/ /\ op.step = "report"
        /\ toWindow' = Append(toWindow, Terminal(op.id, "completed")) /\ UNCHANGED silent
  /\ UNCHANGED <<onDisk, cancelled, workerStops, toHost, window, bounds>>

\* No space, no access, a failed write or move: the setup fails, and what it
\* staged is deleted.
SetupFails ==
  /\ op.step \in Awaiting \ {"find", "send", "read", "retry", "report"}
  /\ OpAt(op.step) /\ OpGoes("failed") /\ Costs(1) /\ Quiet /\ UNCHANGED onDisk

\* TryReportTerminalAsync: half a second, and any failure is swallowed.
TryReportTerminal ==
  /\ op.step \in {"cancelled", "failed"} /\ OpGoes("ending")
  /\ \/ /\ toWindow' = Append(toWindow, Terminal(op.id, op.step))
        /\ NoFault /\ UNCHANGED silent
     \/ /\ IF workerStops THEN NoFault ELSE Costs(1)
        /\ toWindow' \in {toWindow, Append(toWindow, CutFrame)} /\ silent' = TRUE
  /\ UNCHANGED <<onDisk, cancelled, workerStops, toHost, window, cancels, crashes>>

\* Mutant: the operation of a cancelled setup stays the current one.
SetupEndsUncancelled ==
  /\ op.step = "ending" /\ ~cancelled /\ op' = Idle /\ cancelled' = FALSE /\ Quiet
  /\ UNCHANGED <<onDisk, workerStops, toHost, window, bounds>>

\* The task of RunAsync completes.
SetupEnds ==
  /\ op.step = "ending" /\ op' = Idle /\ cancelled' = FALSE /\ Quiet
  /\ UNCHANGED <<onDisk, workerStops, toHost, window, bounds>>

-----------------------------------------------------------------------------
(* InstallAsync: prepare, and look for the installed runtime.              *)

Prepare == OpAt("prepare") /\ OpGoes("find") /\ NoFault /\ Quiet /\ UNCHANGED onDisk

\* A directory with the marker of exactly these archives is used as it is.
FindInstalledRuntime ==
  /\ OpAt("find") /\ NoFault /\ Quiet /\ UNCHANGED onDisk
  /\ IF installed[op.request.backend] # {}
       THEN op' = [op EXCEPT !.index = Len(ArchivesOf) + 1, !.step = "model"]
       ELSE OpGoes("send")

(* DownloadOnceAsync.                                                      *)

\* A partial file longer than the artifact is deleted, here with the answer.
Existing == IF partial[Item].len > Size THEN 0 ELSE partial[Item].len

\* TryDeleteFile: the file may be left where it is.
TryDelete(p, a, left) == IF left THEN p ELSE [p EXCEPT ![a] = Nothing]
Leaves(left) == IF left THEN 1 ELSE 0

\* The whole artifact comes: there was nothing, or the range is ignored.
AnsweredWhole ==
  /\ OpAt("send") /\ Quiet
  /\ \E left \in BOOLEAN :
       /\ left => partial[Item].len > 0
       /\ Costs(Leaves(left) + (IF Existing > 0 THEN 1 ELSE 0))
       /\ partial' = TryDelete(partial, Item, left)
  /\ op' = [op EXCEPT !.step = "read", !.received = 0]
  /\ UNCHANGED <<file, installed, settings, accepted>>

AnsweredRange ==
  /\ OpAt("send") /\ Existing > 0 /\ Quiet /\ NoFault
  /\ op' = [op EXCEPT !.step = "read", !.received = Existing] /\ UNCHANGED onDisk

\* 416 for a file that is complete.
AnsweredComplete ==
  /\ OpAt("send") /\ Existing = Size
  /\ OpGoes("verify") /\ Quiet /\ NoFault /\ UNCHANGED onDisk

\* The answer starts elsewhere: what there was is deleted.
AnsweredMismatch ==
  /\ OpAt("send") /\ Existing > 0 /\ Quiet
  /\ \E left \in BOOLEAN :
       Costs(1 + Leaves(left)) /\ partial' = TryDelete(partial, Item, left)
  /\ OpGoes("retry") /\ UNCHANGED <<file, installed, settings, accepted>>

\* No connection, an error status, a wrong length, silence for 60 seconds.
ConnectionFails ==
  /\ op.step \in {"send", "read"} /\ OpAt(op.step)
  /\ OpGoes("retry") /\ Costs(1) /\ Quiet /\ UNCHANGED onDisk

Longer(n) == IF n > Size THEN n ELSE n + 1

\* A chunk is appended; one too many is on disk before it is noticed.
ReadChunk ==
  /\ OpAt("read") /\ Quiet
  /\ \E good \in BOOLEAN :
       /\ Costs((IF good THEN 0 ELSE 1) + (IF op.received = Size THEN 1 ELSE 0))
       /\ partial' = [partial EXCEPT ![Item] =
            [len |-> Longer(@.len),
             clean |-> @.clean /\ good /\ @.len = op.received]]
  /\ op' = [op EXCEPT !.received = Longer(@),
                      !.step = IF op.received = Size THEN "retry" ELSE "read"]
  /\ UNCHANGED <<file, installed, settings, accepted>>

\* The end of the answer, early or not.
ReadEnd ==
  /\ OpAt("read") /\ Quiet /\ UNCHANGED onDisk
  /\ \/ op.received = Size /\ OpGoes("verify") /\ NoFault
     \/ op.received < Size /\ OpGoes("retry") /\ Costs(1)

\* Mutant: every attempt starts with an empty file.
RetryFromScratch ==
  /\ OpAt("retry") /\ Quiet /\ NoFault /\ UNCHANGED <<file, installed, settings, accepted>>
  /\ partial' = [partial EXCEPT ![Item] = Nothing]
  /\ IF op.attempt < MaximumAttempts
       THEN op' = [op EXCEPT !.attempt = @ + 1, !.step = "send"]
       ELSE OpGoes("failed")

Retry ==
  /\ OpAt("retry") /\ Quiet /\ NoFault /\ UNCHANGED onDisk
  /\ IF op.attempt < MaximumAttempts
       THEN op' = [op EXCEPT !.attempt = @ + 1, !.step = "send"]
       ELSE OpGoes("failed")

-----------------------------------------------------------------------------
(* DownloadAndVerifyAsync, and what is done with a verified artifact.      *)

IsVerified(a) == partial[a] = [len |-> Size, clean |-> TRUE]
\* The partial file is moved away: to its destination or into quarantine.
MovedAway(a) == partial' = [partial EXCEPT ![a] = Nothing]

\* Mutant: a file that fails its check is left to be resumed.
VerifyBadKept ==
  /\ OpAt("verify") /\ ~IsVerified(Item) /\ OpGoes("failed") /\ NoFault /\ Quiet
  /\ UNCHANGED onDisk

VerifyBad ==
  /\ OpAt("verify") /\ ~IsVerified(Item) /\ MovedAway(Item)
  /\ OpGoes("failed") /\ NoFault /\ Quiet
  /\ UNCHANGED <<file, installed, settings, accepted>>

VerifyModel ==
  /\ OpAt("verify") /\ ~IsArchive /\ IsVerified(Item) /\ MovedAway(Item)
  /\ file' = [file EXCEPT ![Item] = "good"]
  /\ OpGoes("manifest") /\ NoFault /\ Quiet /\ UNCHANGED <<installed, settings, accepted>>

\* The next archive gets its own attempts.
VerifyArchive ==
  /\ OpAt("verify") /\ IsArchive /\ IsVerified(Item)
  /\ op' = IF op.index < Len(ArchivesOf)
             THEN [op EXCEPT !.index = @ + 1, !.attempt = 1, !.step = "send"]
             ELSE [op EXCEPT !.index = 1, !.attempt = 1, !.step = "extract"]
  /\ NoFault /\ Quiet /\ UNCHANGED onDisk

\* Mutant: an archive is extracted where the runtime is looked for.
ExtractInPlace ==
  /\ OpAt("extract") /\ NoFault /\ Quiet /\ UNCHANGED <<partial, file, settings, accepted>>
  /\ installed' = [installed EXCEPT ![op.request.backend] = @ \cup {Item}]
  /\ op' = [op EXCEPT !.staged = @ \cup {Item},
                      !.index = IF op.index < Len(ArchivesOf) THEN @ + 1 ELSE @,
                      !.step = IF op.index < Len(ArchivesOf) THEN "extract" ELSE "publish"]

\* InstallRuntimeAsync: every archive into one staging directory, ...
Extract ==
  /\ OpAt("extract") /\ NoFault /\ Quiet /\ UNCHANGED onDisk
  /\ op' = [op EXCEPT !.staged = @ \cup {Item},
                      !.index = IF op.index < Len(ArchivesOf) THEN @ + 1 ELSE @,
                      !.step = IF op.index < Len(ArchivesOf) THEN "extract" ELSE "publish"]

\* ... which is moved to its place as a whole.
PublishRuntime ==
  /\ OpAt("publish") /\ NoFault /\ Quiet
  /\ installed' = [installed EXCEPT ![op.request.backend] = op.staged]
  /\ OpGoes("cleanup") /\ UNCHANGED <<partial, file, settings, accepted>>

\* The archives are deleted; the token is not looked at.
DeleteArchives ==
  /\ op.step = "cleanup" /\ Quiet
  /\ \E left \in SUBSET SetOf(ArchivesOf) :
       /\ Costs(Cardinality(left))
       /\ partial' = [a \in Artifacts |->
            IF a \in SetOf(ArchivesOf) \ left THEN Nothing ELSE partial[a]]
  /\ op' = [op EXCEPT !.index = Len(ArchivesOf) + 1, !.staged = {}, !.step = "model"]
  /\ UNCHANGED <<file, installed, settings, accepted, cancelled, workerStops, toHost,
                 window, cancels, crashes>>

\* A good model file is kept; a bad one is quarantined and downloaded again.
CheckModelFile ==
  /\ OpAt("model") /\ NoFault /\ Quiet
  /\ OpGoes(IF file[Item] = "good" THEN "manifest" ELSE "send")
  /\ file' = IF file[Item] = "bad" THEN [file EXCEPT ![Item] = "none"] ELSE file
  /\ UNCHANGED <<partial, installed, settings, accepted>>

\* The GGUF header, the report "configure", the hashes of the runtime's files.
BuildRuntimeManifest ==
  /\ OpAt("manifest") /\ OpGoes("config") /\ NoFault /\ Quiet /\ UNCHANGED onDisk

\* WriteAtomicallyAsync: a temporary file moved over the old one.
WriteConfiguration ==
  /\ OpAt("config") /\ settings' = op.request
  /\ OpGoes("accept") /\ NoFault /\ Quiet /\ UNCHANGED <<partial, file, installed, accepted>>

WriteLicenseAcceptance ==
  /\ OpAt("accept") /\ accepted' = op.request.model
  /\ OpGoes("report") /\ NoFault /\ Quiet /\ UNCHANGED <<partial, file, installed, settings>>

\* Mutant: the end is reported before the license acceptance is on disk.
ReportCompletedFirst ==
  /\ op.step \in {"accept", "report"} /\ OpAt(op.step)
  /\ OpGoes("ending") /\ NoFault /\ UNCHANGED <<onDisk, silent>>
  /\ toWindow' = Append(toWindow, Terminal(op.id, "completed"))

ReportCompleted ==
  /\ OpAt("report") /\ OpGoes("ending") /\ NoFault /\ UNCHANGED <<onDisk, silent>>
  /\ toWindow' = Append(toWindow, Terminal(op.id, "completed"))

-----------------------------------------------------------------------------
(* The window.                                                             *)

WindowFrame == UNCHANGED <<onDisk, host, silent, faults, crashes>>

\* A new request identifier: one that nothing between the two still holds.
NewRequestId ==
  CHOOSE id \in RequestIds :
    /\ id \notin {op.id, requestId}
    /\ \A i \in DOMAIN toWindow : toWindow[i].kind = "end" => toWindow[i].id # id

OnAiSetupClick(r) ==
  /\ ~active /\ active' = TRUE /\ requestId' = NewRequestId
  /\ asked' = r /\ shown' = "none"
  /\ toHost' = Append(toHost, Start(NewRequestId, r))
  /\ WindowFrame /\ UNCHANGED <<toWindow, cancels>>

OnAiSetupCancelClick ==
  /\ active /\ cancels < MaxCancels /\ cancels' = cancels + 1
  /\ toHost' = Append(toHost, Cancel)
  /\ WindowFrame /\ UNCHANGED <<toWindow, window>>

\* Mutant: the end of any setup ends the one the window waits for.
HandleEndOfAny ==
  /\ toWindow # <<>> /\ Head(toWindow).kind = "end" /\ toWindow' = Tail(toWindow)
  /\ active' = FALSE /\ shown' = IF active THEN Head(toWindow).stage ELSE shown
  /\ WindowFrame /\ UNCHANGED <<toHost, requestId, asked, cancels>>

\* The error answer to modelSetup.start, or a terminal modelSetupProgress.
HandleEnd ==
  /\ toWindow # <<>> /\ Head(toWindow).kind = "end" /\ toWindow' = Tail(toWindow)
  /\ IF active /\ Head(toWindow).id = requestId
       THEN active' = FALSE /\ shown' = Head(toWindow).stage
       ELSE UNCHANGED <<active, shown>>
  /\ WindowFrame /\ UNCHANGED <<toHost, requestId, asked, cancels>>

\* The host ends, by itself or because the bridge stops it; the window forgets
\* its setup (State::Failed, State::Stopped), and a new host is connected.
HostIsReplaced ==
  /\ op' = Idle /\ cancelled' = FALSE /\ workerStops' = FALSE
  /\ toHost' = <<>> /\ toWindow' = <<>> /\ silent' = FALSE
  /\ active' = FALSE /\ shown' = "none"
  /\ UNCHANGED <<onDisk, requestId, asked, faults, cancels>>

HostCrashes ==
  /\ crashes < MaxCrashes /\ crashes' = crashes + 1 /\ HostIsReplaced

\* What follows a cut frame is read as the rest of it: not a frame.
CutFrameIsRead ==
  /\ Len(toWindow) > 1 /\ Head(toWindow) = CutFrame
  /\ HostIsReplaced /\ UNCHANGED crashes

HostStops ==
  /\ workerStops /\ op.step = "idle" /\ HostIsReplaced /\ UNCHANGED crashes

-----------------------------------------------------------------------------
Coordinator == TryStart \/ RecvCancel \/ StopAsync
               \/ SetupCancelled \/ SetupFails \/ TryReportTerminal \/ SetupEnds
DownloadOnce == AnsweredWhole \/ AnsweredRange \/ AnsweredComplete \/ AnsweredMismatch
                \/ ConnectionFails \/ ReadChunk \/ ReadEnd
Install == Prepare \/ FindInstalledRuntime \/ DownloadOnce \/ Retry
           \/ VerifyBad \/ VerifyModel \/ VerifyArchive
           \/ Extract \/ PublishRuntime \/ DeleteArchives
           \/ CheckModelFile \/ BuildRuntimeManifest
           \/ WriteConfiguration \/ WriteLicenseAcceptance \/ ReportCompleted
Window == (\E r \in Requests : OnAiSetupClick(r)) \/ OnAiSetupCancelClick \/ HandleEnd
Host == HostCrashes \/ CutFrameIsRead \/ HostStops

SetupNext == Coordinator \/ Install \/ Window \/ Host

\* The host's threads run and its pipe is read; a server answers or fails; the
\* user asks again.  Cancelling, stopping and crashing are nobody's duty.
SetupFairness ==
  /\ WF_setupVars(TryStart) /\ WF_setupVars(RecvCancel)
  /\ WF_setupVars(Install \/ SetupCancelled \/ TryReportTerminal \/ SetupEnds)
  /\ WF_setupVars(HandleEnd) /\ WF_setupVars(HostStops)
  /\ WF_setupVars(\E r \in Requests : OnAiSetupClick(r))

SetupSpec == SetupInit /\ [][SetupNext]_setupVars /\ SetupFairness

-----------------------------------------------------------------------------
SetupTypeOK ==
  /\ partial \in [Artifacts -> [len : 0 .. Size + 1, clean : BOOLEAN]]
  /\ file \in [Models -> {"none", "good", "bad"}]
  /\ installed \in [Backends -> SUBSET Artifacts]
  /\ settings \in Requests \cup {NoRequest}
  /\ accepted \in Models \cup {NoRequest}
  /\ op.request \in Requests \cup {NoRequest}
  /\ cancelled \in BOOLEAN /\ workerStops \in BOOLEAN
  /\ active \in BOOLEAN /\ requestId \in RequestIds /\ asked \in Requests \cup {NoRequest}
  /\ silent \in BOOLEAN

\* README: "Fixed sizes and SHA-256 hashes are verified before inference.json is
\* replaced".  Whatever was cut, answered wrongly, cancelled or killed before, the
\* settings on disk name a model file that is right and a runtime with every
\* archive its backend needs.
SettingsAreVerified ==
  settings # NoRequest =>
    /\ file[settings.model] = "good"
    /\ installed[settings.backend] = SetOf(Archives[settings.backend])

\* A window that says the setup is complete is right: the settings are those it
\* asked for and the acceptance of that model's license is on disk.
CompletedIsTrue ==
  shown = "completed" => settings = asked /\ accepted = asked.model

\* The end is on its way to the window, or the start to the host.
EndInFlight ==
  \/ \E i \in DOMAIN toWindow :
       toWindow[i].kind = "end" /\ toWindow[i].id = requestId
  \/ \E i \in DOMAIN toHost : toHost[i].kind = "start"

\* Once no setup runs and nothing is on its way the window waits for none, if no
\* write to it was cut or given up ("A disconnected UI cannot receive terminal
\* setup state", LocalModelSetup.cs); and the setup it waits for is the one that
\* runs, never one whose end it was told.
EndIsTold ==
  /\ op.step = "idle" /\ ~workerStops /\ ~EndInFlight => ~active \/ silent
  /\ op.step \in Awaiting \cup {"cleanup"} =>
       active /\ op.id = requestId /\ op.request = asked

\* README: "Cancellation keeps a .partial file so the same setup can resume".
\* Only an answer of the server, the check of a complete file and a published
\* runtime take away what was downloaded: no cancellation, failure, crash or retry.
DownloadsAreKept ==
  [][\A a \in Artifacts :
       partial'[a].len < partial[a].len =>
         \/ a = Item /\ op.step = "send" /\ op'.step \in {"read", "retry"}
         \/ a = Item /\ op.step = "verify" /\ op'.step \in {"failed", "manifest"}
         \/ op.step = "cleanup" /\ installed[op.request.backend] = SetOf(ArchivesOf)]_setupVars

\* A user who keeps asking gets a model: no number of cut connections, wrong
\* answers, bad files, cancellations and crashes leaves something on disk that
\* every later setup fails on; unless the window is left waiting for ever.
SetupGetsThere == <>(settings # NoRequest) \/ <>[]silent

\* Cancelled by the window or by the worker that stops, a setup ends, and a
\* worker that stops gets to its end.
CancelledSetupEnds == (cancelled ~> ~cancelled) /\ (workerStops ~> ~workerStops)

\* What is on disk is sound: settings name checked files only, and no download is
\* thrown away but by a check or an answer of the server.
DiskIsSound == []SettingsAreVerified /\ DownloadsAreKept

\* What the window was told of a setup, its success and its end, is true.
WindowIsTold == CompletedIsTrue /\ EndIsTold

\* Setups end: cancelled ones and those of a worker that stops, and in the end
\* one succeeds.
SetupsEnd == SetupGetsThere /\ CancelledSetupEnds
=============================================================================
