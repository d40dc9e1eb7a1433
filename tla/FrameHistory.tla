---------------------------- MODULE FrameHistory ----------------------------
\* The temporal histories of the renderer and the frames that use them
\* (D3D12PathTracingBackend.cpp, .WinUI.cpp, NrdBackend.cpp, the shaders).
\* One render thread runs OnUpdate and OnRender over and over; the GPU works on
\* up to Contexts submitted frames behind it.  Between two frames the editor and
\* the tools change what is drawn and say so through the central invalidation
\* policy; a frame may blend a history only if that still describes the picture.
\*
\* Images are abstracted to whether a history is stale: mixed with something a
\* later change replaced, or not written by the frame before.  Some changes say
\* nothing, or too little: what they alone outdate is told apart (unsaid).  Render extents
\* and DLSS are left out (README, known limits).
EXTENDS Naturals, Sequences

CONSTANTS Contexts,    \* FrameCount
          MaxSamples,  \* m_maxAccumulatedFrames
          MaxEvents    \* bound on edits, tools, camera moves and failures

ASSUME FrameAssumption ==
  Contexts \in Nat \ {0} /\ MaxSamples \in Nat \ {0} /\ MaxEvents \in Nat

VARIABLES
  phase,     \* where the render thread is in its loop
  resize,    \* m_resizePending
  refresh,   \* m_pendingGpuResourceRefresh
  settings,  \* what the user and the tools selected
  nrd,       \* NRD can evaluate, and its historyResetRequested
  history,   \* the valid domains and the accumulation
  preserve,  \* m_forcePreserveCameraHistoryOnce
  seenView,  \* the debug view of the last frame
  outputs,   \* what the output resources were created for
  context,   \* m_frameIndex
  inFlight,  \* frames submitted and not finished, in order
  frame,     \* the frame being built, or captured in this update
  stale,     \* history: domains whose content is out of date
  unsaid,    \* history: those a change has outdated that says nothing of them
  events     \* events left

vars == <<phase, resize, refresh, settings, nrd, history, preserve, seenView, outputs,
          context, inFlight, frame, stale, unsaid, events>>

Realtime == {"surface", "lighting", "denoiser", "taa"}
Domains == Realtime \union {"reference"}
Nrd == {"reblur", "relax"}
Backends == Nrd \union {"off", "internal"}
Views == {"beauty", "guide", "signal", "resolve"}  \* 0, 1-15, 16-46, 47 and more

---------------------------------------------------------------------------
\* What a history is made from.  Lighting is stored on surfaces, the denoiser
\* filters lighting, TAA and NRD what the denoiser is given; a reference image
\* is accumulated by a camera that stands still.

Inputs(d) ==
  LET surface == {"CameraCut", "Resolution", "Geometry", "ManualReset"}
      lighting == surface \union {"Material", "Light", "Hdri", "Backend", "QualityProfile"}
      denoised == lighting \union {"DenoiserSettings", "View"}
  IN CASE d = "surface" -> surface
       [] d = "lighting" -> lighting
       [] d \in {"denoiser", "taa", "nrd"} -> denoised
       [] d = "reference" -> lighting \union {"CameraMotion", "View"}

Outdated(changes) ==
  {d \in Domains \union {"nrd"} : Inputs(d) \intersect changes # {}}

\* HistoryDomainsForChange
DomainsFor(change) ==
  CASE change = "CameraMotion" -> {"reference"}
    [] change \in {"Material", "Light", "Hdri", "Backend", "QualityProfile"} ->
         {"lighting", "denoiser", "taa", "reference"}
    [] change = "DenoiserSettings" -> {"denoiser", "taa"}
    [] change = "View" -> {"denoiser", "taa", "reference"}
    [] OTHER -> Domains

\* InvalidateHistoryDomains, and ResetAccumulation in it
Invalidated(h, domains) ==
  [valid |-> h.valid \ domains,
   samples |-> IF "reference" \in domains THEN 0 ELSE h.samples,
   restart |-> h.restart \/ "reference" \in domains,
   tracked |-> h.tracked /\ "surface" \notin domains]

\* NrdBackend.ResetHistory
Restarted(n, domains) == [n EXCEPT !.restart = @ \/ "denoiser" \in domains]

\* InvalidateHistory for one change
Changed(change) ==
  /\ history' = Invalidated(history, DomainsFor(change))
  /\ nrd' = Restarted(nrd, DomainsFor(change))
  /\ stale' = stale \union Outdated({change})
  /\ UNCHANGED unsaid

\* What changes outdate, when the program answers for some domains only
Ages(changes, said) ==
  /\ stale' = stale \union (Outdated(changes) \intersect said)
  /\ unsaid' = unsaid \union (Outdated(changes) \ said)

---------------------------------------------------------------------------
\* Passes and the resources they need

Reference(s) == s.profile = "reference"
Requested(s) == s.enabled \/ s.view \in {"signal", "resolve"}
RunsNrd(s, ready) == ~Reference(s) /\ Requested(s) /\ s.backend \in Nrd /\ ready
RunsInternal(s, ready) ==
  ~Reference(s) /\ Requested(s) /\ s.backend # "off" /\ (s.backend \in Nrd => ~ready)
RunsTaa(s) == ~Reference(s) /\ s.taa

\* NRD and TAA in one pass, without the composited image between them
Fuses(s, ready) ==
  RunsTaa(s) /\ s.enabled /\ s.view = "beauty" /\ s.backend \in Nrd /\ ready

\* CreateOutputResources
OutputsFor(s, ready) ==
  IF Reference(s) THEN {"reference"}
  ELSE {"guides"}
       \union (IF s.taa THEN {"taa"} ELSE {})
       \union (IF s.backend \in Nrd /\ ready THEN {"nrd"}
               ELSE IF s.backend # "off" THEN {"internal"} ELSE {})
       \union (IF Fuses(s, ready) THEN {} ELSE {"composite"})

\* What the passes of a frame read and write
Needs(s, ready, complete) ==
  IF Reference(s) THEN {"reference"}
  ELSE {"guides"} \union
       (IF ~complete THEN {}
        ELSE (IF RunsTaa(s) THEN {"taa"} ELSE {})
             \union (IF RunsNrd(s, ready) THEN {"nrd"} ELSE {})
             \union (IF RunsInternal(s, ready) THEN {"internal"} ELSE {})
             \union (IF ~Fuses(s, ready)
                        /\ (RunsTaa(s) \/ RunsNrd(s, ready) \/ RunsInternal(s, ready))
                     THEN {"composite"} ELSE {}))

\* StoreCurrentHistory is reached in these views only.
KeepsTaa(s) == RunsTaa(s) /\ s.view \in {"beauty", "resolve"}

\* Domains a frame writes, when its denoiser and TAA passes run
Produces(s, denoises) ==
  IF Reference(s) THEN {}
  ELSE {"surface", "lighting"} \union (IF denoises THEN {"denoiser"} ELSE {})
       \union (IF KeepsTaa(s) THEN {"taa"} ELSE {})

\* The guards of the passes that mix a history with their own result
ReusesLighting(h) == {"surface", "lighting"} \subseteq h.valid
Accumulates(s, n, h) ==
  {"surface", "denoiser"} \subseteq h.valid
    /\ (RunsNrd(s, n.ready) \/ RunsInternal(s, n.ready))
Resolves(s, h) == {"surface", "taa"} \subseteq h.valid /\ KeepsTaa(s)
Continues(s, n) == RunsNrd(s, n.ready) /\ ~n.restart

\* The histories a frame mixes; without complete resources only the rays run.
Blends(s, n, h, complete) ==
  {d \in Domains \union {"nrd"} :
     \/ d = "reference" /\ h.samples > 0
     \/ /\ ~Reference(s)
        /\ \/ d = "surface" /\ d \in h.valid
           \/ d = "lighting" /\ ReusesLighting(h)
           \/ d = "denoiser" /\ complete /\ Accumulates(s, n, h)
           \/ d = "taa" /\ complete /\ Resolves(s, h)
           \/ d = "nrd" /\ complete /\ Continues(s, n)}

---------------------------------------------------------------------------
\* Frames in flight

\* WaitForPreviousFrame: the GPU has finished everything.
Waited(queue) == <<>>

\* Frames in flight lose something they use.
Losing(queue, what) ==
  [i \in DOMAIN queue |-> [queue[i] EXCEPT !.has = @ \ what]]

\* CreateGpuResourcesForCurrentScene: every resource but the NRD instance is
\* replaced, and it ends in ResetRenderingHistory.
CreateAll(s, ready) ==
  /\ inFlight' = Losing(Waited(inFlight), {"outputs", "scene"})
  /\ outputs' = OutputsFor(s, ready)
  /\ history' = Invalidated(history, Domains)
  /\ nrd' = [ready |-> ready, restart |-> TRUE]

\* Mutant: new materials and lights take the place of the old at once.
RefreshEditableAtOnce == inFlight' = Losing(inFlight, {"scene"})

\* RefreshEditableGpuResources: materials, lights and textures
RefreshEditable == inFlight' = Losing(Waited(inFlight), {"scene"})

\* SelectedNrdMethod; UpdateMethod makes another instance when it changes, which
\* can evaluate and has no history.
Method(s) == IF s.backend = "relax" THEN "relax" ELSE "reblur"
SameMethod(s) == Method(s) = Method(settings)
NrdFor(s) == IF SameMethod(s) THEN nrd ELSE [ready |-> TRUE, restart |-> FALSE]
StaleFor(s, changes) ==
  (IF SameMethod(s) THEN stale ELSE stale \ {"nrd"}) \union Outdated(changes)
UnsaidFor(s) == IF SameMethod(s) THEN unsaid ELSE unsaid \ {"nrd"}

\* RequestGpuResourceRefresh keeps the stronger request.
Stronger(a, b) ==
  IF "full" \in {a, b} THEN "full" ELSE IF "data" \in {a, b} THEN "data" ELSE "none"

\* ApplyQualitySettingsToRenderer selects the denoiser of the profile.
Applied(s, profile) ==
  [s EXCEPT !.profile = profile,
            !.backend = IF profile = "reference" THEN "off" ELSE "reblur",
            !.enabled = profile # "reference"]

NoFrame == [blends |-> {}, mixed |-> {}, excused |-> {}, lacks |-> {}, capture |-> FALSE]

Event == events > 0 /\ events' = events - 1

---------------------------------------------------------------------------
Init ==
  /\ phase = "commands" /\ resize = FALSE /\ refresh = "none"
  /\ settings = [profile |-> "game", backend |-> "internal", enabled |-> TRUE,
                 view |-> "beauty", taa |-> TRUE, frozen |-> FALSE]
  /\ nrd = [ready |-> TRUE, restart |-> TRUE]
  /\ history = [valid |-> {}, samples |-> 0, restart |-> TRUE, tracked |-> FALSE]
  /\ preserve = FALSE /\ seenView = "none"
  /\ outputs = OutputsFor(settings, TRUE)
  /\ context = 0 /\ inFlight = <<>>
  /\ frame = NoFrame
  /\ stale = Domains \union {"nrd"} /\ unsaid = {}
  /\ events = MaxEvents

---------------------------------------------------------------------------
\* Commands of the window, drained before OnUpdate

Commanded == phase = "commands" /\ Event

\* Edits that describe their change and may ask for new resources: for all of
\* them, or for those of materials and lights.
MaterialEdits == [change: {"Material"}, refresh: {"data", "full"}]
LightEdits == [change: {"Light"}, refresh: {"none", "data"}]
BackendEdits == [change: {"Backend"}, refresh: {"none", "full"}]
SizeEdits == [change: {"Resolution"}, refresh: {"full"}]
ViewEdits == [change: {"View"}, refresh: {"none"}]
DenoiserEdits == [change: {"DenoiserSettings"}, refresh: {"none"}]
CameraEdits == [change: {"CameraCut"}, refresh: {"none"}]
ResetEdits == [change: {"ManualReset"}, refresh: {"none"}]

EditorEdits ==
  UNION {MaterialEdits, LightEdits, BackendEdits, SizeEdits, ViewEdits, DenoiserEdits,
         CameraEdits, ResetEdits}

EditContent(edit) ==
  /\ Commanded
  /\ Changed(edit.change)
  /\ refresh' = Stronger(refresh, edit.refresh)
  /\ UNCHANGED <<phase, resize, settings, preserve, seenView, outputs, context, inFlight,
                 frame>>

\* An edit that selects passes: it asks for all resources when it changes them.
EditSettings(s, change, all) ==
  /\ Commanded
  /\ settings' = s
  /\ Changed(change)
  /\ refresh' = IF all THEN "full" ELSE refresh
  /\ UNCHANGED <<phase, resize, preserve, seenView, outputs, context, inFlight, frame>>

EditEnabled ==
  EditSettings([settings EXCEPT !.enabled = ~@], "DenoiserSettings", settings.backend \in Nrd)

EditView(v) ==
  EditSettings([settings EXCEPT !.view = v], "View", settings.backend \in Nrd)

EditTaa == EditSettings([settings EXCEPT !.taa = ~@], "DenoiserSettings", TRUE)

\* Edits that describe no change.  The next frame notices some by itself, and
\* starts the reference image again (HasAccumulationStateChanged).
EditQuietly(s, changes, noticed) ==
  /\ Commanded
  /\ settings' = s
  /\ history' = [history EXCEPT !.restart = @ \/ noticed]
  /\ Ages(changes, IF noticed THEN {"reference"} ELSE {})
  /\ UNCHANGED <<phase, resize, refresh, nrd, preserve, seenView, outputs, context,
                 inFlight, frame>>

EditFrozen == EditQuietly([settings EXCEPT !.frozen = ~@], {}, FALSE)

\* The selected material, while a focus mode shows it
EditSelection == EditQuietly(settings, {"View"}, TRUE)

\* A preset rewrites the settings of the denoiser, which it enables; some of them
\* are compared.
EditPreset(noticed) ==
  EditQuietly([settings EXCEPT !.enabled = TRUE], {"DenoiserSettings"}, noticed)

\* The instance of another method takes the place of NRD's at once.
EditBackend(b) ==
  LET s == [settings EXCEPT !.backend = b]
      reset == DomainsFor("DenoiserSettings") IN
  /\ Commanded
  /\ settings' = s
  /\ nrd' = Restarted(NrdFor(s), reset)
  /\ inFlight' = IF SameMethod(s) THEN inFlight ELSE Losing(inFlight, {"nrd"})
  /\ history' = Invalidated(history, reset)
  /\ stale' = StaleFor(s, {"Backend"}) /\ unsaid' = UnsaidFor(s)
  /\ refresh' = "full"
  /\ UNCHANGED <<phase, resize, preserve, seenView, outputs, context, frame>>

EditProfile(p) ==
  LET s == Applied(settings, p)
      reset == DomainsFor("QualityProfile") IN
  /\ Commanded
  /\ settings' = s
  /\ inFlight' = Losing(Waited(inFlight), IF SameMethod(s) THEN {} ELSE {"nrd"})
  /\ nrd' = Restarted(NrdFor(s), reset)
  /\ history' = Invalidated(history, reset)
  /\ stale' = StaleFor(s, {"Backend", "QualityProfile"}) /\ unsaid' = UnsaidFor(s)
  /\ refresh' = "full"
  /\ UNCHANGED <<phase, resize, preserve, seenView, outputs, context, frame>>

AskResize ==
  /\ Commanded
  /\ resize' = TRUE
  /\ UNCHANGED <<phase, refresh, settings, nrd, history, preserve, seenView, outputs,
                 context, inFlight, frame, stale, unsaid>>

---------------------------------------------------------------------------
\* OnUpdate

\* The pending resize, unless the size is what it was; NRD is made anew.
UpdateBegins ==
  /\ phase = "commands" /\ phase' = "loads"
  /\ resize' = FALSE
  /\ \/ UNCHANGED <<nrd, history, outputs, context, inFlight, stale, unsaid>>
     \/ /\ resize
        /\ CreateAll(settings, TRUE)
        /\ context' = 0
        /\ stale' = (stale \ {"nrd"}) \union Outdated({"Resolution"})
        /\ unsaid' = unsaid \ {"nrd"}
  /\ UNCHANGED <<refresh, settings, preserve, seenView, frame, events>>

\* CommitImportedScene, or LoadScenePath; a failure puts the old scene back.
SceneCommits ==
  /\ phase = "loads" /\ Event
  /\ CreateAll(settings, nrd.ready)
  /\ stale' = stale \union Outdated({"Geometry"})
  /\ UNCHANGED <<phase, resize, refresh, settings, preserve, seenView, context, frame,
                 unsaid>>

EnvironmentLoads ==
  /\ phase = "loads" /\ Event
  /\ RefreshEditable
  /\ Changed("Hdri")
  /\ UNCHANGED <<phase, resize, refresh, settings, preserve, seenView, outputs, context,
                 frame>>

\* Mutant: a view that ends or begins the fused pass is not noticed.
FusionChangesByDenoiser(s) == s.backend \in Nrd /\ s.enabled # settings.enabled

\* What a project, a tool or a view changes about the resources of NRD's passes
FusionChanges(s) ==
  /\ s.backend \in Nrd
  /\ \/ s.enabled # settings.enabled
     \/ (s.view = "beauty") # (settings.view = "beauty")

SetChanges(s) ==
  \/ s.profile # settings.profile \/ s.taa # settings.taa \/ s.backend # settings.backend

\* LoadProjectFromDisk on the scene that is open
ProjectLoads(profile, view) ==
  LET s == [Applied(settings, profile) EXCEPT !.view = view] IN
  /\ phase = "loads" /\ Event
  /\ settings' = s
  /\ IF SetChanges(s) \/ FusionChanges(s)
     THEN CreateAll(s, NrdFor(s).ready)
     ELSE /\ inFlight' = Waited(inFlight)
          /\ history' = Invalidated(history, Domains)
          /\ nrd' = Restarted(nrd, Domains)
          /\ UNCHANGED outputs
  /\ stale' = StaleFor(s, {"ManualReset"}) /\ unsaid' = UnsaidFor(s)
  /\ UNCHANGED <<phase, resize, refresh, preserve, seenView, context, frame>>

\* m_pendingGpuResourceRefresh
UpdateRefreshes ==
  /\ phase = "loads" /\ phase' = "tools"
  /\ refresh' = "none"
  /\ CASE refresh = "full" ->
            /\ CreateAll(settings, nrd.ready)
            /\ stale' = stale \union Outdated({"ManualReset"})
       [] refresh = "data" -> RefreshEditable /\ UNCHANGED <<nrd, history, outputs, stale>>
       [] OTHER -> UNCHANGED <<nrd, history, outputs, inFlight, stale>>
  /\ UNCHANGED <<resize, settings, preserve, seenView, context, frame, unsaid, events>>

---------------------------------------------------------------------------
\* ProcessMcpCommands

Tooled == phase = "tools" /\ Event

\* Tools that only describe a change
ToolChanges == {"Light", "Backend", "CameraCut", "ManualReset", "DenoiserSettings", "View"}

ToolContent(change) ==
  /\ Tooled
  /\ Changed(change)
  /\ UNCHANGED <<phase, resize, refresh, settings, preserve, seenView, outputs, context,
                 inFlight, frame>>

\* Materials and their textures, which are replaced at once
ToolMaterial ==
  /\ Tooled
  /\ Changed("Material")
  /\ RefreshEditable
  /\ UNCHANGED <<phase, resize, refresh, settings, preserve, seenView, outputs, context,
                 frame>>

\* A material that needs new geometry, or another mode of the path tracer
ToolRebuilds(change) ==
  /\ Tooled
  /\ CreateAll(settings, nrd.ready)
  /\ stale' = stale \union Outdated({change})
  /\ UNCHANGED <<phase, resize, refresh, settings, preserve, seenView, context, frame,
                 unsaid>>

\* Tools that start the reference image again, and nothing else
ToolReference(changes) ==
  /\ Tooled
  /\ history' = Invalidated(history, {"reference"})
  /\ Ages(changes, {"reference"})
  /\ UNCHANGED <<phase, resize, refresh, settings, nrd, preserve, seenView, outputs,
                 context, inFlight, frame>>

ToolAccumulation == ToolReference({})

\* set_color_management: exposure, tone mapper and gamma
ToolColors == ToolReference({"View"})

\* set_view for the direction of normal maps: the reference image goes on.
ToolNormals ==
  LET reset == DomainsFor("DenoiserSettings") IN
  /\ Tooled
  /\ history' = Invalidated(history, reset)
  /\ nrd' = Restarted(nrd, reset)
  /\ Ages({"View"}, reset \union {"nrd"})
  /\ UNCHANGED <<phase, resize, refresh, settings, preserve, seenView, outputs, context,
                 inFlight, frame>>

\* set_quality
ToolQuality(profile, taa) ==
  LET s == [Applied(settings, profile) EXCEPT !.taa = taa]
      reset == DomainsFor("QualityProfile") IN
  /\ Tooled
  /\ settings' = s
  /\ IF SetChanges(s) THEN CreateAll(s, NrdFor(s).ready)
     ELSE /\ inFlight' = Waited(inFlight)
          /\ history' = Invalidated(history, reset)
          /\ nrd' = Restarted(nrd, reset)
          /\ UNCHANGED outputs
  /\ stale' = StaleFor(s, {"Backend", "QualityProfile"}) /\ unsaid' = UnsaidFor(s)
  /\ UNCHANGED <<phase, resize, refresh, preserve, seenView, context, frame>>

\* set_denoise, which may be told to keep the histories of the same passes
ToolDenoise(backend, enabled, keep) ==
  LET s == [settings EXCEPT !.backend = backend, !.enabled = enabled]
      reset == IF keep THEN {"reference"}
               ELSE IF backend # settings.backend THEN DomainsFor("Backend")
               ELSE DomainsFor("DenoiserSettings") IN
  /\ Tooled
  /\ settings' = s
  /\ IF backend # settings.backend \/ FusionChanges(s)
     THEN CreateAll(s, NrdFor(s).ready)
     ELSE /\ inFlight' = Waited(inFlight)
          /\ history' = Invalidated(history, reset)
          /\ nrd' = Restarted(nrd, reset)
          /\ UNCHANGED outputs
  /\ stale' = StaleFor(s, IF backend # settings.backend THEN {"Backend"}
                          ELSE IF keep THEN {} ELSE {"DenoiserSettings"})
  /\ unsaid' = UnsaidFor(s) \union Outdated(IF keep THEN {"DenoiserSettings"} ELSE {})
  /\ UNCHANGED <<phase, resize, refresh, preserve, seenView, context, frame>>

\* set_view: a mode of the reference image is noticed by the next frame.
ToolView(view) ==
  LET s == [settings EXCEPT !.view = view]
      reset == DomainsFor("DenoiserSettings") IN
  /\ Tooled /\ view # settings.view
  /\ settings' = s
  /\ IF FusionChanges(s) THEN CreateAll(s, nrd.ready)
     ELSE /\ history' = Invalidated(history, reset)
          /\ nrd' = Restarted(nrd, reset)
          /\ UNCHANGED <<outputs, inFlight>>
  /\ stale' = StaleFor(s, IF FusionChanges(s) THEN {"ManualReset"} ELSE {})
  /\ UNCHANGED <<phase, resize, refresh, preserve, seenView, context, frame, unsaid>>

\* set_camera that keeps the history, on purpose or unless it moves far
ToolCamera(keep) ==
  /\ Tooled
  /\ preserve' = keep
  /\ Changed("CameraMotion")
  /\ UNCHANGED <<phase, resize, refresh, settings, seenView, outputs, context, inFlight,
                 frame>>

---------------------------------------------------------------------------
\* A frame: UpdateConstantBuffer, then the passes

Moves == {"still", "near", "far"}

\* UpdateCameraMotionState
Tracked(h, move) ==
  LET cut == move = "far" /\ ~preserve
      kept == IF move = "still" THEN h
              ELSE Invalidated(h, IF cut THEN Domains ELSE DomainsFor("CameraMotion"))
  IN IF h.tracked THEN [kept EXCEPT !.tracked = TRUE] ELSE [h EXCEPT !.tracked = TRUE]

\* Mutant: only a request and the camera are compared.
ComparedToCamera(h, s, move) ==
  IF h.restart \/ move # "still"
  THEN [h EXCEPT !.samples = 0, !.valid = @ \ {"reference"}, !.restart = FALSE]
  ELSE h

\* HasAccumulationStateChanged: the camera and the view are compared, and the
\* request is consumed.
Compared(h, s, move) ==
  IF h.restart \/ s.view # seenView \/ move # "still"
  THEN [h EXCEPT !.samples = 0, !.valid = @ \ {"reference"}, !.restart = FALSE]
  ELSE h

\* The domains the frame will have produced
Advanced(h, s, ready) ==
  LET samples == IF s.frozen \/ h.samples = MaxSamples THEN h.samples ELSE h.samples + 1 IN
  [h EXCEPT
     !.samples = samples,
     !.valid = (@ \ Realtime)
               \union Produces(s, RunsNrd(s, ready) \/ RunsInternal(s, ready))
               \union (IF samples > 0 THEN {"reference"} ELSE {})]

\* UpdateConstantBuffer from history h; a dynamic resolution may replace the
\* outputs and NRD's instance in the middle of it, and the next frame has then no
\* camera to compare with: a jump it cannot see ("unseen") ages as a motion.
Built(s, h, n, old, move, scaled) ==
  LET tracked == Tracked(h, move)
      cut == h.tracked /\ move = "far" /\ ~preserve
      sized == IF scaled THEN Invalidated(tracked, Domains) ELSE tracked
      device == IF scaled THEN [ready |-> TRUE, restart |-> TRUE]
                ELSE IF cut THEN Restarted(n, Domains) ELSE n
      begun == Compared(sized, s, move)
      complete == refresh # "full"
      unseen == ~h.tracked /\ "surface" \in h.valid
      aged == (IF scaled THEN old \ {"nrd"} ELSE old)
              \union Outdated((IF scaled THEN {"Resolution"} ELSE {})
                              \union (IF s.view = seenView THEN {} ELSE {"View"})
                              \union (CASE move = "still" -> {}
                                        [] move = "far" /\ ~preserve /\ ~unseen -> {"CameraCut"}
                                        [] OTHER -> {"CameraMotion"}))
      silent == IF scaled THEN unsaid \ {"nrd"} ELSE unsaid
      made == IF scaled THEN OutputsFor(s, TRUE) ELSE outputs
      blends == Blends(s, device, begun, complete)
  IN [history |-> Advanced(begun, s, device.ready),
      nrd |-> device, stale |-> aged, unsaid |-> silent, outputs |-> made,
      preserve |-> preserve /\ ~h.tracked,
      frame |-> [blends |-> blends, mixed |-> blends \intersect (aged \union silent),
                 excused |-> silent \ aged,
                 lacks |-> Needs(s, device.ready, complete) \ made,
                 capture |-> FALSE]]

\* The passes of frame f; NRD may fail, and then TAA is left out as well.
Recorded(s, n, old, f, fails) ==
  LET complete == refresh # "full"
      filters == RunsNrd(s, n.ready) /\ complete /\ ~fails
      wrote == {"reference"}
               \union (IF ~complete \/ fails THEN Produces(s, FALSE) \ {"taa"}
                       ELSE Produces(s, filters \/ RunsInternal(s, n.ready)))
               \union (IF filters THEN {"nrd"} ELSE {})
  IN [nrd |-> CASE fails -> [n EXCEPT !.ready = FALSE]
                [] filters -> [n EXCEPT !.restart = FALSE]
                [] OTHER -> n,
      refresh |-> IF fails THEN "full" ELSE refresh,
      stale |-> (old \ (wrote \ f.blends)) \union ((Domains \union {"nrd"}) \ wrote),
      unsaid |-> unsaid \ (wrote \ f.blends)]

CanFail(s, n) == RunsNrd(s, n.ready) /\ refresh # "full"

\* capture_debug_pack renders a frame of another view, without new resources,
\* and waits for the GPU before and after it.
ToolPack(view) ==
  Tooled /\ \E move \in Moves :
  \E s \in {[settings EXCEPT !.view = view]}, reset \in {DomainsFor("DenoiserSettings")} :
  \E b \in {Built(s, Invalidated(history, reset), Restarted(nrd, reset), stale, move, FALSE)} :
  \E fails \in BOOLEAN :
  \E r \in {Recorded(s, b.nrd, b.stale, b.frame, fails)} :
    /\ fails => CanFail(s, b.nrd)
    /\ inFlight' = Waited(inFlight)
    /\ frame' = [b.frame EXCEPT !.capture = TRUE]
    /\ history' = Invalidated(b.history, reset)
    /\ nrd' = Restarted(r.nrd, reset)
    /\ stale' = r.stale /\ unsaid' = r.unsaid
    /\ refresh' = r.refresh
    /\ preserve' = b.preserve
    /\ seenView' = view
    /\ UNCHANGED <<phase, resize, settings, outputs, context>>

\* No frame is built while the renderer sleeps: the window is minimized, or the
\* GPU is lent to the local model.
UpdateEnds ==
  /\ phase = "tools" /\ phase' \in {"frame", "commands"}
  /\ frame' = NoFrame
  /\ UNCHANGED <<resize, refresh, settings, nrd, history, preserve, seenView, outputs,
                 context, inFlight, stale, unsaid, events>>

\* WaitForFrameContext
ContextIsFree == \A i \in DOMAIN inFlight : inFlight[i].context # context

BuildFrame(move, scaled) ==
  /\ phase = "frame" /\ phase' = "render"
  /\ ContextIsFree
  /\ scaled => ~Reference(settings)
  /\ \E b \in {Built(settings, history, nrd, stale, move, scaled)} :
    /\ IF move = "still" /\ ~scaled THEN UNCHANGED events
       ELSE events > 0 /\ events' = events - 1
    /\ history' = b.history /\ nrd' = b.nrd /\ outputs' = b.outputs
    /\ stale' = b.stale /\ unsaid' = b.unsaid
    /\ preserve' = b.preserve /\ frame' = b.frame
    /\ seenView' = settings.view
    /\ inFlight' = IF scaled THEN Losing(Waited(inFlight), {"outputs", "nrd"}) ELSE inFlight
    /\ UNCHANGED <<resize, refresh, settings, context>>

\* OnRender: the frame is recorded, submitted and presented.
RenderFrame(fails) ==
  /\ phase = "render" /\ phase' = "commands"
  /\ \E r \in {Recorded(settings, nrd, stale, frame, fails)} :
    /\ IF fails THEN CanFail(settings, nrd) /\ Event ELSE UNCHANGED events
    /\ nrd' = r.nrd /\ stale' = r.stale /\ unsaid' = r.unsaid /\ refresh' = r.refresh
    /\ inFlight' = Append(inFlight, [context |-> context, has |-> {"outputs", "scene", "nrd"}])
    /\ context' = (context + 1) % Contexts
    /\ frame' = NoFrame
    /\ UNCHANGED <<resize, settings, history, preserve, seenView, outputs>>

\* The GPU finishes the oldest frame.
FrameFinishes ==
  /\ inFlight # <<>>
  /\ inFlight' = Tail(inFlight)
  /\ UNCHANGED <<phase, resize, refresh, settings, nrd, history, preserve, seenView,
                 outputs, context, frame, stale, unsaid, events>>

---------------------------------------------------------------------------
Commands ==
  \/ \E e \in EditorEdits : EditContent(e)
  \/ EditEnabled \/ EditTaa \/ EditFrozen \/ EditSelection
  \/ \E n \in BOOLEAN : EditPreset(n)
  \/ \E v \in Views : EditView(v)
  \/ \E b \in Backends : EditBackend(b)
  \/ \E p \in {"game", "reference"} : EditProfile(p)
  \/ AskResize

Updates ==
  \/ UpdateBegins \/ SceneCommits \/ EnvironmentLoads \/ UpdateRefreshes \/ UpdateEnds
  \/ \E p \in {"game", "reference"}, v \in Views : ProjectLoads(p, v)

Tools ==
  \/ \E c \in ToolChanges : ToolContent(c)
  \/ ToolMaterial \/ ToolAccumulation \/ ToolColors \/ ToolNormals
  \/ \E c \in {"Geometry", "Backend"} : ToolRebuilds(c)
  \/ \E p \in {"game", "reference"}, t \in BOOLEAN : ToolQuality(p, t)
  \/ \E b \in Backends, e \in BOOLEAN, k \in BOOLEAN : ToolDenoise(b, e, k)
  \/ \E v \in Views : ToolView(v) \/ ToolPack(v)
  \/ \E k \in BOOLEAN : ToolCamera(k)

Frames ==
  \/ \E m \in Moves, s \in BOOLEAN : BuildFrame(m, s)
  \/ \E f \in BOOLEAN : RenderFrame(f)
  \/ FrameFinishes

Next == Commands \/ Updates \/ Tools \/ Frames
Spec == Init /\ [][Next]_vars

---------------------------------------------------------------------------
Resources == {"reference", "guides", "taa", "nrd", "internal", "composite"}
SettingStates == [profile: {"game", "reference"}, backend: Backends, enabled: BOOLEAN,
                  view: Views, taa: BOOLEAN, frozen: BOOLEAN]
NrdStates == [ready: BOOLEAN, restart: BOOLEAN]
HistoryStates == [valid: SUBSET Domains, samples: 0 .. MaxSamples, restart: BOOLEAN,
                  tracked: BOOLEAN]
FlightFrames == [context: 0 .. Contexts - 1, has: SUBSET {"outputs", "scene", "nrd"}]
FrameStates == [blends: SUBSET (Domains \union {"nrd"}), mixed: SUBSET (Domains \union {"nrd"}),
                excused: SUBSET (Domains \union {"nrd"}), lacks: SUBSET Resources,
                capture: BOOLEAN]

\* Every variable keeps its type.
TypeOK ==
  /\ phase \in {"commands", "loads", "tools", "frame", "render"}
  /\ resize \in BOOLEAN /\ refresh \in {"none", "data", "full"}
  /\ settings \in SettingStates /\ nrd \in NrdStates /\ history \in HistoryStates
  /\ preserve \in BOOLEAN /\ seenView \in Views \union {"none"}
  /\ outputs \subseteq Resources
  /\ context \in 0 .. Contexts - 1 /\ inFlight \in Seq(FlightFrames)
  /\ frame \in FrameStates
  /\ stale \subseteq Domains \union {"nrd"} /\ unsaid \subseteq Domains \union {"nrd"}
  /\ events \in 0 .. MaxEvents

\* A frame mixes no history into its result that is older than a change of what
\* it was made from, or that the frame before did not write, whatever edits,
\* failures, sleeping or captures came between (HistoryDomainsForChange and its
\* callers).  Five changes are excepted, which the code keeps silent about and which
\* do stay in what is mixed until something else resets it: a material selected in
\* a focus mode, the denoiser's presets, set_color_management, set_denoise when it
\* is told to keep the history, and, for the reference image alone, set_view's
\* normal maps.  One jump is not counted, in the README's known limits: the frame
\* after a change of the internal resolution takes it for a motion.
HistoryIsCurrent == frame.mixed \subseteq frame.excused

\* The GPU keeps what a submitted frame uses until it has finished it, and the
\* constants and the allocator the next frame writes are not in use
\* (WaitForPreviousFrame, WaitForFrameContext).
FramesKeepTheirs ==
  /\ \A i \in DOMAIN inFlight : {"outputs", "scene"} \subseteq inFlight[i].has
  /\ phase = "render" => ContextIsFree

\* Every pass of a frame of the loop finds the resources it reads and writes made
\* for it and not a placeholder (CreateOutputResources, ShouldFuseNrdFinalTaa).
PassesFindTheirs == frame.capture \/ frame.lacks = {}
=============================================================================
