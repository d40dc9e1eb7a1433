-------------------------- MODULE LookDevProject --------------------------
\* The scene, the project and the session of the renderer
\* (D3D12PathTracingBackend.cpp, RendererController.cpp): scenes imported in
\* the background, projects saved and loaded, checkpoints and benchmarks of MCP
\* clients that put an earlier state back, and the session that is saved at
\* exit and restored at the next launch.  Everything but the importer runs on
\* the render thread, one frame after the other; a crash may come between any
\* two steps, and file operations and loads may fail.
\*
\* What a project stores is its scene and, as one value, its look: everything
\* an import of the scene resets (materials, lights, environment, camera).
\* A file is the set of what a load finds in it: nothing when it is missing or
\* torn.  SceneFingerprint changes with every new geometry and never returns,
\* so a checkpoint only knows whether the fingerprint is still its own.
EXTENDS Naturals, Sequences, FiniteSets, SequencesExt

CONSTANTS Paths,           \* paths of project files
          MaxLoads,        \* bound on scenes asked for; load n brings scene n
          KeptCheckpoints, \* checkpoints kept (16)
          MaxCommands,     \* bound on what the user and the tools ask for
          MaxLaunches,
          MaxFaults,       \* bound on failing loads and file operations
          MaxCrashes

ASSUME ProjectAssumption ==
  /\ 0 \notin Paths /\ KeptCheckpoints \in Nat \ {0}
  /\ {MaxLoads, MaxCommands, MaxLaunches, MaxFaults, MaxCrashes} \subseteq Nat

VARIABLES
  live,     \* m_scene and the settings a project stores
  proj,     \* m_projectPath, m_projectDirty
  asked,    \* m_pendingProjectPath, m_pendingScenePath
  load,     \* m_sceneLoadFuture, m_sceneLoadCpuResult, the cancel flag, the queue
  cps,      \* m_mcpCheckpoints, with the content of their files
  bench,    \* the active MCP benchmark and its checkpoint
  finished, \* m_benchmarkFinished
  session,  \* m_sessionRestoreEnabled and what session.json says of the project
  files,    \* project files
  disk,     \* last-session.lookdevpt.json, .restore-pending and session.json
  at, back, \* where the render thread is, and who asked for the snapshot
  answer,   \* history: what became of each load
  exit,     \* history: what the last clean exit did to the session
  sound,    \* history: the dirty flag follows edits, loads and saves only
  commands, \* commands and tool calls left
  budget    \* launches, faults and crashes left

content == <<live, proj, cps, bench, finished>>
loads == <<asked, load, answer>>
history == <<exit, sound>>
projectVars == <<content, loads, session, files, disk, at, back, history, budget, commands>>

Preview == 0                \* the built-in scene: its path is empty
NoScene == 0
NoPath == 0
Looks == {0, 1}             \* 0 is the look of a scene just imported
Scenes == 1 .. MaxLoads
Content == [scene : {Preview} \union Scenes, look : Looks]
Projects == [path : Paths \union {NoPath}, dirty : BOOLEAN]

Idle == [scene |-> NoScene, stage |-> "none", cancel |-> FALSE, queued |-> NoScene]
NothingAsked == [project |-> NoPath, scene |-> NoScene]
Unnamed == [path |-> NoPath, dirty |-> FALSE]
SessionOff == [restore |-> FALSE, project |-> Unnamed]

ProjectTypeOK ==
  /\ live \in Content /\ proj \in Projects
  /\ asked \in [project : Paths \union {NoPath}, scene : {NoScene} \union Scenes]
  /\ load \in [scene : {NoScene} \union Scenes, cancel : BOOLEAN,
               stage : {"none", "importing", "imported", "unreadable", "converted"},
               queued : {NoScene} \union Scenes]
  /\ Len(cps) <= KeptCheckpoints /\ Cardinality(bench) <= 1 /\ finished \in BOOLEAN
  /\ session \in [restore : BOOLEAN, project : Projects]
  /\ \A p \in Paths : files[p] \subseteq Content /\ Cardinality(files[p]) <= 1
  /\ Cardinality(disk.snapshot) <= 1 /\ Cardinality(disk.pending) <= 1
  /\ at \in {"off", "isolating", "choosing", "trying", "restored", "rejected", "loop",
             "commands", "stopping", "poll", "pending", "mcp", "exiting", "snapshot", "settings"}
  /\ back \in {"off", "enable", "new"}
  /\ answer \in [Scenes -> {"none", "open", "committed", "failed", "cancelled", "replaced"}]
  /\ exit \in {"none", "saved", "isolated", "stuck", "skipped"} /\ sound \in BOOLEAN

\* An operation may fail while the bound on faults allows it.
MayFail == budget.faults > 0
Faulty(failed) == [budget EXCEPT !.faults = IF failed THEN @ - 1 ELSE @]

---------------------------------------------------------------------------
\* Scenes, projects and checkpoints

\* Mutant: the fingerprint survives new geometry.
SameGeometry(points) == points

\* InvalidateHistoryDomains: new geometry, so no checkpoint is of this scene.
Geometry(points) == [i \in DOMAIN points |-> [points[i] EXCEPT !.same = FALSE]]

\* CommitImportedScene, InitializeMaterialLookDevState.
Imported(scene) == [scene |-> scene, look |-> 0]

\* A project without a scene path keeps the scene that is shown.
Opened(c) == [c EXCEPT !.scene = IF c.scene = Preview THEN live.scene ELSE c.scene]

\* LoadProjectFromDisk: what a load may leave behind.  A file that cannot be
\* read changes nothing.  A load may fail before its scene, with the render
\* mode already changed, or after it, with the project dirty.
Unread == [ok |-> FALSE, live |-> live, dirty |-> proj.dirty, geometry |-> FALSE, fault |-> FALSE]
LoadsOf(c) ==
  LET fails == [Unread EXCEPT !.fault = TRUE]
      mode  == {[fails EXCEPT !.live.look = l] : l \in Looks}
      late  == [fails EXCEPT !.live = Imported(c.scene), !.dirty = TRUE, !.geometry = TRUE]
      done  == [Unread EXCEPT !.ok = TRUE, !.live = Opened(c), !.dirty = FALSE,
                              !.geometry = c.scene # Preview]
  IN {done} \union IF ~MayFail THEN {} ELSE mode \union IF c.scene = Preview THEN {} ELSE {late}
LoadsFrom(file) == IF file = {} THEN {Unread} ELSE UNION {LoadsOf(c) : c \in file}

\* Mutant: a load that failed late leaves the project clean.
TakeClean(r, p) ==
  /\ live' = r.live
  /\ proj' = IF r.ok THEN p ELSE proj
  /\ budget' = Faulty(r.fault)

\* LoadProjectFromDisk by result r, then p as its path and dirty flag.
Take(r, p) ==
  /\ live' = r.live
  /\ proj' = IF r.ok THEN p ELSE [proj EXCEPT !.dirty = r.dirty]
  /\ budget' = Faulty(r.fault)

Points(r) == IF r.geometry THEN Geometry(cps) ELSE cps

\* LoadProject of a file of the user's.  A project of the preview scene opened
\* over another scene is not what the file holds (README, known limits).
OpenProject(p) ==
  \E r \in LoadsFrom(files[p]) :
    /\ Take(r, [path |-> p, dirty |-> FALSE])
    /\ cps' = Points(r)
    /\ sound' = IF r.ok THEN r.live \in files[p] ELSE sound /\ (r.dirty \/ r.live = live)
    /\ UNCHANGED <<bench, finished>>

\* SaveProjectToDisk: the file is truncated first.
SaveTo(p, failed) ==
  /\ p # NoPath
  /\ failed => MayFail
  /\ files' = [files EXCEPT ![p] = IF failed THEN {} ELSE {live}]
  /\ proj' = IF failed THEN proj ELSE [path |-> p, dirty |-> FALSE]
  /\ sound' = IF failed THEN sound /\ proj.path # p ELSE TRUE
  /\ budget' = Faulty(failed)
  /\ UNCHANGED <<live, cps, bench, finished, loads, session, disk, at, back, exit>>

---------------------------------------------------------------------------
\* Launch

ProjectInit ==
  /\ live = Imported(Preview) /\ proj = Unnamed /\ asked = NothingAsked /\ load = Idle
  /\ cps = <<>> /\ bench = {} /\ finished = FALSE /\ session = SessionOff
  /\ files = [p \in Paths |-> {}]
  /\ disk = [snapshot |-> {}, pending |-> {}, settings |-> SessionOff]
  /\ at = "off" /\ back = "off"
  /\ answer = [n \in Scenes |-> "none"] /\ exit = "none" /\ sound = TRUE
  /\ commands = MaxCommands
  /\ budget = [launches |-> MaxLaunches, faults |-> MaxFaults, crashes |-> MaxCrashes]

\* OnInit, LoadAssets: the preview scene, then the session if it is on and the
\* command line names no project or scene.
Launch(explicit) ==
  /\ at = "off" /\ budget.launches > 0
  /\ budget' = [budget EXCEPT !.launches = @ - 1]
  /\ session' = disk.settings
  /\ at' = IF disk.settings.restore /\ ~explicit THEN "isolating" ELSE "loop"
  /\ UNCHANGED <<content, loads, files, disk, back, history>>

\* TryRestorePreviousSession: a .restore-pending left over was interrupted.
IsolatePending(failed) ==
  /\ at = "isolating" /\ at' = "choosing"
  /\ failed => MayFail /\ disk.pending # {}
  /\ disk' = [disk EXCEPT !.pending = IF failed THEN @ ELSE {}]
  /\ budget' = Faulty(failed)
  /\ UNCHANGED <<content, loads, session, files, back, history>>

\* Mutant: the candidate is copied, and keeps its name while it is tried.
TriedInPlace(d) ==
  LET tried == {[s EXCEPT !.tries = @ + 1] : s \in d.snapshot}
  IN [d EXCEPT !.pending = tried, !.snapshot = tried]

\* The candidate loses its name before it is tried.  Without a rollback file,
\* or if it cannot be renamed, it is left alone.
Tried(d) == [d EXCEPT !.pending = {[s EXCEPT !.tries = @ + 1] : s \in d.snapshot}, !.snapshot = {}]

PrepareRestore(failed) ==
  /\ at = "choosing"
  /\ failed => MayFail /\ disk.snapshot # {}
  /\ at' = IF disk.snapshot = {} \/ failed THEN "loop" ELSE "trying"
  /\ disk' = IF disk.snapshot = {} \/ failed THEN disk ELSE Tried(disk)
  /\ budget' = Faulty(failed)
  /\ UNCHANGED <<content, loads, session, files, back, history>>

\* It is loaded under the project session.json names, or the preview scene is
\* put back.
TryRestore ==
  /\ at = "trying"
  /\ \E r \in UNION {LoadsOf(s.live) : s \in disk.pending} :
       /\ live' = IF r.ok THEN r.live ELSE Imported(Preview)
       /\ proj' = IF r.ok THEN session.project ELSE proj
       /\ at' = IF r.ok THEN "restored" ELSE "rejected"
       /\ sound' = ~r.ok
       /\ budget' = Faulty(r.fault)
  /\ UNCHANGED <<cps, bench, finished, loads, session, files, disk, back, exit>>

\* The candidate gets its name back, or is isolated.
EndRestore(failed) ==
  /\ at \in {"restored", "rejected"} /\ at' = "loop"
  /\ failed => MayFail
  /\ disk' = CASE failed -> disk
               [] ~failed /\ at = "rejected" -> [disk EXCEPT !.pending = {}]
               [] ~failed /\ at = "restored" ->
                    [disk EXCEPT !.pending = {},
                                 !.snapshot = {[s EXCEPT !.tries = 0] : s \in disk.pending}]
  /\ budget' = Faulty(failed)
  /\ UNCHANGED <<content, loads, session, files, back, history>>

---------------------------------------------------------------------------
\* Exit

\* The process is gone, and all it held in memory.
Gone ==
  /\ at' = "off" /\ back' = "off"
  /\ live' = Imported(Preview) /\ proj' = Unnamed /\ sound' = TRUE
  /\ cps' = <<>> /\ bench' = {} /\ finished' = FALSE /\ session' = SessionOff
  /\ asked' = NothingAsked /\ load' = Idle
  /\ answer' = [n \in Scenes |-> IF answer[n] = "open" THEN "cancelled" ELSE answer[n]]
  /\ UNCHANGED files

Crash ==
  /\ at # "off" /\ budget.crashes > 0
  /\ budget' = [budget EXCEPT !.crashes = @ - 1]
  /\ Gone /\ UNCHANGED <<disk, exit>>

\* RenderLoop: tests the stop token and the end of a benchmark.
Loop(stop) ==
  /\ at = "loop"
  /\ at' = IF stop \/ finished THEN "exiting" ELSE "commands"
  /\ UNCHANGED <<content, loads, session, files, disk, back, history, budget>>

\* SaveSessionOnExit, OnDestroy: no session is saved with a benchmark's options
\* set.
SaveSessionOnExit ==
  /\ at = "exiting"
  /\ IF session.restore /\ bench = {}
       THEN /\ at' = "snapshot" /\ back' = "off"
            /\ UNCHANGED <<content, loads, session, files, history>>
       ELSE Gone /\ exit' = IF session.restore THEN "skipped" ELSE "none"
  /\ UNCHANGED <<disk, budget>>

\* Mutant: the old snapshot stays.
KeptSnapshot(d, stuck) == d

\* SaveSessionSnapshotToDisk: the new snapshot replaces the old one, or the old
\* one is isolated.
Isolated(d, stuck) == [d EXCEPT !.snapshot = IF stuck THEN @ ELSE {}]
Snapshot == [live |-> live, proj |-> proj, tries |-> 0, whole |-> FALSE]

SaveSnapshot(failed, stuck) ==
  /\ at = "snapshot"
  /\ failed => MayFail
  /\ stuck => failed /\ budget.faults > 1 /\ disk.snapshot # {}
  /\ budget' = [budget EXCEPT !.faults = @ - (IF stuck THEN 2 ELSE IF failed THEN 1 ELSE 0)]
  /\ disk' = IF failed THEN Isolated(disk, stuck) ELSE [disk EXCEPT !.snapshot = {Snapshot}]
  /\ exit' = CASE ~failed -> "saved" [] stuck -> "stuck" [] OTHER -> "isolated"
  /\ IF failed /\ back = "off"
       THEN Gone
       ELSE /\ at' = IF failed /\ back = "new" THEN "commands" ELSE "settings"
            /\ session' = IF failed THEN session ELSE [session EXCEPT !.project = proj]
            /\ UNCHANGED <<content, loads, files, back, sound>>

\* SaveSessionSettingsToDisk
Settled(d) ==
  [d EXCEPT !.settings = session,
            !.snapshot = {[s EXCEPT !.whole = s.whole \/ exit = "saved"] : s \in @}]

SaveSettings(failed) ==
  /\ at = "settings"
  /\ failed => MayFail
  /\ budget' = Faulty(failed)
  /\ disk' = IF failed THEN disk ELSE Settled(disk)
  /\ IF back = "off"
       THEN Gone
       ELSE at' = "commands" /\ UNCHANGED <<content, loads, session, files, back, sound>>
  /\ UNCHANGED exit

---------------------------------------------------------------------------
\* The editor's commands

\* History: load n, whose answer is r; a load that waited for it is replaced.
Answered(n, r) == [answer EXCEPT ![n] = r]
Dropped(n) == IF n = NoScene THEN answer ELSE Answered(n, "replaced")

AskScene(n) ==
  /\ at = "commands" /\ answer[n] = "none" /\ \A m \in 1 .. n - 1 : answer[m] # "none"
  /\ asked' = [asked EXCEPT !.scene = n]
  /\ answer' = [Dropped(asked.scene) EXCEPT ![n] = "open"]
  /\ UNCHANGED <<content, load, session, files, disk, at, back, history, budget>>

AskProject(p) ==
  /\ at = "commands" /\ asked' = [asked EXCEPT !.project = p]
  /\ UNCHANGED <<content, load, answer, session, files, disk, at, back, history, budget>>

SaveProject(p, failed) == at = "commands" /\ SaveTo(p, failed)

\* CancelAsyncSceneLoad: of the load that runs, not of the one in the queue.
CancelLoad ==
  /\ at = "commands" /\ load.stage # "none"
  /\ load' = [load EXCEPT !.cancel = TRUE]
  /\ UNCHANGED <<content, asked, answer, session, files, disk, at, back, history, budget>>

\* The editor's and the tools' edits of camera, lights, materials, quality and
\* views mark the project dirty, but for a texture the editor sets and for a
\* tool's settings when their GPU resources fail.
Edit(marked) ==
  /\ at \in {"commands", "mcp"}
  /\ ~marked /\ at = "mcp" => MayFail
  /\ live' = [live EXCEPT !.look = 1 - @]
  /\ proj' = [proj EXCEPT !.dirty = @ \/ marked]
  /\ sound' = (sound /\ marked) /\ budget' = Faulty(~marked /\ at = "mcp")
  /\ UNCHANGED <<cps, bench, finished, loads, session, files, disk, at, back, exit>>

\* SetSessionRestoreEnabled
EnableRestore ==
  /\ at = "commands" /\ at' = "snapshot" /\ back' = "enable"
  /\ session' = [session EXCEPT !.restore = TRUE]
  /\ UNCHANGED <<content, loads, files, disk, history, budget>>

NoSnapshot(d) == [d EXCEPT !.snapshot = {}, !.pending = {}]

DisableRestore(failed) ==
  /\ at = "commands" /\ session.restore
  /\ failed => MayFail
  /\ session' = SessionOff
  /\ disk' = [NoSnapshot(disk) EXCEPT !.settings = IF failed THEN @ ELSE SessionOff]
  /\ exit' = "none" /\ budget' = Faulty(failed)
  /\ UNCHANGED <<content, loads, files, at, back, sound>>

\* CreateNewScene, ResetToPreviewScene: refused while a load is active; without
\* a rollback file nothing is reset.  What was asked for is forgotten.
NewScene(failed) ==
  /\ at = "commands" /\ load.stage = "none"
  /\ failed => MayFail
  /\ asked' = NothingAsked /\ answer' = Dropped(asked.scene)
  /\ budget' = Faulty(failed)
  /\ IF failed
       THEN UNCHANGED <<content, session, disk, at, back, sound>>
       ELSE /\ live' = Imported(Preview) /\ proj' = Unnamed /\ sound' = TRUE
            /\ cps' = Geometry(cps)
            /\ IF session.restore
                 THEN at' = "snapshot" /\ back' = "new" /\ UNCHANGED disk
                 ELSE disk' = NoSnapshot(disk) /\ UNCHANGED <<at, back>>
            /\ UNCHANGED <<bench, finished, session>>
  /\ UNCHANGED <<load, files, exit>>

\* ResetToPreviewScene fails on the GPU: the rollback file is loaded, and the
\* project keeps its path and flag whether that works or not.
NewSceneFails(restored) ==
  /\ at = "commands" /\ load.stage = "none" /\ MayFail
  /\ asked' = NothingAsked /\ answer' = Dropped(asked.scene)
  /\ live' = IF restored THEN live ELSE Imported(Preview)
  /\ cps' = Geometry(cps) /\ sound' = (sound /\ restored) /\ budget' = Faulty(TRUE)
  /\ UNCHANGED <<proj, bench, finished, load, session, files, disk, at, back, exit>>

Update ==
  /\ at = "commands" /\ at' = "poll"
  /\ UNCHANGED <<content, loads, session, files, disk, back, history, budget>>

---------------------------------------------------------------------------
\* OnUpdate: scene loads

\* The importing task.
Import(failed) ==
  /\ load.stage = "importing"
  /\ failed => MayFail
  /\ load' = [load EXCEPT !.stage = IF failed THEN "unreadable" ELSE "imported"]
  /\ budget' = Faulty(failed)
  /\ UNCHANGED <<content, asked, answer, session, files, disk, at, back, history>>

\* Mutant: the load that runs is not cancelled.
BeginBehind(n, l) ==
  IF l.stage = "none"
    THEN [scene |-> n, stage |-> "importing", cancel |-> FALSE, queued |-> NoScene]
    ELSE [l EXCEPT !.queued = n]

\* BeginAsyncSceneLoad: a load that runs is cancelled, and n queued.
Begin(n, l) ==
  IF l.stage = "none"
    THEN [scene |-> n, stage |-> "importing", cancel |-> FALSE, queued |-> NoScene]
    ELSE [l EXCEPT !.cancel = TRUE, !.queued = n]

\* What PollAsyncSceneLoad does when the load has ended: the queued one begins.
Following(l) == IF l.queued = NoScene THEN Idle ELSE Begin(l.queued, Idle)

Poll == at = "poll" /\ at' = "pending"

\* The result of a cancelled load is dropped at both stages.
Discards == load.cancel

PollIdle ==
  /\ Poll /\ load.stage \in {"none", "importing"}
  /\ UNCHANGED <<content, loads, session, files, disk, back, history, budget>>

PollEnded ==
  /\ Poll
  /\ load.stage = "unreadable" \/ (load.stage \in {"imported", "converted"} /\ Discards)
  /\ load' = Following(load)
  /\ answer' = Answered(load.scene, IF Discards THEN "cancelled" ELSE "failed")
  /\ UNCHANGED <<content, asked, session, files, disk, back, history, budget>>

PollImported ==
  /\ Poll /\ load.stage = "imported" /\ ~Discards
  /\ load' = [load EXCEPT !.stage = "converted"]
  /\ UNCHANGED <<content, asked, answer, session, files, disk, back, history, budget>>

\* CommitImportedScene: when the GPU fails, all but the revision is put back.
PollCommit(failed) ==
  /\ Poll /\ load.stage = "converted" /\ ~Discards
  /\ failed => MayFail
  /\ live' = IF failed THEN live ELSE Imported(load.scene)
  /\ proj' = [proj EXCEPT !.dirty = @ \/ ~failed]
  /\ cps' = Geometry(cps) /\ budget' = Faulty(failed)
  /\ load' = Following(load)
  /\ answer' = Answered(load.scene, IF failed THEN "failed" ELSE "committed")
  /\ UNCHANGED <<asked, bench, finished, session, files, disk, back, history>>

\* The pending project, then the pending scene, then the tools.
PendingProject ==
  /\ at = "pending" /\ asked.project # NoPath
  /\ asked' = [asked EXCEPT !.project = NoPath]
  /\ OpenProject(asked.project)
  /\ UNCHANGED <<load, answer, session, files, disk, at, back, exit>>

PendingScene ==
  /\ at = "pending" /\ asked.project = NoPath /\ asked.scene # NoScene
  /\ asked' = [asked EXCEPT !.scene = NoScene]
  /\ load' = Begin(asked.scene, load)
  /\ answer' = Dropped(load.queued)
  /\ UNCHANGED <<content, session, files, disk, at, back, history, budget>>

PendingDone ==
  /\ at = "pending" /\ asked = NothingAsked /\ at' = "mcp"
  /\ UNCHANGED <<content, loads, session, files, disk, back, history, budget>>

---------------------------------------------------------------------------
\* OnUpdate: ProcessMcpCommands, ProcessMcpBenchmark

ToolLoadsProject(p) ==
  /\ at = "mcp" /\ OpenProject(p)
  /\ UNCHANGED <<loads, session, files, disk, at, back, exit>>

ToolSavesProject(p, failed) == at = "mcp" /\ SaveTo(p, failed)

\* set_scene imports on the render thread.
ToolSetsScene(n) ==
  /\ at = "mcp"
  /\ live' = Imported(n) /\ proj' = [proj EXCEPT !.dirty = TRUE] /\ cps' = Geometry(cps)
  /\ UNCHANGED <<bench, finished, loads, session, files, disk, at, back, history, budget>>

\* SaveProjectToDisk to a file of its own, with the project put back after it.
Checkpoint == [live |-> live, proj |-> proj]

CreateCheckpoint ==
  /\ at = "mcp"
  /\ LET new == Append(cps, [live |-> live, proj |-> proj, same |-> TRUE])
     IN cps' = IF Len(new) > KeptCheckpoints THEN Tail(new) ELSE new
  /\ UNCHANGED <<live, proj, bench, finished, loads, session, files, disk, at, back, history,
                 budget>>

DeleteCheckpoint(i) ==
  /\ at = "mcp" /\ cps' = RemoveAt(cps, i)
  /\ UNCHANGED <<live, proj, bench, finished, loads, session, files, disk, at, back, history,
                 budget>>

\* restore_checkpoint: refused for another scene.
RestoreCheckpoint(i) ==
  /\ at = "mcp" /\ cps[i].same
  /\ \E r \in LoadsOf(cps[i].live) : Take(r, cps[i].proj) /\ cps' = Points(r)
  /\ sound' = FALSE
  /\ UNCHANGED <<bench, finished, loads, session, files, disk, at, back, exit>>

\* start_benchmark; when its resources fail, only the flag stays set.
StartBenchmark(failed) ==
  /\ at = "mcp" /\ bench = {}
  /\ failed => MayFail
  /\ bench' = IF failed THEN {} ELSE {Checkpoint}
  /\ finished' = failed
  /\ budget' = Faulty(failed)
  /\ UNCHANGED <<live, proj, cps, loads, session, files, disk, at, back, history>>

\* FinalizeBenchmarkRun, in the frame of its last sample.
BenchmarkFinishes ==
  /\ at = "mcp" /\ bench # {} /\ finished' = TRUE
  /\ UNCHANGED <<live, proj, cps, bench, loads, session, files, disk, at, back, history,
                 budget>>

\* ProcessMcpBenchmark of a cancelled benchmark: its checkpoint is loaded,
\* whatever the scene is now.
EndBenchmark ==
  /\ bench' = {} /\ finished' = TRUE /\ sound' = FALSE
  /\ \E b \in bench : \E r \in LoadsOf(b.live) : Take(r, b.proj) /\ cps' = Points(r)

CancelBenchmark ==
  /\ at = "mcp" /\ at' = "loop" /\ EndBenchmark
  /\ UNCHANGED <<loads, session, files, disk, back, exit>>

\* StopMcpServer: a benchmark ends first.
StopMcpServer ==
  /\ at = "commands" /\ at' = "stopping"
  /\ IF bench # {} THEN EndBenchmark ELSE UNCHANGED <<content, sound, budget>>
  /\ UNCHANGED <<loads, session, files, disk, back, exit>>

\* Then the last checkpoint is restored if it is of this scene, and all are
\* forgotten.
StopRestores ==
  /\ at = "stopping" /\ at' = "commands" /\ cps' = <<>>
  /\ IF cps # <<>> /\ cps[Len(cps)].same
       THEN /\ \E r \in LoadsOf(cps[Len(cps)].live) : Take(r, cps[Len(cps)].proj)
            /\ sound' = FALSE
       ELSE UNCHANGED <<live, proj, sound, budget>>
  /\ UNCHANGED <<bench, finished, loads, session, files, disk, back, exit>>

FrameEnds ==
  /\ at = "mcp" /\ at' = "loop"
  /\ UNCHANGED <<content, loads, session, files, disk, back, history, budget>>

---------------------------------------------------------------------------
\* What the user and the tools ask for.
Commands ==
  \/ \E b \in BOOLEAN :
       \/ DisableRestore(b) \/ NewScene(b) \/ NewSceneFails(b) \/ StartBenchmark(b) \/ Edit(b)
       \/ \E p \in Paths : SaveProject(p, b) \/ ToolSavesProject(p, b)
  \/ EnableRestore \/ CancelLoad \/ CreateCheckpoint \/ CancelBenchmark \/ StopMcpServer
  \/ \E n \in Scenes : AskScene(n) \/ ToolSetsScene(n)
  \/ \E p \in Paths : AskProject(p) \/ ToolLoadsProject(p)
  \/ \E i \in DOMAIN cps : DeleteCheckpoint(i) \/ RestoreCheckpoint(i)

Steps ==
  \/ \E b \in BOOLEAN :
       \/ Launch(b) \/ IsolatePending(b) \/ PrepareRestore(b) \/ EndRestore(b) \/ Loop(b)
       \/ SaveSnapshot(TRUE, b) \/ SaveSettings(b) \/ Import(b) \/ PollCommit(b)
  \/ TryRestore \/ SaveSessionOnExit \/ SaveSnapshot(FALSE, FALSE)
  \/ Update \/ PollIdle \/ PollEnded \/ PollImported \/ PendingProject \/ PendingScene
  \/ PendingDone \/ BenchmarkFinishes \/ StopRestores \/ FrameEnds \/ Crash

ProjectNext ==
  \/ commands > 0 /\ commands' = commands - 1 /\ Commands
  \/ Steps /\ UNCHANGED commands

ProjectSpec == ProjectInit /\ [][ProjectNext]_projectVars

---------------------------------------------------------------------------
\* Properties

\* A session whose restore was refused or cut short by a crash is not tried
\* again at a later launch (TryRestorePreviousSession renames it first).
RestoreNotRetried == \A s \in disk.snapshot \union disk.pending : s.tries <= 1

\* A restored session is the state one save wrote down, under the project of
\* that save unless a crash or a failure came between the snapshot and its
\* settings; and it is never older than a clean exit that failed to save.
RestoreIsTrue ==
  at = "restored" =>
    /\ exit # "isolated"
    /\ \A s \in disk.pending : live = s.live /\ (s.whole => proj = s.proj)

\* A project shown as saved is what its file holds, whatever loads, commits,
\* failures and new scenes came before.
CleanMeansSaved ==
  sound /\ ~proj.dirty /\ proj.path # NoPath => files[proj.path] = {live}

\* A checkpoint whose fingerprint is the scene's puts back exactly the scene,
\* the settings, the project and the dirty flag it was made of, unless its load
\* fails.
CheckpointIsExact ==
  [][\A i \in DOMAIN cps :
       RestoreCheckpoint(i) => budget' # budget
                               \/ (live' = cps[i].live /\ proj' = cps[i].proj)]_projectVars

\* No load is lost, and none is committed once a newer one was handed to the
\* loader.
LatestLoadWins ==
  /\ [](\A n \in Scenes : answer[n] = "open" =>
          n \in {asked.scene, load.queued} \/ (n = load.scene /\ load.stage # "none"))
  /\ [][\A n \in Scenes : answer'[n] = "committed" /\ answer[n] # "committed" =>
          \A m \in n + 1 .. MaxLoads :
            m = asked.scene \/ answer[m] \in {"none", "replaced"}]_projectVars

\* A launch restores what a session saved, and tries it once.
RestoresAreTrue == RestoreNotRetried /\ RestoreIsTrue
===========================================================================
