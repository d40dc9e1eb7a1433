----------------------------- MODULE FrameProofs -----------------------------
\* Safety of FrameHistory for any number of frame contexts, samples and events:
\* what the GPU holds of the frames in flight, and that a frame's passes find
\* the resources made for them.
EXTENDS FrameHistory, SequenceTheorems, TLAPS

\* Frames in flight hold their outputs and the scene, no two of them have the
\* same context, and the one that is about to be recorded has one to itself.
FlightInv ==
  /\ \A i \in DOMAIN inFlight : {"outputs", "scene"} \subseteq inFlight[i].has
  /\ \A i, j \in DOMAIN inFlight : i # j => inFlight[i].context # inFlight[j].context
  /\ phase = "render" => ContextIsFree

\* Unless all resources are about to be made anew, there is one for every pass
\* the settings may run; and from the tools on there is at least what the rays
\* write.
Basic(s) == IF Reference(s) THEN {"reference"} ELSE {"guides"}

OutputsInv ==
  /\ refresh # "full" => OutputsFor(settings, nrd.ready) \subseteq outputs
  /\ phase \in {"tools", "frame", "render"} => Basic(settings) \subseteq outputs
  /\ PassesFindTheirs

\* What the rays mix, and the reference image, is current; so is what the
\* denoiser, NRD and TAA mix, and NRD's own history belongs to the frame before.
RaysFresh(h, old) ==
  /\ "surface" \in h.valid => "surface" \notin old
  /\ "lighting" \in h.valid => "lighting" \notin old
  /\ h.samples > 0 /\ ~h.restart => "reference" \notin old

PassesFresh(h, n, s, seen, old) ==
  /\ "denoiser" \in h.valid => "denoiser" \notin old
  /\ "taa" \in h.valid => "taa" \notin old
  /\ n.ready /\ ~n.restart =>
       RunsNrd(s, n.ready) /\ "nrd" \notin old /\ "surface" \in h.valid
  /\ s.view # seen => "denoiser" \notin h.valid /\ "taa" \notin h.valid /\ n.restart

\* A frame that was built marks as valid what its passes are going to write.
Promised(h, n, s) ==
  /\ h.valid \intersect Realtime
       = Produces(s, RunsNrd(s, n.ready) \/ RunsInternal(s, n.ready))
  /\ refresh # "full" /\ n.ready /\ ~n.restart => RunsNrd(s, n.ready)
  /\ s.view = seenView

HistoryInv ==
  /\ phase # "render" /\ (refresh # "full" \/ phase \in {"tools", "frame"}) =>
       RaysFresh(history, stale)
  /\ phase # "render" /\ refresh # "full" =>
       PassesFresh(history, nrd, settings, seenView, stale)
  /\ phase = "render" =>
       Promised(history, nrd, settings) /\ frame.blends \intersect stale = {}
  /\ HistoryIsCurrent

Inv == TypeOK /\ FlightInv /\ OutputsInv /\ HistoryInv
-----------------------------------------------------------------------------
(* Changes, domains and records.                                           *)

Changes == {"CameraMotion", "CameraCut", "Resolution", "Geometry", "ManualReset", "Material",
            "Light", "Hdri", "Backend", "QualityProfile", "DenoiserSettings", "View"}
Rays == {"surface", "lighting", "reference"}

\* A change invalidates every domain it outdates; all but a motion reset the
\* denoiser.
LEMMA DomainFacts ==
  ASSUME NEW c \in Changes
  PROVE  /\ DomainsFor(c) \subseteq Domains
         /\ Outdated({c}) \intersect Domains \subseteq DomainsFor(c)
         /\ c # "CameraMotion" => {"denoiser", "taa"} \subseteq DomainsFor(c)
         /\ c = "CameraMotion" => Outdated({c}) \subseteq {"reference"}
  <1>1. DomainsFor(c) \subseteq Domains BY DEF Changes, DomainsFor, Domains, Realtime
  <1>2. Outdated({c}) \intersect Domains \subseteq DomainsFor(c)
    BY DEF Changes, DomainsFor, Domains, Realtime, Outdated, Inputs
  <1>3. c # "CameraMotion" => {"denoiser", "taa"} \subseteq DomainsFor(c)
    BY DEF Changes, DomainsFor, Domains, Realtime
  <1>4. c = "CameraMotion" => Outdated({c}) \subseteq {"reference"}
    BY DEF Domains, Realtime, Outdated, Inputs
  <1> QED BY <1>1, <1>2, <1>3, <1>4

LEMMA OutdatedIsDomain == \A changes : Outdated(changes) \subseteq Domains \union {"nrd"}
  BY DEF Outdated

LEMMA InvalidatedFacts ==
  ASSUME NEW h \in HistoryStates, NEW D
  PROVE  /\ Invalidated(h, D) \in HistoryStates
         /\ Invalidated(h, D).valid = h.valid \ D
         /\ "reference" \in D => Invalidated(h, D).samples = 0
         /\ "reference" \notin D => /\ Invalidated(h, D).samples = h.samples
                                    /\ Invalidated(h, D).restart = h.restart
  BY FrameAssumption DEF Invalidated, HistoryStates

LEMMA RestartedFacts ==
  ASSUME NEW n \in NrdStates, NEW D
  PROVE  /\ Restarted(n, D) \in NrdStates
         /\ Restarted(n, D).ready = n.ready
         /\ "denoiser" \in D => Restarted(n, D).restart
         /\ n.restart => Restarted(n, D).restart
  BY Zenon DEF Restarted, NrdStates

-----------------------------------------------------------------------------
(* What keeps the histories current.                                       *)

\* Whatever is reset with the denoiser is not mixed.
LEMMA ResetPasses ==
  ASSUME NEW h \in HistoryStates, NEW n \in NrdStates, NEW D, {"denoiser", "taa"} \subseteq D,
         NEW s, NEW seen, NEW old
  PROVE  PassesFresh(Invalidated(h, D), Restarted(n, D), s, seen, old)
  BY InvalidatedFacts, RestartedFacts DEF PassesFresh

\* The rays' histories stay current when what gets outdated is invalidated.
LEMMA InvalidatedRays ==
  ASSUME NEW h \in HistoryStates, NEW D, NEW old, NEW new,
         RaysFresh(h, old), new \intersect Rays \subseteq old \union D
  PROVE  RaysFresh(Invalidated(h, D), new)
  <1>1. Invalidated(h, D).valid = h.valid \ D BY InvalidatedFacts
  <1>2. CASE "reference" \in D
    BY <1>1, <1>2, InvalidatedFacts DEF RaysFresh, Rays
  <1>3. CASE "reference" \notin D
    BY <1>1, <1>3, InvalidatedFacts DEF RaysFresh, Rays
  <1> QED BY <1>2, <1>3

\* Nothing is left when everything is invalidated and NRD starts again.
LEMMA AllReset ==
  ASSUME NEW h \in HistoryStates, NEW n, n.restart, NEW s, NEW seen, NEW old
  PROVE  /\ RaysFresh(Invalidated(h, Domains), old)
         /\ PassesFresh(Invalidated(h, Domains), n, s, seen, old)
  BY InvalidatedFacts DEF RaysFresh, PassesFresh, Domains, Realtime

\* A change that is described keeps every history current.
LEMMA ChangedFresh ==
  ASSUME TypeOK, NEW c \in Changes, Changed(c)
  PROVE  /\ history' \in HistoryStates /\ nrd' \in NrdStates
         /\ stale' \subseteq Domains \union {"nrd"} /\ unsaid' = unsaid
         /\ nrd'.ready = nrd.ready
         /\ RaysFresh(history, stale) => RaysFresh(history', stale')
         /\ c # "CameraMotion" =>
              \A s, seen : PassesFresh(history', nrd', s, seen, stale')
         /\ \A s, seen : PassesFresh(history, nrd, s, seen, stale) =>
                         PassesFresh(history', nrd', s, seen, stale')
  <1>1. history \in HistoryStates /\ nrd \in NrdStates /\ stale \subseteq Domains \union {"nrd"}
    BY DEF TypeOK
  <1>2. /\ history' = Invalidated(history, DomainsFor(c))
        /\ nrd' = Restarted(nrd, DomainsFor(c))
        /\ stale' = stale \union Outdated({c}) /\ unsaid' = unsaid
    BY DEF Changed
  <1>3. /\ history' \in HistoryStates /\ nrd' \in NrdStates /\ nrd'.ready = nrd.ready
        /\ stale' \subseteq Domains \union {"nrd"}
    BY <1>1, <1>2, InvalidatedFacts, RestartedFacts, OutdatedIsDomain
  <1>4. RaysFresh(history, stale) => RaysFresh(history', stale')
    <2>1. Rays \subseteq Domains BY DEF Rays, Domains, Realtime
    <2>2. stale' \intersect Rays \subseteq stale \union DomainsFor(c)
      BY <1>2, <2>1, DomainFacts
    <2> QED BY <1>1, <1>2, <2>2, InvalidatedRays
  <1>5. c # "CameraMotion" => \A s, seen : PassesFresh(history', nrd', s, seen, stale')
    BY <1>1, <1>2, DomainFacts, ResetPasses
  <1>6. ASSUME c = "CameraMotion", NEW s, NEW seen, PassesFresh(history, nrd, s, seen, stale)
        PROVE  PassesFresh(history', nrd', s, seen, stale')
    <2>1. DomainsFor(c) = {"reference"} BY <1>6 DEF DomainsFor
    <2>2. nrd' = nrd BY <1>1, <1>2, <2>1 DEF Restarted, NrdStates
    <2>3. history'.valid = history.valid \ {"reference"} BY <1>1, <1>2, <2>1, InvalidatedFacts
    <2>4. stale' \subseteq stale \union {"reference"} BY <1>2, <1>6, DomainFacts
    <2> QED BY <1>6, <2>2, <2>3, <2>4 DEF PassesFresh
  <1> QED BY <1>2, <1>3, <1>4, <1>5, <1>6

-----------------------------------------------------------------------------
(* Resources.                                                              *)

LEMMA OutputsAreResources == \A s, r : OutputsFor(s, r) \subseteq Resources
  BY DEF OutputsFor, Resources

LEMMA BasicIsMade == \A s, r : Basic(s) \subseteq OutputsFor(s, r)
  BY DEF OutputsFor, Basic

\* The passes of complete settings use what is made for them.
LEMMA NeedsAreMade ==
  ASSUME NEW s \in SettingStates, NEW r \in BOOLEAN
  PROVE  Needs(s, r, TRUE) \subseteq OutputsFor(s, r)
  BY DEF Needs, OutputsFor, SettingStates, RunsTaa, RunsNrd, RunsInternal, Requested, Nrd

LEMMA BasicNeeds == \A s, r : Needs(s, r, FALSE) \subseteq Basic(s)
  BY DEF Needs, Basic

\* Settings that select the same passes need no more than what there is.
LEMMA SameOutputs ==
  ASSUME NEW s \in SettingStates, NEW t \in SettingStates, NEW r \in BOOLEAN,
         s.profile = t.profile, s.backend = t.backend, s.taa = t.taa,
         \/ t.backend \notin Nrd
         \/ (s.view = "beauty") = (t.view = "beauty") /\ (s.enabled => t.enabled)
  PROVE  OutputsFor(t, r) \subseteq OutputsFor(s, r)
  BY DEF OutputsFor, Fuses, RunsTaa, Reference, SettingStates

-----------------------------------------------------------------------------
(* Frames in flight.                                                       *)

LEMMA LosingNothing == \A what : Losing(Waited(inFlight), what) = << >>
  <1>1. ASSUME NEW what PROVE Losing(<< >>, what) = << >>
    <2>1. /\ Losing(<< >>, what) \in Seq({})
          /\ Len(Losing(<< >>, what)) = 0
      BY DEF Losing
    <2> QED BY <2>1, EmptySeq
  <1> QED BY <1>1 DEF Waited

LEMMA FlightSame ==
  ASSUME FlightInv, UNCHANGED <<inFlight, context>>, phase' = "render" => phase = "render"
  PROVE  FlightInv'
  BY DEF FlightInv, ContextIsFree

LEMMA FlightEmpty ==
  ASSUME inFlight' = << >>
  PROVE  FlightInv' /\ inFlight' \in Seq(FlightFrames)
  BY EmptySeq DEF FlightInv, ContextIsFree

\* Losing NRD's instance leaves outputs and scene.
LEMMA FlightLosesNrd ==
  ASSUME TypeOK, FlightInv, inFlight' = Losing(inFlight, {"nrd"}), UNCHANGED <<context, phase>>
  PROVE  FlightInv' /\ inFlight' \in Seq(FlightFrames)
  <1>1. inFlight \in Seq(FlightFrames) BY DEF TypeOK
  <1>2. DOMAIN inFlight = 1 .. Len(inFlight) /\ Len(inFlight) \in Nat BY <1>1, LenProperties
  <1>3. \A i \in DOMAIN inFlight : inFlight[i] \in FlightFrames BY <1>1, <1>2, ElementOfSeq
  <1>4. \A i \in DOMAIN inFlight :
          /\ [inFlight[i] EXCEPT !.has = @ \ {"nrd"}] \in FlightFrames
          /\ [inFlight[i] EXCEPT !.has = @ \ {"nrd"}].context = inFlight[i].context
          /\ [inFlight[i] EXCEPT !.has = @ \ {"nrd"}].has = inFlight[i].has \ {"nrd"}
    BY <1>3 DEF FlightFrames
  <1>5. inFlight' = [i \in 1 .. Len(inFlight) |-> [inFlight[i] EXCEPT !.has = @ \ {"nrd"}]]
    BY <1>2 DEF Losing
  <1>6. inFlight' \in Seq(FlightFrames) BY <1>2, <1>4, <1>5, IsASeq
  <1>7. DOMAIN inFlight' = DOMAIN inFlight BY <1>2, <1>5
  <1>8. \A i \in DOMAIN inFlight :
          inFlight'[i].context = inFlight[i].context /\ inFlight'[i].has = inFlight[i].has \ {"nrd"}
    BY <1>2, <1>4, <1>5
  <1> QED BY <1>6, <1>7, <1>8 DEF FlightInv, ContextIsFree

-----------------------------------------------------------------------------
(* What the actions between two frames have in common.                     *)

\* A step keeps what is said of outputs and histories when the settings it leaves
\* have their resources and the histories it leaves are current.
LEMMA Between ==
  ASSUME Inv, phase' # "render", frame' = frame \/ frame' = NoFrame,
         refresh' # "full" \/ phase' \in {"tools", "frame"} => RaysFresh(history', stale'),
         refresh' # "full" =>
           /\ PassesFresh(history', nrd', settings', seenView', stale')
           /\ OutputsFor(settings', nrd'.ready) \subseteq outputs',
         phase' \in {"tools", "frame"} => Basic(settings') \subseteq outputs'
  PROVE  OutputsInv' /\ HistoryInv'
  <1>1. OutputsInv'
    BY DEF Inv, OutputsInv, PassesFindTheirs, NoFrame
  <1>2. HistoryInv'
    BY DEF Inv, HistoryInv, HistoryIsCurrent, NoFrame
  <1> QED BY <1>1, <1>2

\* All resources are made anew for settings s.
LEMMA Created ==
  ASSUME TypeOK, NEW s \in SettingStates, NEW r \in BOOLEAN, CreateAll(s, r)
  PROVE  /\ inFlight' = << >>
         /\ outputs' = OutputsFor(s, r) /\ outputs' \subseteq Resources
         /\ Basic(s) \subseteq outputs'
         /\ history' \in HistoryStates /\ nrd' \in NrdStates /\ nrd'.ready = r
         /\ \A old : RaysFresh(history', old)
         /\ \A t, seen, old : PassesFresh(history', nrd', t, seen, old)
  <1>1. history \in HistoryStates BY DEF TypeOK
  <1>2. inFlight' = << >> BY LosingNothing DEF CreateAll
  <1>3. /\ outputs' = OutputsFor(s, r) /\ outputs' \subseteq Resources
        /\ Basic(s) \subseteq outputs'
    BY OutputsAreResources, BasicIsMade DEF CreateAll
  <1>4. history' = Invalidated(history, Domains) /\ nrd' = [ready |-> r, restart |-> TRUE]
    BY DEF CreateAll
  <1>5. nrd' \in NrdStates /\ nrd'.ready = r /\ nrd'.restart BY <1>4 DEF NrdStates
  <1>6. history' \in HistoryStates BY <1>1, <1>4, InvalidatedFacts
  <1> QED BY <1>1, <1>2, <1>3, <1>4, <1>5, <1>6, AllReset

LEMMA InitInv == Init => Inv
  <1> SUFFICES ASSUME Init PROVE Inv OBVIOUS
  <1>1. settings \in SettingStates /\ nrd \in NrdStates
    BY DEF Init, SettingStates, NrdStates, Backends, Nrd, Views
  <1>2. history \in HistoryStates
    BY FrameAssumption DEF Init, HistoryStates
  <1>3. frame \in FrameStates BY DEF Init, FrameStates, NoFrame
  <1>4. inFlight \in Seq(FlightFrames) /\ DOMAIN inFlight = {}
    BY EmptySeq DEF Init
  <1>5. outputs \subseteq Resources BY OutputsAreResources DEF Init
  <1>6. TypeOK
    <2>1. context \in 0 .. Contexts - 1 /\ events \in 0 .. MaxEvents
      BY FrameAssumption DEF Init
    <2>2. /\ phase \in {"commands", "loads", "tools", "frame", "render"}
          /\ resize \in BOOLEAN /\ refresh \in {"none", "data", "full"}
          /\ preserve \in BOOLEAN /\ seenView \in Views \union {"none"}
          /\ stale \subseteq Domains \union {"nrd"} /\ unsaid \subseteq Domains \union {"nrd"}
      BY DEF Init
    <2> QED BY <1>1, <1>2, <1>3, <1>4, <1>5, <2>1, <2>2 DEF TypeOK
  <1>7. FlightInv BY <1>4 DEF Init, FlightInv
  <1>8. OutputsInv BY DEF Init, OutputsInv, PassesFindTheirs, NoFrame
  <1>9. HistoryInv
    BY DEF Init, HistoryInv, RaysFresh, PassesFresh, HistoryIsCurrent, NoFrame
  <1> QED BY <1>6, <1>7, <1>8, <1>9 DEF Inv

-----------------------------------------------------------------------------
(* Commands.                                                               *)

\* NRD's instance for other settings
LEMMA NrdForFacts ==
  ASSUME TypeOK, NEW s
  PROVE  NrdFor(s) \in NrdStates /\ UnsaidFor(s) \subseteq Domains \union {"nrd"}
  <1>1. NrdFor(s) \in NrdStates BY Zenon DEF TypeOK, NrdFor, NrdStates
  <1>2. UnsaidFor(s) \subseteq Domains \union {"nrd"} BY DEF TypeOK, UnsaidFor
  <1> QED BY <1>1, <1>2

\* A command that asks for all resources leaves the rest to the refresh.
LEMMA CommandAsksAll ==
  ASSUME Inv, phase = "commands", phase' = "commands", UNCHANGED frame, refresh' = "full"
  PROVE  OutputsInv' /\ HistoryInv'
  BY Between

LEMMA StrongerFacts ==
  ASSUME NEW a \in {"none", "data", "full"}, NEW b \in {"none", "data", "full"}
  PROVE  /\ Stronger(a, b) \in {"none", "data", "full"}
         /\ Stronger(a, b) # "full" => a # "full"
  BY DEF Stronger

LEMMA EditContentStep ==
  ASSUME Inv, NEW e \in EditorEdits, EditContent(e)
  PROVE  Inv'
  <1>1. TypeOK /\ FlightInv /\ OutputsInv /\ HistoryInv BY DEF Inv
  <1>2. /\ e.change \in Changes
        /\ e.change # "CameraMotion" /\ e.refresh \in {"none", "data", "full"}
    BY DEF EditorEdits, MaterialEdits, LightEdits, BackendEdits, SizeEdits, ViewEdits,
           DenoiserEdits, CameraEdits, ResetEdits, Changes
  <1>3. /\ phase = "commands" /\ events > 0 /\ events' = events - 1
        /\ Changed(e.change) /\ refresh' = Stronger(refresh, e.refresh)
        /\ UNCHANGED <<phase, resize, settings, preserve, seenView, outputs, context, inFlight,
                       frame>>
    BY DEF EditContent, Commanded, Event
  <1>4. /\ refresh' \in {"none", "data", "full"} /\ (refresh' # "full" => refresh # "full")
    BY <1>1, <1>2, <1>3, StrongerFacts DEF TypeOK
  <1>5. /\ history' \in HistoryStates /\ nrd' \in NrdStates
        /\ stale' \subseteq Domains \union {"nrd"} /\ unsaid' = unsaid
        /\ nrd'.ready = nrd.ready
        /\ RaysFresh(history, stale) => RaysFresh(history', stale')
        /\ \A s, seen : PassesFresh(history', nrd', s, seen, stale')
    BY <1>1, <1>2, <1>3, ChangedFresh
  <1>6. TypeOK' BY <1>1, <1>3, <1>4, <1>5, FrameAssumption DEF TypeOK
  <1>7. FlightInv' BY <1>1, <1>3, FlightSame
  <1>8. refresh' # "full" =>
          /\ RaysFresh(history', stale')
          /\ PassesFresh(history', nrd', settings', seenView', stale')
          /\ OutputsFor(settings', nrd'.ready) \subseteq outputs'
    BY <1>1, <1>3, <1>4, <1>5 DEF HistoryInv, OutputsInv
  <1>9. OutputsInv' /\ HistoryInv' BY <1>3, <1>8, Between
  <1> QED BY <1>6, <1>7, <1>9 DEF Inv

LEMMA EditSettingsStep ==
  ASSUME Inv, NEW s \in SettingStates, NEW c \in {"DenoiserSettings", "View"},
         NEW all \in BOOLEAN, EditSettings(s, c, all),
         ~all => OutputsFor(s, nrd.ready) \subseteq OutputsFor(settings, nrd.ready)
  PROVE  Inv'
  <1>1. TypeOK /\ FlightInv /\ OutputsInv /\ HistoryInv BY DEF Inv
  <1>2. c \in Changes /\ c # "CameraMotion" BY DEF Changes
  <1>3. /\ phase = "commands" /\ events > 0 /\ events' = events - 1 /\ settings' = s
        /\ Changed(c) /\ refresh' = IF all THEN "full" ELSE refresh
        /\ UNCHANGED <<phase, resize, preserve, seenView, outputs, context, inFlight, frame>>
    BY DEF EditSettings, Commanded, Event
  <1>4. /\ refresh' \in {"none", "data", "full"}
        /\ (refresh' # "full" => refresh # "full" /\ ~all)
    BY <1>1, <1>3 DEF TypeOK
  <1>5. /\ history' \in HistoryStates /\ nrd' \in NrdStates
        /\ stale' \subseteq Domains \union {"nrd"} /\ unsaid' = unsaid
        /\ nrd'.ready = nrd.ready
        /\ RaysFresh(history, stale) => RaysFresh(history', stale')
        /\ \A t, seen : PassesFresh(history', nrd', t, seen, stale')
    BY <1>1, <1>2, <1>3, ChangedFresh
  <1>6. TypeOK' BY <1>1, <1>3, <1>4, <1>5, FrameAssumption DEF TypeOK
  <1>7. FlightInv' BY <1>1, <1>3, FlightSame
  <1>8. refresh' # "full" =>
          /\ RaysFresh(history', stale')
          /\ PassesFresh(history', nrd', settings', seenView', stale')
          /\ OutputsFor(settings', nrd'.ready) \subseteq outputs'
    BY <1>1, <1>3, <1>4, <1>5 DEF HistoryInv, OutputsInv
  <1>9. OutputsInv' /\ HistoryInv' BY <1>3, <1>8, Between
  <1> QED BY <1>6, <1>7, <1>9 DEF Inv

LEMMA SettingsSteps ==
  ASSUME NEW s \in SettingStates
  PROVE  /\ [s EXCEPT !.enabled = ~@] \in SettingStates
         /\ [s EXCEPT !.enabled = TRUE] \in SettingStates
         /\ [s EXCEPT !.taa = ~@] \in SettingStates
         /\ [s EXCEPT !.frozen = ~@] \in SettingStates
         /\ \A v \in Views : [s EXCEPT !.view = v] \in SettingStates
         /\ \A b \in Backends : [s EXCEPT !.backend = b] \in SettingStates
         /\ \A p \in {"game", "reference"} : Applied(s, p) \in SettingStates
         /\ \A b \in Backends, e \in BOOLEAN :
              [s EXCEPT !.backend = b, !.enabled = e] \in SettingStates
         /\ \A p \in {"game", "reference"}, t \in BOOLEAN :
              [Applied(s, p) EXCEPT !.taa = t] \in SettingStates
         /\ \A p \in {"game", "reference"}, v \in Views :
              [Applied(s, p) EXCEPT !.view = v] \in SettingStates
  <1>1. \A v \in Views : [s EXCEPT !.view = v] \in SettingStates BY DEF SettingStates
  <1>2. \A b \in Backends : [s EXCEPT !.backend = b] \in SettingStates BY DEF SettingStates
  <1>3. /\ [s EXCEPT !.enabled = ~@] \in SettingStates
        /\ [s EXCEPT !.enabled = TRUE] \in SettingStates
        /\ [s EXCEPT !.taa = ~@] \in SettingStates
        /\ [s EXCEPT !.frozen = ~@] \in SettingStates
    BY DEF SettingStates
  <1>4. \A p \in {"game", "reference"} : Applied(s, p) \in SettingStates
    BY DEF SettingStates, Applied, Backends, Nrd
  <1>5. \A b \in Backends, e \in BOOLEAN :
          [s EXCEPT !.backend = b, !.enabled = e] \in SettingStates
    BY DEF SettingStates
  <1>6. \A p \in {"game", "reference"}, t \in BOOLEAN :
          [Applied(s, p) EXCEPT !.taa = t] \in SettingStates
    BY <1>4 DEF SettingStates
  <1>7. \A p \in {"game", "reference"}, v \in Views :
          [Applied(s, p) EXCEPT !.view = v] \in SettingStates
    BY <1>4 DEF SettingStates
  <1> QED BY <1>1, <1>2, <1>3, <1>4, <1>5, <1>6, <1>7

\* What only NRD fuses or unfuses is the same for every other denoiser.
LEMMA EditEnabledOutputs ==
  ASSUME NEW s \in SettingStates, s.backend \notin Nrd, NEW r \in BOOLEAN
  PROVE  /\ OutputsFor([s EXCEPT !.enabled = ~@], r) \subseteq OutputsFor(s, r)
         /\ \A v \in Views : OutputsFor([s EXCEPT !.view = v], r) \subseteq OutputsFor(s, r)
  <1>1. /\ [s EXCEPT !.enabled = ~@].profile = s.profile
        /\ [s EXCEPT !.enabled = ~@].backend = s.backend
        /\ [s EXCEPT !.enabled = ~@].taa = s.taa
    BY DEF SettingStates
  <1>2. ASSUME NEW v \in Views
        PROVE /\ [s EXCEPT !.view = v].profile = s.profile
              /\ [s EXCEPT !.view = v].backend = s.backend
              /\ [s EXCEPT !.view = v].taa = s.taa
    BY DEF SettingStates
  <1>3. OutputsFor([s EXCEPT !.enabled = ~@], r) \subseteq OutputsFor(s, r)
    BY <1>1, SettingsSteps, SameOutputs
  <1>4. ASSUME NEW v \in Views
        PROVE  OutputsFor([s EXCEPT !.view = v], r) \subseteq OutputsFor(s, r)
    BY <1>2, SettingsSteps, SameOutputs
  <1> QED BY <1>3, <1>4

LEMMA EditDenoiserStep ==
  ASSUME Inv,
         \/ EditEnabled \/ EditTaa \/ \E v \in Views : EditView(v)
  PROVE  Inv'
  <1>1. settings \in SettingStates /\ nrd.ready \in BOOLEAN BY DEF Inv, TypeOK, NrdStates
  <1> DEFINE all == settings.backend \in Nrd
  <1>2. all \in BOOLEAN OBVIOUS
  <1>3. CASE EditEnabled
    <2> DEFINE s == [settings EXCEPT !.enabled = ~@]
    <2>1. s \in SettingStates BY <1>1, SettingsSteps
    <2>2. ~all => OutputsFor(s, nrd.ready) \subseteq OutputsFor(settings, nrd.ready)
      BY <1>1, EditEnabledOutputs
    <2>3. EditSettings(s, "DenoiserSettings", all) BY <1>3 DEF EditEnabled
    <2> HIDE DEF s, all
    <2> QED BY <1>2, <2>1, <2>2, <2>3, EditSettingsStep
  <1>4. CASE EditTaa
    BY <1>1, <1>4, SettingsSteps, EditSettingsStep DEF EditTaa
  <1>5. ASSUME NEW v \in Views, EditView(v) PROVE Inv'
    <2> DEFINE s == [settings EXCEPT !.view = v]
    <2>1. s \in SettingStates BY <1>1, SettingsSteps
    <2>2. ~all => OutputsFor(s, nrd.ready) \subseteq OutputsFor(settings, nrd.ready)
      BY <1>1, EditEnabledOutputs
    <2>3. EditSettings(s, "View", all) BY <1>5 DEF EditView
    <2> HIDE DEF s, all
    <2> QED BY <1>2, <2>1, <2>2, <2>3, EditSettingsStep
  <1> QED BY <1>3, <1>4, <1>5

\* What a silent change outdates is a domain.
LEMMA AgesFacts ==
  ASSUME TypeOK, NEW changes, NEW said, Ages(changes, said)
  PROVE  stale' \subseteq Domains \union {"nrd"} /\ unsaid' \subseteq Domains \union {"nrd"}
  BY OutdatedIsDomain DEF TypeOK, Ages

\* Settings that run NRD where the old ones do, and need no more
LEMMA EditQuietlyStep ==
  ASSUME Inv, NEW s \in SettingStates, NEW changes, NEW noticed \in BOOLEAN,
         EditQuietly(s, changes, noticed), s.view = settings.view,
         OutputsFor(s, nrd.ready) \subseteq OutputsFor(settings, nrd.ready),
         RunsNrd(settings, nrd.ready) => RunsNrd(s, nrd.ready)
  PROVE  Inv'
  <1>1. TypeOK /\ FlightInv /\ OutputsInv /\ HistoryInv BY DEF Inv
  <1>2. /\ phase = "commands" /\ events > 0 /\ events' = events - 1 /\ settings' = s
        /\ history' = [history EXCEPT !.restart = @ \/ noticed]
        /\ Ages(changes, IF noticed THEN {"reference"} ELSE {})
        /\ UNCHANGED <<phase, resize, refresh, nrd, preserve, seenView, outputs, context,
                       inFlight, frame>>
    BY DEF EditQuietly, Commanded, Event
  <1>3. history \in HistoryStates BY <1>1 DEF TypeOK
  <1>4. /\ history' \in HistoryStates
        /\ history'.valid = history.valid /\ history'.samples = history.samples
        /\ history'.restart = (history.restart \/ noticed)
    BY <1>2, <1>3, Zenon DEF HistoryStates
  <1>5. /\ stale' \subseteq Domains \union {"nrd"} /\ unsaid' \subseteq Domains \union {"nrd"}
    BY <1>1, <1>2, AgesFacts
  <1>6. /\ stale' \subseteq stale \union {"reference"}
        /\ ~noticed => stale' \subseteq stale
    BY <1>2 DEF Ages
  <1>7. TypeOK' BY <1>1, <1>2, <1>4, <1>5, FrameAssumption DEF TypeOK
  <1>8. FlightInv' BY <1>1, <1>2, FlightSame
  <1>9. PassesFresh(history, nrd, settings, seenView, stale) =>
          PassesFresh(history', nrd', settings', seenView', stale')
    BY <1>2, <1>4, <1>6 DEF PassesFresh
  <1>10. RaysFresh(history, stale) => RaysFresh(history', stale')
    BY <1>4, <1>6 DEF RaysFresh
  <1>11. refresh' # "full" =>
          /\ RaysFresh(history', stale')
          /\ PassesFresh(history', nrd', settings', seenView', stale')
          /\ OutputsFor(settings', nrd'.ready) \subseteq outputs'
    BY <1>1, <1>2, <1>9, <1>10 DEF HistoryInv, OutputsInv
  <1>12. OutputsInv' /\ HistoryInv' BY <1>2, <1>11, Between
  <1> QED BY <1>7, <1>8, <1>12 DEF Inv

LEMMA EditQuietSteps ==
  ASSUME Inv, EditFrozen \/ EditSelection \/ \E noticed \in BOOLEAN : EditPreset(noticed)
  PROVE  Inv'
  <1>1. settings \in SettingStates /\ nrd.ready \in BOOLEAN BY DEF Inv, TypeOK, NrdStates
  <1>2. CASE EditFrozen
    <2> DEFINE s == [settings EXCEPT !.frozen = ~@]
    <2>1. s \in SettingStates BY <1>1, SettingsSteps
    <2>2. /\ s.profile = settings.profile /\ s.backend = settings.backend
          /\ s.taa = settings.taa /\ s.view = settings.view /\ s.enabled = settings.enabled
      BY <1>1 DEF SettingStates
    <2>3. EditQuietly(s, {}, FALSE) BY <1>2 DEF EditFrozen
    <2> HIDE DEF s
    <2>4. OutputsFor(s, nrd.ready) \subseteq OutputsFor(settings, nrd.ready)
      BY <1>1, <2>1, <2>2, SameOutputs
    <2>5. RunsNrd(settings, nrd.ready) => RunsNrd(s, nrd.ready)
      BY <2>2 DEF RunsNrd, Reference, Requested
    <2> QED BY <2>1, <2>2, <2>3, <2>4, <2>5, EditQuietlyStep
  <1>3. CASE EditSelection
    <2>1. EditQuietly(settings, {"View"}, TRUE) BY <1>3 DEF EditSelection
    <2> QED BY <1>1, <2>1, EditQuietlyStep
  <1>4. ASSUME NEW noticed \in BOOLEAN, EditPreset(noticed) PROVE Inv'
    <2> DEFINE s == [settings EXCEPT !.enabled = TRUE]
    <2>1. s \in SettingStates BY <1>1, SettingsSteps
    <2>2. /\ s.profile = settings.profile /\ s.backend = settings.backend
          /\ s.taa = settings.taa /\ s.view = settings.view /\ s.enabled
      BY <1>1 DEF SettingStates
    <2>3. EditQuietly(s, {"DenoiserSettings"}, noticed) BY <1>4 DEF EditPreset
    <2> HIDE DEF s
    <2>4. OutputsFor(s, nrd.ready) \subseteq OutputsFor(settings, nrd.ready)
      BY <1>1, <2>1, <2>2, SameOutputs
    <2>5. RunsNrd(settings, nrd.ready) => RunsNrd(s, nrd.ready)
      BY <2>2 DEF RunsNrd, Reference, Requested
    <2> QED BY <2>1, <2>2, <2>3, <2>4, <2>5, EditQuietlyStep
  <1> QED BY <1>2, <1>3, <1>4

\* Frames in flight only lose NRD's instance, or are finished.
LEMMA EditMethodFlight ==
  ASSUME Inv, phase' = phase, context' = context,
         \/ inFlight' = inFlight
         \/ inFlight' = Losing(inFlight, {"nrd"})
         \/ \E what : inFlight' = Losing(Waited(inFlight), what)
  PROVE  FlightInv' /\ inFlight' \in Seq(FlightFrames)
  <1>1. TypeOK /\ FlightInv /\ inFlight \in Seq(FlightFrames) BY DEF Inv, TypeOK
  <1>2. CASE inFlight' = inFlight BY <1>1, <1>2, FlightSame
  <1>3. CASE inFlight' = Losing(inFlight, {"nrd"}) BY <1>1, <1>3, FlightLosesNrd
  <1>4. CASE \E what : inFlight' = Losing(Waited(inFlight), what)
    BY <1>4, LosingNothing, FlightEmpty
  <1> QED BY <1>2, <1>3, <1>4

LEMMA EditBackendStep ==
  ASSUME Inv, NEW b \in Backends, EditBackend(b)
  PROVE  Inv'
  <1>1. TypeOK /\ FlightInv BY DEF Inv
  <1> DEFINE s == [settings EXCEPT !.backend = b]
             reset == DomainsFor("DenoiserSettings")
  <1>2. s \in SettingStates BY <1>1, SettingsSteps DEF TypeOK
  <1>3. NrdFor(s) \in NrdStates BY <1>1, NrdForFacts
  <1>4. /\ phase = "commands" /\ events > 0 /\ events' = events - 1 /\ settings' = s
        /\ nrd' = Restarted(NrdFor(s), reset) /\ history' = Invalidated(history, reset)
        /\ inFlight' = IF SameMethod(s) THEN inFlight ELSE Losing(inFlight, {"nrd"})
        /\ stale' = StaleFor(s, {"Backend"}) /\ unsaid' = UnsaidFor(s)
        /\ refresh' = "full"
        /\ UNCHANGED <<phase, resize, preserve, seenView, outputs, context, frame>>
    BY DEF EditBackend, Commanded, Event
  <1>5. stale' \subseteq Domains \union {"nrd"} /\ unsaid' \subseteq Domains \union {"nrd"}
    <2>1. unsaid' \subseteq Domains \union {"nrd"} BY <1>1, <1>4, NrdForFacts
    <2> QED BY <1>1, <1>4, <2>1, OutdatedIsDomain DEF TypeOK, StaleFor
  <1> HIDE DEF s, reset
  <1>6. nrd' \in NrdStates /\ history' \in HistoryStates
    BY <1>1, <1>3, <1>4, InvalidatedFacts, RestartedFacts DEF TypeOK
  <1>7. FlightInv' /\ inFlight' \in Seq(FlightFrames) BY <1>4, EditMethodFlight
  <1>8. TypeOK' BY <1>1, <1>2, <1>4, <1>5, <1>6, <1>7, FrameAssumption DEF TypeOK
  <1>9. OutputsInv' /\ HistoryInv' BY <1>4, CommandAsksAll
  <1> QED BY <1>7, <1>8, <1>9 DEF Inv

LEMMA EditProfileStep ==
  ASSUME Inv, NEW p \in {"game", "reference"}, EditProfile(p)
  PROVE  Inv'
  <1>1. TypeOK /\ FlightInv BY DEF Inv
  <1> DEFINE s == Applied(settings, p)
             reset == DomainsFor("QualityProfile")
  <1>2. s \in SettingStates BY <1>1, SettingsSteps DEF TypeOK
  <1>3. NrdFor(s) \in NrdStates BY <1>1, NrdForFacts
  <1>4. /\ phase = "commands" /\ events > 0 /\ events' = events - 1 /\ settings' = s
        /\ nrd' = Restarted(NrdFor(s), reset) /\ history' = Invalidated(history, reset)
        /\ inFlight' = Losing(Waited(inFlight), IF SameMethod(s) THEN {} ELSE {"nrd"})
        /\ stale' = StaleFor(s, {"Backend", "QualityProfile"}) /\ unsaid' = UnsaidFor(s)
        /\ refresh' = "full"
        /\ UNCHANGED <<phase, resize, preserve, seenView, outputs, context, frame>>
    BY DEF EditProfile, Commanded, Event
  <1>5. stale' \subseteq Domains \union {"nrd"} /\ unsaid' \subseteq Domains \union {"nrd"}
    <2>1. unsaid' \subseteq Domains \union {"nrd"} BY <1>1, <1>4, NrdForFacts
    <2> QED BY <1>1, <1>4, <2>1, OutdatedIsDomain DEF TypeOK, StaleFor
  <1> HIDE DEF s, reset
  <1>6. nrd' \in NrdStates /\ history' \in HistoryStates
    BY <1>1, <1>3, <1>4, InvalidatedFacts, RestartedFacts DEF TypeOK
  <1>7. FlightInv' /\ inFlight' \in Seq(FlightFrames) BY <1>4, EditMethodFlight
  <1>8. TypeOK' BY <1>1, <1>2, <1>4, <1>5, <1>6, <1>7, FrameAssumption DEF TypeOK
  <1>9. OutputsInv' /\ HistoryInv' BY <1>4, CommandAsksAll
  <1> QED BY <1>7, <1>8, <1>9 DEF Inv

LEMMA AskResizeStep ==
  ASSUME Inv, AskResize
  PROVE  Inv'
  <1>1. TypeOK /\ FlightInv /\ OutputsInv /\ HistoryInv BY DEF Inv
  <1>2. /\ phase = "commands" /\ events > 0 /\ events' = events - 1 /\ resize' = TRUE
        /\ UNCHANGED <<phase, refresh, settings, nrd, history, preserve, seenView, outputs,
                       context, inFlight, frame, stale, unsaid>>
    BY DEF AskResize, Commanded, Event
  <1>3. TypeOK' BY <1>1, <1>2, FrameAssumption DEF TypeOK
  <1>4. FlightInv' BY <1>1, <1>2, FlightSame
  <1>5. OutputsInv' /\ HistoryInv'
    BY <1>1, <1>2, Between DEF HistoryInv, OutputsInv
  <1> QED BY <1>3, <1>4, <1>5 DEF Inv

LEMMA CommandsStep ==
  ASSUME Inv, Commands
  PROVE  Inv'
  BY EditContentStep, EditDenoiserStep, EditQuietSteps, EditBackendStep, EditProfileStep,
     AskResizeStep DEF Commands

-----------------------------------------------------------------------------
(* Updates and tools.                                                      *)

\* All resources are made anew, for the settings the step leaves.
LEMMA CreatedStep ==
  ASSUME Inv, NEW s \in SettingStates, NEW r \in BOOLEAN, CreateAll(s, r), settings' = s,
         phase' # "render", frame' = frame
  PROVE  /\ FlightInv' /\ inFlight' \in Seq(FlightFrames)
         /\ outputs' \subseteq Resources /\ history' \in HistoryStates /\ nrd' \in NrdStates
         /\ OutputsInv' /\ HistoryInv'
  <1>1. TypeOK BY DEF Inv
  <1>2. /\ inFlight' = << >>
        /\ outputs' = OutputsFor(s, r) /\ outputs' \subseteq Resources
        /\ Basic(s) \subseteq outputs'
        /\ history' \in HistoryStates /\ nrd' \in NrdStates /\ nrd'.ready = r
        /\ RaysFresh(history', stale')
        /\ PassesFresh(history', nrd', settings', seenView', stale')
    BY <1>1, Created
  <1>3. FlightInv' /\ inFlight' \in Seq(FlightFrames) BY <1>2, FlightEmpty
  <1>4. OutputsInv' /\ HistoryInv' BY <1>2, Between
  <1> QED BY <1>2, <1>3, <1>4

\* Resources are kept, and the denoiser is reset.
LEMMA KeptStep ==
  ASSUME Inv, NEW s \in SettingStates, NEW reset,
         phase \in {"loads", "tools"}, phase' = phase, settings' = s,
         UNCHANGED <<refresh, frame, outputs, seenView>>,
         s.profile = settings.profile,
         OutputsFor(s, nrd.ready) \subseteq OutputsFor(settings, nrd.ready),
         {"denoiser", "taa"} \subseteq reset,
         history' = Invalidated(history, reset), nrd' = Restarted(nrd, reset),
         stale' \intersect Rays \subseteq stale \union reset
  PROVE  /\ history' \in HistoryStates /\ nrd' \in NrdStates
         /\ OutputsInv' /\ HistoryInv'
  <1>1. TypeOK /\ OutputsInv /\ HistoryInv BY DEF Inv
  <1>2. history \in HistoryStates /\ nrd \in NrdStates BY <1>1 DEF TypeOK
  <1>3. history' \in HistoryStates /\ nrd' \in NrdStates /\ nrd'.ready = nrd.ready
    BY <1>2, InvalidatedFacts, RestartedFacts
  <1>4. PassesFresh(history', nrd', settings', seenView', stale')
    BY <1>2, ResetPasses
  <1>5. RaysFresh(history, stale) => RaysFresh(history', stale')
    BY <1>2, InvalidatedRays
  <1>6. refresh' # "full" \/ phase' \in {"tools", "frame"} => RaysFresh(history', stale')
    BY <1>1, <1>5 DEF HistoryInv
  <1>7. refresh' # "full" => OutputsFor(settings', nrd'.ready) \subseteq outputs'
    BY <1>1, <1>3 DEF OutputsInv
  <1>8. phase' \in {"tools", "frame"} => Basic(settings') \subseteq outputs'
    BY <1>1 DEF OutputsInv, Basic, Reference
  <1>9. OutputsInv' /\ HistoryInv' BY <1>4, <1>6, <1>7, <1>8, Between
  <1> QED BY <1>3, <1>9

LEMMA FewOutdated ==
  /\ Outdated({}) = {}
  /\ Outdated({"DenoiserSettings"}) \intersect Rays = {}
  /\ Outdated({"Backend", "QualityProfile"}) \intersect Rays = {"lighting", "reference"}
  BY DEF Outdated, Inputs, Rays, Domains, Realtime

LEMMA ResetDomains ==
  /\ DomainsFor("DenoiserSettings") = {"denoiser", "taa"}
  /\ DomainsFor("QualityProfile") = {"lighting", "denoiser", "taa", "reference"}
  /\ {"denoiser", "taa"} \subseteq Domains /\ Rays \subseteq Domains
  BY DEF DomainsFor, Domains, Realtime, Rays

LEMMA StaleForFacts ==
  ASSUME TypeOK, NEW s, NEW changes
  PROVE  /\ StaleFor(s, changes) \subseteq Domains \union {"nrd"}
         /\ s.backend = settings.backend =>
              StaleFor(s, changes) = stale \union Outdated(changes)
  BY OutdatedIsDomain DEF TypeOK, StaleFor, SameMethod, Method

LEMMA UpdateBeginsStep ==
  ASSUME Inv, UpdateBegins
  PROVE  Inv'
  <1>1. TypeOK /\ FlightInv /\ OutputsInv /\ HistoryInv BY DEF Inv
  <1>2. /\ phase = "commands" /\ phase' = "loads" /\ resize' = FALSE
        /\ UNCHANGED <<refresh, settings, preserve, seenView, frame, events>>
    BY DEF UpdateBegins
  <1>3. CASE UNCHANGED <<nrd, history, outputs, context, inFlight, stale, unsaid>>
    <2>1. TypeOK' BY <1>1, <1>2, <1>3, FrameAssumption DEF TypeOK
    <2>2. FlightInv' BY <1>1, <1>2, <1>3, FlightSame
    <2>3. OutputsInv' /\ HistoryInv'
      BY <1>1, <1>2, <1>3, Between DEF HistoryInv, OutputsInv
    <2> QED BY <2>1, <2>2, <2>3 DEF Inv
  <1>4. CASE /\ CreateAll(settings, TRUE) /\ context' = 0
             /\ stale' = (stale \ {"nrd"}) \union Outdated({"Resolution"})
             /\ unsaid' = unsaid \ {"nrd"}
    <2>1. settings \in SettingStates BY <1>1 DEF TypeOK
    <2>2. /\ FlightInv' /\ inFlight' \in Seq(FlightFrames)
          /\ outputs' \subseteq Resources /\ history' \in HistoryStates /\ nrd' \in NrdStates
          /\ OutputsInv' /\ HistoryInv'
      BY <1>2, <1>4, <2>1, CreatedStep
    <2>3. stale' \subseteq Domains \union {"nrd"} /\ unsaid' \subseteq Domains \union {"nrd"}
      BY <1>1, <1>4, OutdatedIsDomain DEF TypeOK
    <2>4. context' \in 0 .. Contexts - 1 BY <1>4, FrameAssumption
    <2>5. TypeOK' BY <1>1, <1>2, <2>2, <2>3, <2>4 DEF TypeOK
    <2> QED BY <2>2, <2>5 DEF Inv
  <1> QED BY <1>3, <1>4 DEF UpdateBegins

\* Only the resources are made anew, by a scene or a tool.
LEMMA CreatesStep ==
  ASSUME Inv, NEW change, phase \in {"loads", "tools"}, Event, CreateAll(settings, nrd.ready),
         stale' = stale \union Outdated({change}),
         UNCHANGED <<phase, resize, refresh, settings, preserve, seenView, context, frame,
                     unsaid>>
  PROVE  Inv'
  <1>1. TypeOK BY DEF Inv
  <1>2. settings \in SettingStates /\ nrd.ready \in BOOLEAN BY <1>1 DEF TypeOK, NrdStates
  <1>3. /\ FlightInv' /\ inFlight' \in Seq(FlightFrames)
        /\ outputs' \subseteq Resources /\ history' \in HistoryStates /\ nrd' \in NrdStates
        /\ OutputsInv' /\ HistoryInv'
    BY <1>2, CreatedStep
  <1>4. stale' \subseteq Domains \union {"nrd"} BY <1>1, OutdatedIsDomain DEF TypeOK
  <1>5. events' \in 0 .. MaxEvents BY <1>1, FrameAssumption DEF TypeOK, Event
  <1>6. TypeOK' BY <1>1, <1>3, <1>4, <1>5 DEF TypeOK
  <1> QED BY <1>3, <1>6 DEF Inv

\* A change is described, and what frames in flight use may wait for them.
LEMMA DescribesStep ==
  ASSUME Inv, NEW c \in Changes, phase \in {"loads", "tools"}, Event, Changed(c),
         inFlight' = inFlight \/ RefreshEditable, preserve' \in BOOLEAN,
         UNCHANGED <<phase, resize, refresh, settings, seenView, outputs, context, frame>>
  PROVE  Inv'
  <1>1. TypeOK /\ FlightInv /\ OutputsInv /\ HistoryInv BY DEF Inv
  <1>2. /\ history' \in HistoryStates /\ nrd' \in NrdStates
        /\ stale' \subseteq Domains \union {"nrd"} /\ unsaid' = unsaid
        /\ nrd'.ready = nrd.ready
        /\ RaysFresh(history, stale) => RaysFresh(history', stale')
        /\ PassesFresh(history, nrd, settings, seenView, stale) =>
             PassesFresh(history', nrd', settings, seenView, stale')
    BY <1>1, ChangedFresh
  <1>3. FlightInv' /\ inFlight' \in Seq(FlightFrames) BY EditMethodFlight DEF RefreshEditable
  <1>4. TypeOK' BY <1>1, <1>2, <1>3, FrameAssumption DEF TypeOK, Event
  <1>5. OutputsInv' /\ HistoryInv'
    BY <1>1, <1>2, Between DEF HistoryInv, OutputsInv
  <1> QED BY <1>3, <1>4, <1>5 DEF Inv

LEMMA ProjectLoadsStep ==
  ASSUME Inv, NEW p \in {"game", "reference"}, NEW v \in Views, ProjectLoads(p, v)
  PROVE  Inv'
  <1>1. TypeOK BY DEF Inv
  <1> DEFINE s == [Applied(settings, p) EXCEPT !.view = v]
  <1>2. s \in SettingStates /\ settings \in SettingStates BY <1>1, SettingsSteps DEF TypeOK
  <1>3. /\ phase = "loads" /\ events > 0 /\ events' = events - 1 /\ settings' = s
        /\ stale' = StaleFor(s, {"ManualReset"}) /\ unsaid' = UnsaidFor(s)
        /\ UNCHANGED <<phase, resize, refresh, preserve, seenView, context, frame>>
    BY DEF ProjectLoads, Event
  <1>4. IF SetChanges(s) \/ FusionChanges(s)
        THEN CreateAll(s, NrdFor(s).ready)
        ELSE /\ inFlight' = Waited(inFlight)
             /\ history' = Invalidated(history, Domains)
             /\ nrd' = Restarted(nrd, Domains)
             /\ UNCHANGED outputs
    BY DEF ProjectLoads
  <1> HIDE DEF s
  <1>5. stale' \subseteq Domains \union {"nrd"} /\ unsaid' \subseteq Domains \union {"nrd"}
    BY <1>1, <1>3, StaleForFacts, NrdForFacts
  <1>6. /\ FlightInv' /\ inFlight' \in Seq(FlightFrames)
        /\ outputs' \subseteq Resources /\ history' \in HistoryStates /\ nrd' \in NrdStates
        /\ OutputsInv' /\ HistoryInv'
    <2>1. CASE SetChanges(s) \/ FusionChanges(s)
      <3>1. NrdFor(s).ready \in BOOLEAN BY <1>1, NrdForFacts DEF NrdStates
      <3> QED BY <1>2, <1>3, <1>4, <2>1, <3>1, CreatedStep
    <2>2. CASE ~(SetChanges(s) \/ FusionChanges(s))
      <3>1. /\ inFlight' = << >> /\ outputs' = outputs
            /\ history' = Invalidated(history, Domains) /\ nrd' = Restarted(nrd, Domains)
        BY <1>4, <2>2 DEF Waited
      <3>2. OutputsFor(s, nrd.ready) \subseteq OutputsFor(settings, nrd.ready)
        <4>1. nrd.ready \in BOOLEAN BY <1>1 DEF TypeOK, NrdStates
        <4> QED BY <1>2, <2>2, <4>1, SameOutputs DEF SetChanges, FusionChanges
      <3>3. s.profile = settings.profile BY <2>2 DEF SetChanges
      <3>4. stale' \intersect Rays \subseteq stale \union Domains BY ResetDomains
      <3>5. history' \in HistoryStates /\ nrd' \in NrdStates /\ OutputsInv' /\ HistoryInv'
        BY <1>2, <1>3, <3>1, <3>2, <3>3, <3>4, ResetDomains, KeptStep
      <3>6. outputs' \subseteq Resources BY <1>1, <3>1 DEF TypeOK
      <3> QED BY <3>1, <3>5, <3>6, FlightEmpty
    <2> QED BY <2>1, <2>2
  <1>7. TypeOK' BY <1>1, <1>2, <1>3, <1>5, <1>6, FrameAssumption DEF TypeOK
  <1> QED BY <1>6, <1>7 DEF Inv

LEMMA UpdateRefreshesStep ==
  ASSUME Inv, UpdateRefreshes
  PROVE  Inv'
  <1>1. TypeOK /\ FlightInv /\ OutputsInv /\ HistoryInv BY DEF Inv
  <1>2. /\ phase = "loads" /\ phase' = "tools" /\ refresh' = "none"
        /\ UNCHANGED <<resize, settings, preserve, seenView, context, frame, unsaid, events>>
    BY DEF UpdateRefreshes
  <1>3. settings \in SettingStates /\ nrd.ready \in BOOLEAN BY <1>1 DEF TypeOK, NrdStates
  <1>4. CASE refresh = "full"
    <2>1. /\ CreateAll(settings, nrd.ready)
          /\ stale' = stale \union Outdated({"ManualReset"})
      BY <1>4 DEF UpdateRefreshes
    <2>2. /\ FlightInv' /\ inFlight' \in Seq(FlightFrames)
          /\ outputs' \subseteq Resources /\ history' \in HistoryStates /\ nrd' \in NrdStates
          /\ OutputsInv' /\ HistoryInv'
      BY <1>2, <1>3, <2>1, CreatedStep
    <2>3. stale' \subseteq Domains \union {"nrd"} BY <1>1, <2>1, OutdatedIsDomain DEF TypeOK
    <2>4. TypeOK' BY <1>1, <1>2, <2>2, <2>3, FrameAssumption DEF TypeOK
    <2> QED BY <2>2, <2>4 DEF Inv
  <1>5. CASE refresh # "full"
    <2>1. /\ UNCHANGED <<nrd, history, outputs, stale>>
          /\ inFlight' = inFlight \/ inFlight' = << >>
      BY <1>1, <1>5, LosingNothing DEF UpdateRefreshes, RefreshEditable, TypeOK
    <2>2. FlightInv' /\ inFlight' \in Seq(FlightFrames)
      BY <1>1, <1>2, <2>1, FlightSame, FlightEmpty DEF TypeOK
    <2>3. TypeOK' BY <1>1, <1>2, <2>1, <2>2, FrameAssumption DEF TypeOK
    <2>4. /\ RaysFresh(history, stale) /\ PassesFresh(history, nrd, settings, seenView, stale)
          /\ OutputsFor(settings, nrd.ready) \subseteq outputs
      BY <1>1, <1>2, <1>5 DEF HistoryInv, OutputsInv
    <2>5. Basic(settings) \subseteq outputs BY <2>4, BasicIsMade
    <2>6. OutputsInv' /\ HistoryInv' BY <1>2, <2>1, <2>4, <2>5, Between
    <2> QED BY <2>2, <2>3, <2>6 DEF Inv
  <1> QED BY <1>4, <1>5

LEMMA UpdateEndsStep ==
  ASSUME Inv, UpdateEnds
  PROVE  Inv'
  <1>1. TypeOK /\ FlightInv /\ OutputsInv /\ HistoryInv BY DEF Inv
  <1>2. /\ phase = "tools" /\ phase' \in {"frame", "commands"} /\ frame' = NoFrame
        /\ UNCHANGED <<resize, refresh, settings, nrd, history, preserve, seenView, outputs,
                       context, inFlight, stale, unsaid, events>>
    BY DEF UpdateEnds
  <1>3. frame' \in FrameStates BY <1>2 DEF FrameStates, NoFrame
  <1>4. TypeOK' BY <1>1, <1>2, <1>3 DEF TypeOK
  <1>5. FlightInv' BY <1>1, <1>2, FlightSame
  <1>6. OutputsInv' /\ HistoryInv'
    BY <1>1, <1>2, Between DEF HistoryInv, OutputsInv
  <1> QED BY <1>4, <1>5, <1>6 DEF Inv

LEMMA UpdatesStep ==
  ASSUME Inv, Updates
  PROVE  Inv'
  <1>1. CASE SceneCommits
    <2>1. ASSUME NEW c \in {"Geometry"} PROVE Inv'
      <3>1. phase \in {"loads", "tools"} /\ c = "Geometry" BY <1>1 DEF SceneCommits
      <3> QED BY <1>1, <3>1, CreatesStep DEF SceneCommits
    <2> QED BY <2>1
  <1>2. CASE EnvironmentLoads
    <2>1. "Hdri" \in Changes /\ preserve \in BOOLEAN BY DEF Changes, Inv, TypeOK
    <2> QED BY <1>2, <2>1, DescribesStep DEF EnvironmentLoads
  <1> QED BY <1>1, <1>2, UpdateBeginsStep, UpdateRefreshesStep, UpdateEndsStep,
             ProjectLoadsStep DEF Updates

\* A tool that selects passes and makes the resources anew, or keeps them and
\* resets the denoiser.
LEMMA SelectsStep ==
  ASSUME Inv, NEW s \in SettingStates, NEW reset, NEW changes, NEW creates \in BOOLEAN,
         NEW r \in BOOLEAN,
         phase = "tools", settings' = s, stale' = StaleFor(s, changes), Event,
         unsaid' \subseteq Domains \union {"nrd"},
         UNCHANGED <<phase, resize, refresh, preserve, seenView, context, frame>>,
         creates => CreateAll(s, r),
         ~creates =>
           /\ inFlight' = inFlight \/ inFlight' = Waited(inFlight)
           /\ history' = Invalidated(history, reset)
           /\ nrd' = Restarted(nrd, reset)
           /\ UNCHANGED outputs
           /\ s.profile = settings.profile
           /\ OutputsFor(s, nrd.ready) \subseteq OutputsFor(settings, nrd.ready)
           /\ {"denoiser", "taa"} \subseteq reset
           /\ stale' \intersect Rays \subseteq stale \union reset
  PROVE  Inv'
  <1>1. TypeOK /\ FlightInv BY DEF Inv
  <1>2. stale' \subseteq Domains \union {"nrd"} BY <1>1, StaleForFacts
  <1>3. events' \in 0 .. MaxEvents BY <1>1, FrameAssumption DEF TypeOK, Event
  <1>4. /\ FlightInv' /\ inFlight' \in Seq(FlightFrames)
        /\ outputs' \subseteq Resources /\ history' \in HistoryStates /\ nrd' \in NrdStates
        /\ OutputsInv' /\ HistoryInv'
    <2>1. CASE creates BY <2>1, CreatedStep
    <2>2. CASE ~creates
      <3>1. history' \in HistoryStates /\ nrd' \in NrdStates /\ OutputsInv' /\ HistoryInv'
        BY <2>2, KeptStep
      <3>2. FlightInv' /\ inFlight' \in Seq(FlightFrames)
        BY <1>1, <2>2, FlightSame, FlightEmpty DEF Waited, TypeOK
      <3>3. outputs' \subseteq Resources BY <1>1, <2>2 DEF TypeOK
      <3> QED BY <3>1, <3>2, <3>3
    <2> QED BY <2>1, <2>2
  <1>5. TypeOK' BY <1>1, <1>2, <1>3, <1>4 DEF TypeOK
  <1> QED BY <1>4, <1>5 DEF Inv

LEMMA ToolQualityStep ==
  ASSUME Inv, NEW p \in {"game", "reference"}, NEW taa \in BOOLEAN, ToolQuality(p, taa)
  PROVE  Inv'
  <1>1. TypeOK BY DEF Inv
  <1> DEFINE s == [Applied(settings, p) EXCEPT !.taa = taa]
             reset == DomainsFor("QualityProfile")
             changes == {"Backend", "QualityProfile"}
             creates == SetChanges(s)
  <1>2. s \in SettingStates /\ settings \in SettingStates BY <1>1, SettingsSteps DEF TypeOK
  <1>3. /\ s.view = settings.view /\ (s.backend \in Nrd => s.enabled)
    BY <1>2 DEF SettingStates, Applied, Nrd
  <1>4. /\ phase = "tools" /\ Event /\ settings' = s
        /\ stale' = StaleFor(s, changes) /\ unsaid' = UnsaidFor(s)
        /\ UNCHANGED <<phase, resize, refresh, preserve, seenView, context, frame>>
        /\ IF creates THEN CreateAll(s, NrdFor(s).ready)
           ELSE /\ inFlight' = Waited(inFlight)
                /\ history' = Invalidated(history, reset)
                /\ nrd' = Restarted(nrd, reset)
                /\ UNCHANGED outputs
    BY DEF ToolQuality, Tooled
  <1>5. creates \in BOOLEAN BY DEF SetChanges
  <1>6. NrdFor(s).ready \in BOOLEAN /\ nrd.ready \in BOOLEAN
    BY <1>1, NrdForFacts DEF NrdStates, TypeOK
  <1> HIDE DEF s
  <1>7. ~creates =>
          /\ s.profile = settings.profile
          /\ OutputsFor(s, nrd.ready) \subseteq OutputsFor(settings, nrd.ready)
    BY <1>2, <1>3, <1>6, SameOutputs DEF SetChanges
  <1>8. {"denoiser", "taa"} \subseteq reset BY ResetDomains
  <1>9. ~creates => stale' \intersect Rays \subseteq stale \union reset
    <2>1. ~creates => stale' = stale \union Outdated(changes)
      BY <1>1, <1>4, StaleForFacts DEF SetChanges
    <2> QED BY <2>1, FewOutdated, ResetDomains
  <1>10. unsaid' \subseteq Domains \union {"nrd"} BY <1>1, <1>4, NrdForFacts
  <1> HIDE DEF creates, reset, changes
  <1> QED BY <1>2, <1>4, <1>5, <1>6, <1>7, <1>8, <1>9, <1>10, SelectsStep

LEMMA ToolViewStep ==
  ASSUME Inv, NEW v \in Views, ToolView(v)
  PROVE  Inv'
  <1>1. TypeOK BY DEF Inv
  <1> DEFINE s == [settings EXCEPT !.view = v]
             reset == DomainsFor("DenoiserSettings")
             creates == FusionChanges(s)
             changes == IF creates THEN {"ManualReset"} ELSE {}
  <1>2. s \in SettingStates /\ settings \in SettingStates BY <1>1, SettingsSteps DEF TypeOK
  <1>3. /\ s.profile = settings.profile /\ s.backend = settings.backend
        /\ s.taa = settings.taa /\ s.enabled = settings.enabled
    BY <1>2 DEF SettingStates
  <1>4. /\ phase = "tools" /\ Event /\ settings' = s
        /\ stale' = StaleFor(s, changes) /\ unsaid' = unsaid
        /\ UNCHANGED <<phase, resize, refresh, preserve, seenView, context, frame>>
        /\ IF creates THEN CreateAll(s, nrd.ready)
           ELSE /\ history' = Invalidated(history, reset)
                /\ nrd' = Restarted(nrd, reset)
                /\ UNCHANGED <<outputs, inFlight>>
    BY DEF ToolView, Tooled
  <1>5. creates \in BOOLEAN BY DEF FusionChanges
  <1>6. nrd.ready \in BOOLEAN BY <1>1 DEF NrdStates, TypeOK
  <1> HIDE DEF s
  <1>7. ~creates => OutputsFor(s, nrd.ready) \subseteq OutputsFor(settings, nrd.ready)
    BY <1>2, <1>3, <1>6, SameOutputs DEF FusionChanges
  <1>8. {"denoiser", "taa"} \subseteq reset BY ResetDomains
  <1>9. ~creates => stale' \intersect Rays \subseteq stale \union reset
    <2>1. ~creates => stale' = stale \union Outdated(changes)
      BY <1>1, <1>3, <1>4, StaleForFacts
    <2> QED BY <2>1, FewOutdated
  <1>10. unsaid' \subseteq Domains \union {"nrd"} BY <1>1, <1>4 DEF TypeOK
  <1> HIDE DEF creates, reset, changes
  <1> QED BY <1>2, <1>3, <1>4, <1>5, <1>6, <1>7, <1>8, <1>9, <1>10, SelectsStep

\* Domains that are kept on purpose
LEMMA KeepsHistory ==
  ASSUME NEW h \in HistoryStates, NEW n \in NrdStates, NEW s, NEW t, NEW seen, NEW old,
         PassesFresh(h, n, s, seen, old), s.view = t.view,
         n.ready => (RunsNrd(s, n.ready) => RunsNrd(t, n.ready))
  PROVE  /\ PassesFresh(Invalidated(h, {"reference"}), n, t, seen, old)
         /\ Restarted(n, {"reference"}) = n
  <1>1. Invalidated(h, {"reference"}).valid = h.valid \ {"reference"} BY InvalidatedFacts
  <1>2. Restarted(n, {"reference"}) = n BY DEF Restarted, NrdStates
  <1> QED BY <1>1, <1>2 DEF PassesFresh

LEMMA ToolDenoiseStep ==
  ASSUME Inv, NEW b \in Backends, NEW e \in BOOLEAN, NEW k \in BOOLEAN, ToolDenoise(b, e, k)
  PROVE  Inv'
  <1>1. TypeOK /\ FlightInv /\ OutputsInv /\ HistoryInv BY DEF Inv
  <1> DEFINE s == [settings EXCEPT !.backend = b, !.enabled = e]
             reset == IF k THEN {"reference"}
                      ELSE IF b # settings.backend THEN DomainsFor("Backend")
                      ELSE DomainsFor("DenoiserSettings")
             creates == b # settings.backend \/ FusionChanges(s)
             changes == IF b # settings.backend THEN {"Backend"}
                        ELSE IF k THEN {} ELSE {"DenoiserSettings"}
  <1>2. s \in SettingStates /\ settings \in SettingStates BY <1>1, SettingsSteps DEF TypeOK
  <1>3. /\ s.profile = settings.profile /\ s.backend = b
        /\ s.taa = settings.taa /\ s.enabled = e /\ s.view = settings.view
    BY <1>2 DEF SettingStates
  <1>4. /\ phase = "tools" /\ Event /\ settings' = s
        /\ stale' = StaleFor(s, changes)
        /\ unsaid' = UnsaidFor(s) \union Outdated(IF k THEN {"DenoiserSettings"} ELSE {})
        /\ UNCHANGED <<phase, resize, refresh, preserve, seenView, context, frame>>
        /\ IF creates THEN CreateAll(s, NrdFor(s).ready)
           ELSE /\ inFlight' = Waited(inFlight)
                /\ history' = Invalidated(history, reset)
                /\ nrd' = Restarted(nrd, reset)
                /\ UNCHANGED outputs
    BY DEF ToolDenoise, Tooled
  <1>5. creates \in BOOLEAN BY DEF FusionChanges
  <1>6. NrdFor(s).ready \in BOOLEAN /\ nrd.ready \in BOOLEAN /\ nrd \in NrdStates
    BY <1>1, NrdForFacts DEF NrdStates, TypeOK
  <1> HIDE DEF s
  <1>7. ~creates => /\ OutputsFor(s, nrd.ready) \subseteq OutputsFor(settings, nrd.ready)
                    /\ RunsNrd(settings, nrd.ready) => RunsNrd(s, nrd.ready)
    <2>1. ~creates => OutputsFor(s, nrd.ready) \subseteq OutputsFor(settings, nrd.ready)
      BY <1>2, <1>3, <1>6, SameOutputs DEF FusionChanges
    <2>2. ~creates /\ RunsNrd(settings, nrd.ready) => RunsNrd(s, nrd.ready)
      BY <1>2, <1>3, <1>6 DEF FusionChanges, RunsNrd, Reference, Requested
    <2> QED BY <2>1, <2>2
  <1>8. /\ ~creates => s.backend = settings.backend
        /\ unsaid' \subseteq Domains \union {"nrd"}
    BY <1>1, <1>3, <1>4, NrdForFacts, OutdatedIsDomain
  <1>9. CASE creates \/ ~k
    <2>1. ~creates => {"denoiser", "taa"} \subseteq reset BY <1>9, ResetDomains
    <2>2. ~creates => stale' \intersect Rays \subseteq stale \union reset
      <3>1. ~creates => stale' = stale \union Outdated(changes)
        BY <1>1, <1>4, <1>8, StaleForFacts
      <3>2. ~creates => changes = {"DenoiserSettings"} BY <1>9
      <3> QED BY <3>1, <3>2, FewOutdated
    <2> HIDE DEF creates, reset, changes
    <2> QED BY <1>2, <1>3, <1>4, <1>5, <1>6, <1>7, <1>8, <2>1, <2>2, SelectsStep
  <1>10. CASE ~creates /\ k
    <2>1. /\ inFlight' = << >> /\ outputs' = outputs
          /\ history' = Invalidated(history, {"reference"})
          /\ nrd' = Restarted(nrd, {"reference"})
      BY <1>4, <1>10 DEF Waited
    <2>2. stale' = stale
      <3>1. stale' = stale \union Outdated(changes) BY <1>1, <1>4, <1>8, <1>10, StaleForFacts
      <3>2. changes = {} BY <1>10
      <3> QED BY <3>1, <3>2, FewOutdated
    <2>3. history \in HistoryStates BY <1>1 DEF TypeOK
    <2>4. nrd' = nrd BY <1>6, <2>1 DEF Restarted, NrdStates
    <2>5. history' \in HistoryStates BY <2>1, <2>3, InvalidatedFacts
    <2>6. RaysFresh(history', stale')
      <3>1. RaysFresh(history, stale) BY <1>1, <1>4 DEF HistoryInv
      <3> QED BY <2>1, <2>2, <2>3, <3>1, InvalidatedRays
    <2>7. refresh # "full" => PassesFresh(history', nrd', s, seenView, stale')
      <3>1. refresh # "full" => PassesFresh(history, nrd, settings, seenView, stale)
        BY <1>1, <1>4 DEF HistoryInv
      <3> QED BY <1>3, <1>6, <1>7, <1>10, <2>1, <2>2, <2>3, <2>4, <3>1, KeepsHistory
    <2>8. Basic(s) \subseteq outputs
      BY <1>1, <1>3, <1>4 DEF OutputsInv, Basic, Reference
    <2>9. refresh # "full" => OutputsFor(s, nrd.ready) \subseteq outputs
      BY <1>1, <1>7, <1>10 DEF OutputsInv
    <2> HIDE DEF creates, changes, reset
    <2>10. OutputsInv' /\ HistoryInv'
      BY <1>4, <2>1, <2>4, <2>6, <2>7, <2>8, <2>9, Between
    <2>11. FlightInv' /\ inFlight' \in Seq(FlightFrames) BY <2>1, FlightEmpty
    <2>12. events' \in 0 .. MaxEvents BY <1>1, <1>4, FrameAssumption DEF TypeOK, Event
    <2>13. TypeOK'
      BY <1>1, <1>2, <1>4, <1>6, <1>8, <2>1, <2>2, <2>4, <2>5, <2>11, <2>12 DEF TypeOK
    <2> QED BY <2>10, <2>11, <2>13 DEF Inv
  <1> QED BY <1>9, <1>10

\* Tools that only start the reference image again
LEMMA ToolReferenceStep ==
  ASSUME Inv, NEW changes, ToolReference(changes)
  PROVE  Inv'
  <1>1. TypeOK /\ FlightInv /\ OutputsInv /\ HistoryInv BY DEF Inv
  <1>2. /\ phase = "tools" /\ Event /\ history' = Invalidated(history, {"reference"})
        /\ Ages(changes, {"reference"})
        /\ UNCHANGED <<phase, resize, refresh, settings, nrd, preserve, seenView, outputs,
                       context, inFlight, frame>>
    BY DEF ToolReference, Tooled
  <1>3. history \in HistoryStates /\ nrd \in NrdStates BY <1>1 DEF TypeOK
  <1>4. history' \in HistoryStates BY <1>2, <1>3, InvalidatedFacts
  <1>5. stale' \subseteq stale \union {"reference"} BY <1>2 DEF Ages
  <1>6. RaysFresh(history, stale) => RaysFresh(history', stale')
    <2>1. stale' \intersect Rays \subseteq stale \union {"reference"} BY <1>5
    <2> QED BY <1>2, <1>3, <2>1, InvalidatedRays
  <1>7. PassesFresh(history, nrd, settings, seenView, stale) =>
          PassesFresh(history', nrd', settings', seenView', stale')
    <2>1. history'.valid = history.valid \ {"reference"} BY <1>2, <1>3, InvalidatedFacts
    <2> QED BY <1>2, <1>5, <2>1 DEF PassesFresh
  <1>8. OutputsInv' /\ HistoryInv'
    BY <1>1, <1>2, <1>6, <1>7, Between DEF HistoryInv, OutputsInv
  <1>9. FlightInv' BY <1>1, <1>2, FlightSame
  <1>10. events' \in 0 .. MaxEvents BY <1>1, <1>2, FrameAssumption DEF TypeOK, Event
  <1>11. /\ stale' \subseteq Domains \union {"nrd"} /\ unsaid' \subseteq Domains \union {"nrd"}
    BY <1>1, <1>2, AgesFacts
  <1>12. TypeOK' BY <1>1, <1>2, <1>4, <1>10, <1>11 DEF TypeOK
  <1> QED BY <1>8, <1>9, <1>12 DEF Inv

\* The direction of normal maps resets the denoiser.
LEMMA ToolNormalsStep ==
  ASSUME Inv, ToolNormals
  PROVE  Inv'
  <1>1. TypeOK /\ FlightInv /\ OutputsInv /\ HistoryInv BY DEF Inv
  <1> DEFINE reset == DomainsFor("DenoiserSettings")
  <1>2. /\ phase = "tools" /\ Event /\ history' = Invalidated(history, reset)
        /\ nrd' = Restarted(nrd, reset)
        /\ Ages({"View"}, reset \union {"nrd"})
        /\ UNCHANGED <<phase, resize, refresh, settings, preserve, seenView, outputs, context,
                       inFlight, frame>>
    BY DEF ToolNormals, Tooled
  <1>3. settings \in SettingStates BY <1>1 DEF TypeOK
  <1>4. {"denoiser", "taa"} \subseteq reset BY ResetDomains
  <1>5. stale' \intersect Rays \subseteq stale \union reset
    <2>1. "nrd" \notin Rays BY DEF Rays
    <2> QED BY <1>2, <2>1 DEF Ages
  <1> HIDE DEF reset
  <1>6. history' \in HistoryStates /\ nrd' \in NrdStates /\ OutputsInv' /\ HistoryInv'
    BY <1>2, <1>3, <1>4, <1>5, KeptStep
  <1>7. FlightInv' BY <1>1, <1>2, FlightSame
  <1>8. events' \in 0 .. MaxEvents BY <1>1, <1>2, FrameAssumption DEF TypeOK, Event
  <1>9. /\ stale' \subseteq Domains \union {"nrd"} /\ unsaid' \subseteq Domains \union {"nrd"}
    BY <1>1, <1>2, AgesFacts
  <1>10. TypeOK' BY <1>1, <1>2, <1>6, <1>8, <1>9 DEF TypeOK
  <1> QED BY <1>6, <1>7, <1>10 DEF Inv

-----------------------------------------------------------------------------
(* A frame.                                                                *)

\* Which changes leave what alone.
LEMMA HarmlessChanges ==
  /\ \A C : C \subseteq {"View", "CameraMotion"} =>
       Outdated(C) \subseteq {"denoiser", "taa", "nrd", "reference"}
  /\ \A C : C \subseteq {"CameraMotion"} => Outdated(C) \subseteq {"reference"}
  /\ Outdated({}) = {}
  BY DEF Outdated, Inputs, Domains, Realtime

LEMMA TrackedFacts ==
  ASSUME TypeOK, NEW h \in HistoryStates, NEW move \in Moves
  PROVE  /\ Tracked(h, move) \in HistoryStates
         /\ Tracked(h, move).valid \subseteq h.valid
         /\ h.tracked /\ move = "far" /\ ~preserve => Tracked(h, move).valid = {}
         /\ move = "still" =>
              Tracked(h, move).samples = h.samples /\ Tracked(h, move).restart = h.restart
  <1> DEFINE reset == IF move = "far" /\ ~preserve THEN Domains ELSE DomainsFor("CameraMotion")
             kept == IF move = "still" THEN h ELSE Invalidated(h, reset)
  <1>1. kept \in HistoryStates /\ kept.valid \subseteq h.valid
    BY InvalidatedFacts
  <1>2. move = "far" /\ ~preserve => kept.valid = {}
    BY InvalidatedFacts DEF HistoryStates
  <1>3. \A g \in HistoryStates :
          /\ [g EXCEPT !.tracked = TRUE] \in HistoryStates
          /\ [g EXCEPT !.tracked = TRUE].valid = g.valid
          /\ [g EXCEPT !.tracked = TRUE].samples = g.samples
          /\ [g EXCEPT !.tracked = TRUE].restart = g.restart
    BY DEF HistoryStates
  <1>4. Tracked(h, move) = IF h.tracked THEN [kept EXCEPT !.tracked = TRUE]
                           ELSE [h EXCEPT !.tracked = TRUE]
    BY DEF Tracked
  <1>5. move = "still" => kept = h OBVIOUS
  <1> HIDE DEF kept
  <1> QED BY <1>1, <1>2, <1>3, <1>4, <1>5

LEMMA ComparedFacts ==
  ASSUME NEW h \in HistoryStates, NEW s, NEW move
  PROVE  /\ Compared(h, s, move) \in HistoryStates
         /\ Compared(h, s, move).valid \subseteq h.valid
         /\ Compared(h, s, move).samples > 0 =>
              h.samples > 0 /\ ~h.restart /\ s.view = seenView /\ move = "still"
  <1> DEFINE begun == [h EXCEPT !.samples = 0, !.valid = @ \ {"reference"}, !.restart = FALSE]
  <1>1. begun \in HistoryStates /\ begun.valid \subseteq h.valid /\ begun.samples = 0
    <2>1. 0 \in 0 .. MaxSamples BY FrameAssumption
    <2>2. h.valid \ {"reference"} \subseteq Domains BY DEF HistoryStates
    <2> QED BY <2>1, <2>2 DEF HistoryStates
  <1> HIDE DEF begun
  <1>2. Compared(h, s, move) =
          IF h.restart \/ s.view # seenView \/ move # "still" THEN begun ELSE h
    BY DEF Compared, begun
  <1> QED BY <1>1, <1>2

LEMMA ProducesFacts ==
  ASSUME NEW s, NEW denoises \in BOOLEAN
  PROVE  /\ Produces(s, denoises) \subseteq Realtime
         /\ ~Reference(s) => {"surface", "lighting"} \subseteq Produces(s, denoises)
         /\ Reference(s) => Produces(s, denoises) = {}
  BY DEF Produces, Realtime

LEMMA AdvancedFacts ==
  ASSUME NEW h \in HistoryStates, NEW s \in SettingStates, NEW ready \in BOOLEAN
  PROVE  /\ Advanced(h, s, ready) \in HistoryStates
         /\ Advanced(h, s, ready).valid \intersect Realtime
              = Produces(s, RunsNrd(s, ready) \/ RunsInternal(s, ready))
  <1> DEFINE samples == IF s.frozen \/ h.samples = MaxSamples THEN h.samples ELSE h.samples + 1
             made == Produces(s, RunsNrd(s, ready) \/ RunsInternal(s, ready))
             valid == (h.valid \ Realtime) \union made
                        \union (IF samples > 0 THEN {"reference"} ELSE {})
  <1>1. samples \in 0 .. MaxSamples BY FrameAssumption DEF HistoryStates
  <1>2. made \subseteq Realtime BY ProducesFacts DEF RunsNrd, RunsInternal
  <1>3. h.valid \subseteq Domains BY DEF HistoryStates
  <1> HIDE DEF samples, made
  <1>4. valid \subseteq Domains /\ valid \intersect Realtime = made
    BY <1>2, <1>3 DEF Domains, Realtime
  <1> HIDE DEF valid
  <1>5. Advanced(h, s, ready) = [h EXCEPT !.samples = samples, !.valid = valid]
    BY DEF Advanced, samples, made, valid
  <1>6. /\ [h EXCEPT !.samples = samples, !.valid = valid] \in HistoryStates
        /\ [h EXCEPT !.samples = samples, !.valid = valid].valid = valid
    BY <1>1, <1>4 DEF HistoryStates
  <1> QED BY <1>4, <1>5, <1>6 DEF made

\* What a frame mixes
LEMMA BlendsFacts ==
  ASSUME NEW s, NEW n, NEW h, NEW complete
  PROVE  /\ Blends(s, n, h, complete) \subseteq Domains \union {"nrd"}
         /\ "reference" \in Blends(s, n, h, complete) => h.samples > 0
         /\ "surface" \in Blends(s, n, h, complete) => "surface" \in h.valid
         /\ "lighting" \in Blends(s, n, h, complete) => {"surface", "lighting"} \subseteq h.valid
         /\ "denoiser" \in Blends(s, n, h, complete) =>
              complete /\ {"surface", "denoiser"} \subseteq h.valid
         /\ "taa" \in Blends(s, n, h, complete) =>
              complete /\ {"surface", "taa"} \subseteq h.valid
         /\ "nrd" \in Blends(s, n, h, complete) =>
              complete /\ RunsNrd(s, n.ready) /\ ~n.restart
  <1>1. Blends(s, n, h, complete) \subseteq Domains \union {"nrd"} BY DEF Blends
  <1>2. "reference" \in Blends(s, n, h, complete) => h.samples > 0 BY DEF Blends
  <1>3. "surface" \in Blends(s, n, h, complete) => "surface" \in h.valid BY DEF Blends
  <1>4. "lighting" \in Blends(s, n, h, complete) => {"surface", "lighting"} \subseteq h.valid
    BY DEF Blends, ReusesLighting
  <1>5. "denoiser" \in Blends(s, n, h, complete) =>
          complete /\ {"surface", "denoiser"} \subseteq h.valid
    BY DEF Blends, Accumulates
  <1>6. "taa" \in Blends(s, n, h, complete) => complete /\ {"surface", "taa"} \subseteq h.valid
    BY DEF Blends, Resolves
  <1>7. "nrd" \in Blends(s, n, h, complete) => complete /\ RunsNrd(s, n.ready) /\ ~n.restart
    BY DEF Blends, Continues
  <1> QED BY <1>1, <1>2, <1>3, <1>4, <1>5, <1>6, <1>7

\* What is true of a frame built for settings s with the denoiser n
BuiltWell(b, s, n, scaled) ==
  /\ b.history \in HistoryStates /\ b.nrd \in NrdStates
  /\ b.stale \in SUBSET (Domains \union {"nrd"}) /\ b.preserve \in BOOLEAN
  /\ b.frame \in FrameStates /\ b.frame.blends \intersect b.stale = {}
  /\ b.frame.mixed \subseteq b.frame.excused
  /\ b.unsaid \in SUBSET (Domains \union {"nrd"})
  /\ b.frame.lacks = Needs(s, b.nrd.ready, refresh # "full") \ b.outputs
  /\ b.outputs = (IF scaled THEN OutputsFor(s, TRUE) ELSE outputs)
  /\ b.nrd.ready = (IF scaled THEN TRUE ELSE n.ready)
  /\ b.history.valid \intersect Realtime
       = Produces(s, RunsNrd(s, b.nrd.ready) \/ RunsInternal(s, b.nrd.ready))
  /\ refresh # "full" /\ b.nrd.ready /\ ~b.nrd.restart => RunsNrd(s, b.nrd.ready)

\* A frame built from current histories mixes nothing that has become outdated
\* since, by its own camera, view or resolution either, and its constants say
\* what its passes will write.
LEMMA BuiltFacts ==
  ASSUME TypeOK, NEW s \in SettingStates, NEW h \in HistoryStates, NEW n \in NrdStates,
         NEW old \in SUBSET (Domains \union {"nrd"}), NEW move \in Moves, NEW scaled \in BOOLEAN,
         RaysFresh(h, old), refresh # "full" => PassesFresh(h, n, s, seenView, old),
         NEW b, b = Built(s, h, n, old, move, scaled)
  PROVE  BuiltWell(b, s, n, scaled)
  <1> DEFINE tracked == Tracked(h, move)
             cut == h.tracked /\ move = "far" /\ ~preserve
             sized == IF scaled THEN Invalidated(tracked, Domains) ELSE tracked
             device == IF scaled THEN [ready |-> TRUE, restart |-> TRUE]
                       ELSE IF cut THEN Restarted(n, Domains) ELSE n
             begun == Compared(sized, s, move)
             complete == refresh # "full"
             unseen == ~h.tracked /\ "surface" \in h.valid
             changes == (IF scaled THEN {"Resolution"} ELSE {})
                          \union (IF s.view = seenView THEN {} ELSE {"View"})
                          \union (CASE move = "still" -> {}
                                    [] move = "far" /\ ~preserve /\ ~unseen -> {"CameraCut"}
                                    [] OTHER -> {"CameraMotion"})
             aged == (IF scaled THEN old \ {"nrd"} ELSE old) \union Outdated(changes)
             silent == IF scaled THEN unsaid \ {"nrd"} ELSE unsaid
             made == IF scaled THEN OutputsFor(s, TRUE) ELSE outputs
             blends == Blends(s, device, begun, complete)
             built == [blends |-> blends, mixed |-> blends \intersect (aged \union silent),
                       excused |-> silent \ aged,
                       lacks |-> Needs(s, device.ready, complete) \ made,
                       capture |-> FALSE]
  <1>1. b = [history |-> Advanced(begun, s, device.ready),
             nrd |-> device, stale |-> aged, unsaid |-> silent, outputs |-> made,
             preserve |-> preserve /\ ~h.tracked, frame |-> built]
    BY DEF Built
  <1>2. /\ tracked \in HistoryStates /\ tracked.valid \subseteq h.valid
        /\ cut => tracked.valid = {}
        /\ move = "still" => tracked.samples = h.samples /\ tracked.restart = h.restart
    BY TrackedFacts
  <1>3. "denoiser" \in Domains BY DEF Domains, Realtime
  <1>4. /\ device \in NrdStates /\ device.ready = (IF scaled THEN TRUE ELSE n.ready)
        /\ ~device.restart => ~scaled /\ ~cut /\ device = n
    <2>1. Restarted(n, Domains) \in NrdStates /\ Restarted(n, Domains).ready = n.ready
          /\ Restarted(n, Domains).restart
      BY <1>3, RestartedFacts
    <2>2. [ready |-> TRUE, restart |-> TRUE] \in NrdStates BY DEF NrdStates
    <2> QED BY <2>1, <2>2
  <1> HIDE DEF tracked
  <1>5. /\ sized \in HistoryStates /\ sized.valid \subseteq tracked.valid
        /\ scaled => sized.valid = {} /\ sized.samples = 0
        /\ ~scaled => sized = tracked
    <2>1. scaled => sized = Invalidated(tracked, Domains) OBVIOUS
    <2>2. tracked.valid \subseteq Domains BY <1>2 DEF HistoryStates
    <2>3. "reference" \in Domains BY DEF Domains
    <2>4. CASE scaled BY <1>2, <2>1, <2>2, <2>3, <2>4, InvalidatedFacts
    <2>5. CASE ~scaled BY <1>2, <2>5
    <2> QED BY <2>4, <2>5
  <1> HIDE DEF sized
  <1>6. /\ begun \in HistoryStates /\ begun.valid \subseteq sized.valid
        /\ begun.samples > 0 =>
             sized.samples > 0 /\ ~sized.restart /\ s.view = seenView /\ move = "still"
    BY <1>5, ComparedFacts
  <1> HIDE DEF begun, device
  <1>7. /\ Advanced(begun, s, device.ready) \in HistoryStates
        /\ Advanced(begun, s, device.ready).valid \intersect Realtime
             = Produces(s, RunsNrd(s, device.ready) \/ RunsInternal(s, device.ready))
    <2>1. device.ready \in BOOLEAN BY <1>4 DEF NrdStates
    <2> QED BY <1>6, <2>1, AdvancedFacts
  <1>8. aged \subseteq Domains \union {"nrd"} /\ silent \subseteq Domains \union {"nrd"}
    BY OutdatedIsDomain DEF TypeOK
  <1>9. blends \subseteq Domains \union {"nrd"} BY BlendsFacts
  <1>10. made \subseteq Resources BY OutputsAreResources DEF TypeOK
  <1>11. built \in FrameStates
    <2>1. Needs(s, device.ready, complete) \subseteq Resources
      <3>1. Needs(s, device.ready, TRUE) \subseteq Resources
        BY <1>4, NeedsAreMade, OutputsAreResources DEF NrdStates
      <3>2. Needs(s, device.ready, FALSE) \subseteq Resources
        BY BasicNeeds DEF Basic, Resources
      <3> QED BY <3>1, <3>2
    <2> HIDE DEF aged, silent, blends, made
    <2>2. Needs(s, device.ready, complete) \ made \in SUBSET Resources BY <2>1
    <2> QED BY <1>8, <1>9, <2>2 DEF FrameStates
  <1>12. "surface" \in begun.valid => "surface" \in h.valid /\ ~scaled /\ ~cut
    BY <1>2, <1>5, <1>6
  <1>13. "surface" \in h.valid /\ ~scaled /\ ~cut => changes \subseteq {"View", "CameraMotion"}
    OBVIOUS
  <1>14. "surface" \in h.valid /\ ~scaled /\ ~cut /\ s.view = seenView =>
           changes \subseteq {"CameraMotion"}
    OBVIOUS
  <1>15. ~scaled /\ s.view = seenView /\ move = "still" => changes = {} OBVIOUS
  <1>16. ~scaled => aged = old \union Outdated(changes) OBVIOUS
  <1> HIDE DEF aged, changes, cut
  <1>17. "reference" \in blends => "reference" \notin aged
    <2>1. "reference" \in blends =>
            /\ sized.samples > 0 /\ ~sized.restart /\ s.view = seenView /\ move = "still"
      BY <1>6, BlendsFacts
    <2>2. "reference" \in blends => ~scaled /\ aged = old
      BY <1>5, <1>15, <1>16, <2>1, HarmlessChanges
    <2>3. "reference" \in blends => h.samples > 0 /\ ~h.restart
      BY <1>2, <1>5, <2>1, <2>2
    <2> QED BY <2>2, <2>3 DEF RaysFresh
  <1>18. "surface" \in blends => "surface" \notin aged
    <2>1. "surface" \in blends => "surface" \in begun.valid BY BlendsFacts
    <2> QED BY <2>1, <1>12, <1>13, <1>16, HarmlessChanges DEF RaysFresh
  <1>19. "lighting" \in blends => "lighting" \notin aged
    <2>1. "lighting" \in blends => {"surface", "lighting"} \subseteq begun.valid BY BlendsFacts
    <2>2. begun.valid \subseteq h.valid BY <1>2, <1>5, <1>6
    <2> QED BY <2>1, <2>2, <1>12, <1>13, <1>16, HarmlessChanges DEF RaysFresh
  <1>20. \A d \in {"denoiser", "taa"} : d \in blends => d \notin aged
    <2> TAKE d \in {"denoiser", "taa"}
    <2> HAVE d \in blends
    <2>1. complete /\ {"surface", d} \subseteq begun.valid
      <3>1. CASE d = "denoiser" BY <3>1, BlendsFacts
      <3>2. CASE d = "taa" BY <3>2, BlendsFacts
      <3> QED BY <3>1, <3>2
    <2>2. begun.valid \subseteq h.valid BY <1>2, <1>5, <1>6
    <2>3. d \notin old /\ s.view = seenView BY <2>1, <2>2 DEF PassesFresh
    <2>4. Outdated(changes) \subseteq {"reference"} BY <1>12, <1>14, <2>1, <2>3, HarmlessChanges
    <2>5. ~scaled BY <1>12, <2>1
    <2> QED BY <1>16, <2>3, <2>4, <2>5
  <1>21. "nrd" \in blends => "nrd" \notin aged
    <2> HAVE "nrd" \in blends
    <2>1. complete /\ RunsNrd(s, device.ready) /\ ~device.restart BY BlendsFacts
    <2>2. ~scaled /\ ~cut /\ n.ready /\ ~n.restart BY <1>4, <2>1 DEF RunsNrd
    <2>3. "nrd" \notin old /\ "surface" \in h.valid /\ s.view = seenView
      BY <2>1, <2>2 DEF PassesFresh
    <2>4. Outdated(changes) \subseteq {"reference"} BY <1>14, <2>2, <2>3, HarmlessChanges
    <2> QED BY <1>16, <2>2, <2>3, <2>4
  <1> HIDE DEF blends
  <1>22. blends \intersect aged = {}
    BY <1>9, <1>17, <1>18, <1>19, <1>20, <1>21 DEF Domains, Realtime
  <1>23. complete /\ device.ready /\ ~device.restart => RunsNrd(s, device.ready)
    BY <1>4 DEF PassesFresh
  <1>24. /\ b.history = Advanced(begun, s, device.ready) /\ b.nrd = device /\ b.stale = aged
         /\ b.outputs = made /\ b.preserve = (preserve /\ ~h.tracked) /\ b.frame = built
         /\ b.unsaid = silent
    BY <1>1
  <1>25. /\ built.blends = blends /\ built.mixed \subseteq built.excused
         /\ built.lacks = Needs(s, device.ready, complete) \ made
    <2> HIDE DEF aged, silent, made, device, complete
    <2>1. built = [blends |-> blends, mixed |-> blends \intersect (aged \union silent),
                   excused |-> silent \ aged, lacks |-> Needs(s, device.ready, complete) \ made,
                   capture |-> FALSE]
      OBVIOUS
    <2> QED BY <1>22, <2>1
  <1>26. b.preserve \in BOOLEAN BY <1>24 DEF TypeOK, HistoryStates
  <1>27. made = (IF scaled THEN OutputsFor(s, TRUE) ELSE outputs) OBVIOUS
  <1> HIDE DEF built, made, silent
  <1> QED BY <1>4, <1>7, <1>8, <1>11, <1>22, <1>23, <1>24, <1>25, <1>26, <1>27 DEF BuiltWell

\* What is true after a frame was recorded for settings s with the denoiser n,
\* whose constants have left the histories h
RecordedWell(r, s, h, n, fails) ==
  /\ r.nrd \in NrdStates /\ r.refresh \in {"none", "data", "full"}
  /\ r.stale \subseteq Domains \union {"nrd"} /\ r.unsaid \subseteq Domains \union {"nrd"}
  /\ r.refresh # "full" => ~fails /\ refresh # "full"
  /\ ~fails => r.refresh = refresh /\ r.nrd.ready = n.ready
  /\ RaysFresh(h, r.stale)
  /\ r.refresh # "full" /\ (n.ready /\ ~n.restart => RunsNrd(s, n.ready)) =>
       PassesFresh(h, r.nrd, s, s.view, r.stale)

\* Recording a frame writes what its constants promise and leaves the histories
\* of the rays current; a frame whose passes all ran leaves every history so.
LEMMA RecordedFacts ==
  ASSUME TypeOK, NEW s \in SettingStates, NEW h \in HistoryStates, NEW n \in NrdStates,
         NEW old \in SUBSET (Domains \union {"nrd"}), NEW f \in FrameStates,
         NEW fails \in BOOLEAN, f.blends \intersect old = {},
         h.valid \intersect Realtime = Produces(s, RunsNrd(s, n.ready) \/ RunsInternal(s, n.ready)),
         NEW r, r = Recorded(s, n, old, f, fails)
  PROVE  RecordedWell(r, s, h, n, fails)
  <1> DEFINE complete == refresh # "full"
             filters == RunsNrd(s, n.ready) /\ complete /\ ~fails
             denoises == RunsNrd(s, n.ready) \/ RunsInternal(s, n.ready)
             some == IF ~complete \/ fails THEN Produces(s, FALSE) \ {"taa"}
                     ELSE Produces(s, filters \/ RunsInternal(s, n.ready))
             wrote == {"reference"} \union some \union (IF filters THEN {"nrd"} ELSE {})
             device == CASE fails -> [n EXCEPT !.ready = FALSE]
                         [] filters -> [n EXCEPT !.restart = FALSE]
                         [] OTHER -> n
             left == (old \ (wrote \ f.blends)) \union ((Domains \union {"nrd"}) \ wrote)
  <1>1. r = [nrd |-> device, refresh |-> IF fails THEN "full" ELSE refresh, stale |-> left,
             unsaid |-> unsaid \ (wrote \ f.blends)]
    BY DEF Recorded
  <1> HIDE DEF wrote, left, device
  <1>2. /\ r.nrd = device /\ r.refresh = (IF fails THEN "full" ELSE refresh)
        /\ r.stale = left /\ r.unsaid \subseteq unsaid
    BY <1>1
  <1> USE DEF wrote, left, device
  <1>3. /\ device \in NrdStates
        /\ ~fails => device.ready = n.ready
        /\ filters => ~device.restart
        /\ ~filters /\ ~fails => device = n
    <2>1. [n EXCEPT !.ready = FALSE] \in NrdStates BY Zenon DEF NrdStates
    <2>2. /\ [n EXCEPT !.restart = FALSE] \in NrdStates
          /\ [n EXCEPT !.restart = FALSE].ready = n.ready
          /\ ~[n EXCEPT !.restart = FALSE].restart
      BY DEF NrdStates
    <2>3. CASE fails BY <2>1, <2>3
    <2>4. CASE ~fails /\ filters
      <3>1. device = [n EXCEPT !.restart = FALSE] BY <2>4
      <3> QED BY <2>2, <2>4, <3>1
    <2>5. CASE ~fails /\ ~filters
      <3>1. device = n BY <2>5
      <3> QED BY <2>5, <3>1
    <2> QED BY <2>3, <2>4, <2>5
  <1>4. \A d \in wrote : d \notin left
    <2>1. \A d \in wrote : d \in f.blends => d \notin old OBVIOUS
    <2> QED BY <2>1
  <1>5. "reference" \in wrote OBVIOUS
  <1>6. \A d \in {"surface", "lighting"} : d \in h.valid => d \in wrote
    <2> TAKE d \in {"surface", "lighting"}
    <2> HAVE d \in h.valid
    <2>1. d \in Produces(s, denoises) BY DEF Realtime
    <2>2. denoises \in BOOLEAN BY DEF RunsNrd, RunsInternal
    <2>3. ~Reference(s) BY <2>1, <2>2, ProducesFacts
    <2>4. (filters \/ RunsInternal(s, n.ready)) \in BOOLEAN BY DEF RunsInternal
    <2>5. d \in some BY <2>3, <2>4, ProducesFacts
    <2> QED BY <2>5
  <1>7. complete /\ ~fails => \A d \in h.valid \intersect Realtime : d \in wrote
    <2>1. complete /\ ~fails => filters = RunsNrd(s, n.ready) BY DEF RunsNrd
    <2>2. complete /\ ~fails => some = Produces(s, denoises) BY <2>1
    <2> QED BY <2>2
  <1>8. left \subseteq Domains \union {"nrd"} OBVIOUS
  <1>9. filters => "nrd" \in wrote OBVIOUS
  <1>10. filters => "surface" \in h.valid
    <2>1. filters => ~Reference(s) BY DEF RunsNrd
    <2>2. denoises \in BOOLEAN BY DEF RunsNrd, RunsInternal
    <2>3. filters => "surface" \in Produces(s, denoises) BY <2>1, <2>2, ProducesFacts
    <2> QED BY <2>3
  <1>11. RunsNrd(s, n.ready) /\ complete /\ ~fails => filters OBVIOUS
  <1>12. filters => RunsNrd(s, n.ready) /\ ~fails OBVIOUS
  <1> HIDE DEF wrote, left, device, filters
  <1>13. RaysFresh(h, left) BY <1>4, <1>5, <1>6 DEF RaysFresh
  <1>14. ASSUME complete, ~fails, n.ready /\ ~n.restart => RunsNrd(s, n.ready)
         PROVE  PassesFresh(h, device, s, s.view, left)
    <2>1. /\ "denoiser" \in h.valid => "denoiser" \notin left
          /\ "taa" \in h.valid => "taa" \notin left
      BY <1>4, <1>7, <1>14 DEF Realtime
    <2>2. device.ready /\ ~device.restart => filters BY <1>3, <1>11, <1>14
    <2>3. filters => /\ RunsNrd(s, device.ready) /\ "nrd" \notin left /\ "surface" \in h.valid
      BY <1>3, <1>4, <1>9, <1>10, <1>12
    <2> QED BY <2>1, <2>2, <2>3 DEF PassesFresh
  <1>15. refresh \in {"none", "data", "full"} /\ unsaid \subseteq Domains \union {"nrd"}
    BY DEF TypeOK
  <1> QED BY <1>2, <1>3, <1>8, <1>13, <1>14, <1>15 DEF RecordedWell

\* A capture of view v, for settings s, that recorded r of the frame b
Packed(v, s, reset, b, fails, r) ==
  /\ fails => CanFail(s, b.nrd)
  /\ inFlight' = Waited(inFlight)
  /\ frame' = [b.frame EXCEPT !.capture = TRUE]
  /\ history' = Invalidated(b.history, reset)
  /\ nrd' = Restarted(r.nrd, reset)
  /\ stale' = r.stale /\ unsaid' = r.unsaid
  /\ refresh' = r.refresh
  /\ preserve' = b.preserve
  /\ seenView' = v
  /\ UNCHANGED <<phase, resize, settings, outputs, context>>

LEMMA ToolPackStep ==
  ASSUME Inv, NEW v \in Views, ToolPack(v)
  PROVE  Inv'
  <1>1. TypeOK /\ FlightInv /\ OutputsInv /\ HistoryInv BY DEF Inv
  <1>2. PICK move \in Moves, s \in {[settings EXCEPT !.view = v]},
             reset \in {DomainsFor("DenoiserSettings")} :
          \E b \in {Built(s, Invalidated(history, reset), Restarted(nrd, reset), stale, move,
                          FALSE)} :
          \E fails \in BOOLEAN :
          \E r \in {Recorded(s, b.nrd, b.stale, b.frame, fails)} :
            Packed(v, s, reset, b, fails, r)
    BY DEF ToolPack, Packed
  <1> DEFINE h == Invalidated(history, reset)
             n == Restarted(nrd, reset)
  <1>3. PICK b \in {Built(s, h, n, stale, move, FALSE)}, fails \in BOOLEAN :
          \E r \in {Recorded(s, b.nrd, b.stale, b.frame, fails)} :
            Packed(v, s, reset, b, fails, r)
    BY <1>2
  <1>4. PICK r \in {Recorded(s, b.nrd, b.stale, b.frame, fails)} :
          Packed(v, s, reset, b, fails, r)
    BY <1>3
  <1>5. /\ s \in SettingStates /\ settings \in SettingStates
        /\ history \in HistoryStates /\ nrd \in NrdStates
        /\ stale \in SUBSET (Domains \union {"nrd"})
    BY <1>1, SettingsSteps DEF TypeOK
  <1>6. {"denoiser", "taa"} \subseteq reset BY ResetDomains
  <1>7. phase = "tools" /\ Event BY DEF ToolPack, Tooled
  <1>8. h \in HistoryStates /\ n \in NrdStates /\ n.ready = nrd.ready
    BY <1>5, InvalidatedFacts, RestartedFacts
  <1>9. RaysFresh(h, stale)
    <2>1. RaysFresh(history, stale) BY <1>1, <1>7 DEF HistoryInv
    <2> QED BY <1>5, <2>1, InvalidatedRays
  <1>10. PassesFresh(h, n, s, seenView, stale) BY <1>5, <1>6, ResetPasses
  <1> HIDE DEF h, n
  <1>11. BuiltWell(b, s, n, FALSE) BY <1>1, <1>5, <1>8, <1>9, <1>10, BuiltFacts
  <1>12. /\ b.history \in HistoryStates /\ b.nrd \in NrdStates
         /\ b.stale \in SUBSET (Domains \union {"nrd"}) /\ b.preserve \in BOOLEAN
         /\ b.frame \in FrameStates /\ b.frame.blends \intersect b.stale = {}
         /\ b.frame.mixed \subseteq b.frame.excused /\ b.nrd.ready = nrd.ready
         /\ b.history.valid \intersect Realtime
              = Produces(s, RunsNrd(s, b.nrd.ready) \/ RunsInternal(s, b.nrd.ready))
    BY <1>8, <1>11 DEF BuiltWell
  <1>13. r = Recorded(s, b.nrd, b.stale, b.frame, fails) OBVIOUS
  <1>14. RecordedWell(r, s, b.history, b.nrd, fails)
    <2> DEFINE device == b.nrd
               old == b.stale
               built == b.frame
               left == b.history
               result == r
    <2>1. /\ old \in SUBSET (Domains \union {"nrd"}) /\ device \in NrdStates
          /\ built \in FrameStates /\ left \in HistoryStates
          /\ built.blends \intersect old = {}
          /\ left.valid \intersect Realtime
               = Produces(s, RunsNrd(s, device.ready) \/ RunsInternal(s, device.ready))
      BY <1>12
    <2>2. result = Recorded(s, device, old, built, fails) BY <1>13
    <2> HIDE DEF device, old, built, left, result
    <2>3. RecordedWell(result, s, left, device, fails)
      BY <1>1, <1>5, <2>1, <2>2, RecordedFacts
    <2> QED BY <2>3 DEF device, left, result
  <1>15. /\ r.nrd \in NrdStates /\ r.refresh \in {"none", "data", "full"}
         /\ r.stale \subseteq Domains \union {"nrd"} /\ r.unsaid \subseteq Domains \union {"nrd"}
         /\ r.refresh # "full" => refresh # "full" /\ r.nrd.ready = nrd.ready
         /\ RaysFresh(b.history, r.stale)
    BY <1>12, <1>14 DEF RecordedWell
  <1>16. /\ frame' = [b.frame EXCEPT !.capture = TRUE]
         /\ history' = Invalidated(b.history, reset) /\ nrd' = Restarted(r.nrd, reset)
         /\ stale' = r.stale /\ unsaid' = r.unsaid /\ refresh' = r.refresh
         /\ preserve' = b.preserve /\ seenView' = v
         /\ inFlight' = << >>
         /\ UNCHANGED <<phase, resize, settings, outputs, context>>
    BY <1>4 DEF Waited, Packed
  <1>17. history' \in HistoryStates /\ nrd' \in NrdStates /\ nrd'.ready = r.nrd.ready
    BY <1>12, <1>15, <1>16, InvalidatedFacts, RestartedFacts
  <1>18. /\ frame' \in FrameStates /\ frame'.mixed \subseteq frame'.excused /\ frame'.capture
    BY <1>12, <1>16 DEF FrameStates
  <1>19. RaysFresh(history', stale')
    <2>1. r.stale \intersect Rays \subseteq r.stale \union reset OBVIOUS
    <2>2. RaysFresh(b.history, r.stale) /\ b.history \in HistoryStates BY <1>12, <1>15
    <2>3. RaysFresh(Invalidated(b.history, reset), r.stale) BY <2>1, <2>2, InvalidatedRays
    <2> QED BY <1>16, <2>3
  <1>20. PassesFresh(history', nrd', settings', seenView', stale')
    <2>1. PassesFresh(Invalidated(b.history, reset), Restarted(r.nrd, reset), settings, v, r.stale)
      BY <1>6, <1>12, <1>15, ResetPasses
    <2> QED BY <1>16, <2>1
  <1>21. HistoryInv' BY <1>7, <1>16, <1>18, <1>19, <1>20 DEF HistoryInv, HistoryIsCurrent
  <1>22. OutputsInv'
    <2>1. refresh' # "full" => OutputsFor(settings', nrd'.ready) \subseteq outputs'
      BY <1>1, <1>15, <1>16, <1>17 DEF OutputsInv
    <2> QED BY <1>1, <1>7, <1>16, <1>18, <2>1 DEF OutputsInv, PassesFindTheirs
  <1>23. FlightInv' /\ inFlight' \in Seq(FlightFrames) BY <1>16, FlightEmpty
  <1>24. events' \in 0 .. MaxEvents BY <1>1, <1>7, FrameAssumption DEF TypeOK, Event
  <1>25. TypeOK'
    BY <1>1, <1>12, <1>15, <1>16, <1>17, <1>18, <1>23, <1>24 DEF TypeOK
  <1> QED BY <1>21, <1>22, <1>23, <1>25 DEF Inv

LEMMA ToolsStep ==
  ASSUME Inv, Tools
  PROVE  Inv'
  <1>1. ASSUME NEW c \in ToolChanges, ToolContent(c) PROVE Inv'
    <2>1. c \in Changes /\ preserve \in BOOLEAN BY DEF ToolChanges, Changes, Inv, TypeOK
    <2> QED BY <1>1, <2>1, DescribesStep DEF ToolContent, Tooled
  <1>2. CASE ToolMaterial
    <2>1. "Material" \in Changes /\ preserve \in BOOLEAN BY DEF Changes, Inv, TypeOK
    <2> QED BY <1>2, <2>1, DescribesStep DEF ToolMaterial, Tooled
  <1>3. ASSUME NEW c \in {"Geometry", "Backend"}, ToolRebuilds(c) PROVE Inv'
    BY <1>3, CreatesStep DEF ToolRebuilds, Tooled
  <1>4. ASSUME NEW k \in BOOLEAN, ToolCamera(k) PROVE Inv'
    <2>1. "CameraMotion" \in Changes BY DEF Changes
    <2> QED BY <1>4, <2>1, DescribesStep DEF ToolCamera, Tooled
  <1>5. CASE ToolAccumulation \/ ToolColors
    BY <1>5, ToolReferenceStep DEF ToolAccumulation, ToolColors
  <1> QED BY <1>1, <1>2, <1>3, <1>4, <1>5, ToolNormalsStep, ToolQualityStep, ToolDenoiseStep,
             ToolViewStep, ToolPackStep DEF Tools

LEMMA BuildFrameStep ==
  ASSUME Inv, NEW move \in Moves, NEW scaled \in BOOLEAN, BuildFrame(move, scaled)
  PROVE  Inv'
  <1>1. TypeOK /\ FlightInv /\ OutputsInv /\ HistoryInv BY DEF Inv
  <1>2. PICK b \in {Built(settings, history, nrd, stale, move, scaled)} :
          /\ phase = "frame" /\ phase' = "render"
          /\ ContextIsFree
          /\ IF move = "still" /\ ~scaled THEN UNCHANGED events
             ELSE events > 0 /\ events' = events - 1
          /\ history' = b.history /\ nrd' = b.nrd /\ outputs' = b.outputs
          /\ stale' = b.stale /\ unsaid' = b.unsaid
          /\ preserve' = b.preserve /\ frame' = b.frame
          /\ seenView' = settings.view
          /\ inFlight' = IF scaled THEN Losing(Waited(inFlight), {"outputs", "nrd"}) ELSE inFlight
          /\ UNCHANGED <<resize, refresh, settings, context>>
    BY DEF BuildFrame
  <1>3. /\ settings \in SettingStates /\ history \in HistoryStates /\ nrd \in NrdStates
        /\ stale \in SUBSET (Domains \union {"nrd"})
    BY <1>1 DEF TypeOK
  <1>4. /\ RaysFresh(history, stale)
        /\ refresh # "full" => PassesFresh(history, nrd, settings, seenView, stale)
    BY <1>1, <1>2 DEF HistoryInv
  <1>5. /\ b.history \in HistoryStates /\ b.nrd \in NrdStates
        /\ b.stale \subseteq Domains \union {"nrd"} /\ b.preserve \in BOOLEAN
        /\ b.frame \in FrameStates /\ b.frame.blends \intersect b.stale = {}
        /\ b.frame.mixed \subseteq b.frame.excused
        /\ b.unsaid \subseteq Domains \union {"nrd"}
        /\ b.frame.lacks = Needs(settings, b.nrd.ready, refresh # "full") \ b.outputs
        /\ b.outputs = (IF scaled THEN OutputsFor(settings, TRUE) ELSE outputs)
        /\ b.nrd.ready = (IF scaled THEN TRUE ELSE nrd.ready)
        /\ b.history.valid \intersect Realtime
             = Produces(settings, RunsNrd(settings, b.nrd.ready)
                                    \/ RunsInternal(settings, b.nrd.ready))
        /\ refresh # "full" /\ b.nrd.ready /\ ~b.nrd.restart => RunsNrd(settings, b.nrd.ready)
    <2>1. BuiltWell(b, settings, nrd, scaled)
      <3>1. b = Built(settings, history, nrd, stale, move, scaled) OBVIOUS
      <3> QED BY <1>1, <1>3, <1>4, <3>1, BuiltFacts
    <2> QED BY <2>1 DEF BuiltWell
  <1>6. HistoryInv'
    <2>1. Promised(history, nrd, settings)' BY <1>2, <1>5 DEF Promised
    <2>2. (frame.blends \intersect stale = {})' BY <1>2, <1>5
    <2>3. HistoryIsCurrent' BY <1>2, <1>5 DEF HistoryIsCurrent
    <2> QED BY <1>2, <2>1, <2>2, <2>3 DEF HistoryInv
  <1>7. /\ refresh # "full" => OutputsFor(settings, b.nrd.ready) \subseteq b.outputs
        /\ Basic(settings) \subseteq b.outputs /\ b.outputs \subseteq Resources
    <2>1. CASE scaled
      <3>1. b.outputs = OutputsFor(settings, TRUE) /\ b.nrd.ready = TRUE BY <1>5, <2>1
      <3>2. OutputsFor(settings, b.nrd.ready) = OutputsFor(settings, TRUE) BY <3>1, Zenon
      <3>3. OutputsFor(settings, b.nrd.ready) \subseteq b.outputs BY <3>1, <3>2
      <3>4. Basic(settings) \subseteq b.outputs
        <4>1. Basic(settings) \subseteq OutputsFor(settings, TRUE) BY BasicIsMade
        <4> QED BY <3>1, <4>1
      <3>5. b.outputs \subseteq Resources BY <3>1, OutputsAreResources, Zenon
      <3> QED BY <3>3, <3>4, <3>5
    <2>2. CASE ~scaled BY <1>1, <1>2, <1>5, <2>2 DEF OutputsInv, TypeOK
    <2> QED BY <2>1, <2>2
  <1>8. OutputsInv'
    <2>1. b.frame.lacks = {}
      <3>1. b.nrd.ready \in BOOLEAN BY <1>5 DEF NrdStates
      <3>2. CASE refresh # "full" BY <1>3, <1>5, <1>7, <3>1, <3>2, NeedsAreMade
      <3>3. CASE refresh = "full"
        <4>1. (refresh # "full") = FALSE BY <3>3
        <4> QED BY <1>5, <1>7, <4>1, BasicNeeds
      <3> QED BY <3>2, <3>3
    <2> QED BY <1>2, <1>7, <2>1 DEF OutputsInv, PassesFindTheirs
  <1>9. FlightInv' /\ inFlight' \in Seq(FlightFrames)
    <2>1. CASE scaled BY <1>2, <2>1, LosingNothing, FlightEmpty
    <2>2. CASE ~scaled
      <3>1. inFlight' = inFlight /\ context' = context /\ ContextIsFree BY <1>2, <2>2
      <3>2. ContextIsFree' BY <3>1 DEF ContextIsFree
      <3>3. FlightInv' BY <1>1, <3>1, <3>2 DEF FlightInv
      <3> QED BY <1>1, <3>1, <3>3 DEF TypeOK
    <2> QED BY <2>1, <2>2
  <1>10. events' \in 0 .. MaxEvents
    <2>1. events \in 0 .. MaxEvents BY <1>1 DEF TypeOK
    <2>2. events' = events \/ (events > 0 /\ events' = events - 1) BY <1>2
    <2> QED BY <2>1, <2>2, FrameAssumption
  <1>11. TypeOK'
    BY <1>1, <1>2, <1>3, <1>5, <1>7, <1>9, <1>10 DEF TypeOK, SettingStates
  <1> QED BY <1>6, <1>8, <1>9, <1>11 DEF Inv

LEMMA RenderFrameStep ==
  ASSUME Inv, NEW fails \in BOOLEAN, RenderFrame(fails)
  PROVE  Inv'
  <1>1. TypeOK /\ FlightInv /\ OutputsInv /\ HistoryInv BY DEF Inv
  <1> DEFINE new == [context |-> context, has |-> {"outputs", "scene", "nrd"}]
  <1>2. PICK r \in {Recorded(settings, nrd, stale, frame, fails)} :
          /\ phase = "render" /\ phase' = "commands"
          /\ IF fails THEN CanFail(settings, nrd) /\ Event ELSE UNCHANGED events
          /\ nrd' = r.nrd /\ stale' = r.stale /\ unsaid' = r.unsaid /\ refresh' = r.refresh
          /\ inFlight' = Append(inFlight, new)
          /\ context' = (context + 1) % Contexts
          /\ frame' = NoFrame
          /\ UNCHANGED <<resize, settings, history, preserve, seenView, outputs>>
    BY DEF RenderFrame
  <1>3. /\ settings \in SettingStates /\ history \in HistoryStates /\ nrd \in NrdStates
        /\ stale \in SUBSET (Domains \union {"nrd"}) /\ frame \in FrameStates
        /\ inFlight \in Seq(FlightFrames) /\ context \in 0 .. Contexts - 1
    BY <1>1 DEF TypeOK
  <1>4. Promised(history, nrd, settings) /\ frame.blends \intersect stale = {}
    BY <1>1, <1>2 DEF HistoryInv
  <1>5. /\ r.nrd \in NrdStates /\ r.refresh \in {"none", "data", "full"}
        /\ r.stale \subseteq Domains \union {"nrd"} /\ r.unsaid \subseteq Domains \union {"nrd"}
        /\ r.refresh # "full" => ~fails /\ refresh # "full"
        /\ ~fails => r.refresh = refresh /\ r.nrd.ready = nrd.ready
        /\ RaysFresh(history, r.stale)
        /\ r.refresh # "full" /\ (nrd.ready /\ ~nrd.restart => RunsNrd(settings, nrd.ready)) =>
             PassesFresh(history, r.nrd, settings, settings.view, r.stale)
    <2>1. RecordedWell(r, settings, history, nrd, fails)
      <3>1. r = Recorded(settings, nrd, stale, frame, fails) OBVIOUS
      <3>2. history.valid \intersect Realtime
              = Produces(settings, RunsNrd(settings, nrd.ready)
                                     \/ RunsInternal(settings, nrd.ready))
        BY <1>4 DEF Promised
      <3> QED BY <1>1, <1>3, <1>4, <3>1, <3>2, RecordedFacts
    <2> QED BY <2>1 DEF RecordedWell
  <1>6. r.refresh # "full" => PassesFresh(history, r.nrd, settings, seenView, r.stale)
    BY <1>4, <1>5 DEF Promised
  <1>7. r.refresh # "full" => OutputsFor(settings, r.nrd.ready) \subseteq outputs
    BY <1>1, <1>5 DEF OutputsInv
  <1>8. OutputsInv' /\ HistoryInv' BY <1>2, <1>5, <1>6, <1>7, Between
  <1>9. new \in FlightFrames /\ {"outputs", "scene"} \subseteq new.has /\ new.context = context
    BY <1>3 DEF FlightFrames
  <1> HIDE DEF new
  <1>10. /\ inFlight' \in Seq(FlightFrames) /\ Len(inFlight') = Len(inFlight) + 1
         /\ Len(inFlight) \in Nat
         /\ DOMAIN inFlight' = 1 .. Len(inFlight) + 1 /\ DOMAIN inFlight = 1 .. Len(inFlight)
         /\ \A i \in 1 .. Len(inFlight) : inFlight'[i] = inFlight[i]
         /\ inFlight'[Len(inFlight) + 1] = new
    BY <1>2, <1>3, <1>9, AppendProperties, LenProperties
  <1>11. FlightInv'
    <2>1. \A i \in DOMAIN inFlight : inFlight[i].context # context
      BY <1>1, <1>2 DEF FlightInv, ContextIsFree
    <2>2. \A i \in DOMAIN inFlight' :
            \/ (i \in DOMAIN inFlight /\ inFlight'[i] = inFlight[i])
            \/ (i = Len(inFlight) + 1 /\ inFlight'[i] = new)
      <3> TAKE i \in DOMAIN inFlight'
      <3>1. CASE i = Len(inFlight) + 1 BY <1>10, <3>1
      <3>2. CASE i # Len(inFlight) + 1
        <4>1. i \in 1 .. Len(inFlight) BY <1>10, <3>2
        <4>2. i \in DOMAIN inFlight BY <1>10, <4>1
        <4>3. inFlight'[i] = inFlight[i] BY <1>10, <4>1
        <4> QED BY <4>2, <4>3
      <3> QED BY <3>1, <3>2
    <2>3. \A i \in DOMAIN inFlight' : {"outputs", "scene"} \subseteq inFlight'[i].has
      BY <1>1, <1>9, <2>2 DEF FlightInv
    <2>4. \A i, j \in DOMAIN inFlight' : i # j => inFlight'[i].context # inFlight'[j].context
      BY <1>1, <1>9, <2>1, <2>2 DEF FlightInv
    <2> QED BY <1>2, <2>3, <2>4 DEF FlightInv
  <1>12. context' \in 0 .. Contexts - 1 BY <1>2, <1>3, FrameAssumption
  <1>13. events' \in 0 .. MaxEvents
    <2>1. events \in 0 .. MaxEvents BY <1>1 DEF TypeOK
    <2>2. events' = events \/ (events > 0 /\ events' = events - 1) BY <1>2 DEF Event
    <2> QED BY <2>1, <2>2, FrameAssumption
  <1>14. frame' \in FrameStates BY <1>2 DEF FrameStates, NoFrame
  <1>15. TypeOK' BY <1>1, <1>2, <1>5, <1>10, <1>12, <1>13, <1>14 DEF TypeOK
  <1> QED BY <1>8, <1>11, <1>15 DEF Inv

LEMMA FrameFinishesStep ==
  ASSUME Inv, FrameFinishes
  PROVE  Inv'
  <1>1. TypeOK /\ FlightInv /\ OutputsInv /\ HistoryInv BY DEF Inv
  <1>2. /\ inFlight # << >> /\ inFlight' = Tail(inFlight)
        /\ UNCHANGED <<phase, resize, refresh, settings, nrd, history, preserve, seenView,
                       outputs, context, frame, stale, unsaid, events>>
    BY DEF FrameFinishes
  <1>3. inFlight \in Seq(FlightFrames) BY <1>1 DEF TypeOK
  <1>4. /\ inFlight' \in Seq(FlightFrames) /\ Len(inFlight') = Len(inFlight) - 1
        /\ \A i \in 1 .. Len(inFlight') : inFlight'[i] = inFlight[i + 1]
    BY <1>2, <1>3, HeadTailProperties
  <1>5. /\ DOMAIN inFlight' = 1 .. Len(inFlight') /\ DOMAIN inFlight = 1 .. Len(inFlight)
        /\ Len(inFlight) \in Nat /\ Len(inFlight') \in Nat
    BY <1>3, <1>4, LenProperties
  <1>6. \A i \in DOMAIN inFlight' :
          i + 1 \in DOMAIN inFlight /\ inFlight'[i] = inFlight[i + 1] /\ i \in Nat
    BY <1>4, <1>5
  <1>7. FlightInv'
    <2>1. \A i \in DOMAIN inFlight' : {"outputs", "scene"} \subseteq inFlight'[i].has
      BY <1>1, <1>6 DEF FlightInv
    <2>2. \A i, j \in DOMAIN inFlight' : i # j => inFlight'[i].context # inFlight'[j].context
      <3> TAKE i, j \in DOMAIN inFlight'
      <3> HAVE i # j
      <3>1. i + 1 # j + 1 BY <1>6
      <3> QED BY <1>1, <1>6, <3>1 DEF FlightInv
    <2>3. (phase = "render" => ContextIsFree)' BY <1>1, <1>2, <1>6 DEF FlightInv, ContextIsFree
    <2> QED BY <2>1, <2>2, <2>3 DEF FlightInv
  <1>8. TypeOK' BY <1>1, <1>2, <1>4 DEF TypeOK
  <1>9. OutputsInv' BY <1>1, <1>2 DEF OutputsInv, PassesFindTheirs
  <1>10. HistoryInv'
    BY <1>1, <1>2 DEF HistoryInv, Promised, HistoryIsCurrent
  <1> QED BY <1>7, <1>8, <1>9, <1>10 DEF Inv

LEMMA FramesStep ==
  ASSUME Inv, Frames
  PROVE  Inv'
  BY BuildFrameStep, RenderFrameStep, FrameFinishesStep DEF Frames

LEMMA StutterStep ==
  ASSUME Inv, UNCHANGED vars
  PROVE  Inv'
  <1>1. TypeOK /\ FlightInv /\ OutputsInv /\ HistoryInv BY DEF Inv
  <1>2. /\ phase' = phase /\ resize' = resize /\ refresh' = refresh /\ settings' = settings
        /\ nrd' = nrd /\ history' = history /\ preserve' = preserve /\ seenView' = seenView
        /\ outputs' = outputs /\ context' = context /\ inFlight' = inFlight /\ frame' = frame
        /\ stale' = stale /\ unsaid' = unsaid /\ events' = events
    BY DEF vars
  <1>3. TypeOK' BY <1>1, <1>2 DEF TypeOK
  <1>4. FlightInv' BY <1>1, <1>2, FlightSame
  <1>5. OutputsInv' BY <1>1, <1>2 DEF OutputsInv, PassesFindTheirs
  <1>6. HistoryInv' BY <1>1, <1>2 DEF HistoryInv, Promised, HistoryIsCurrent
  <1> QED BY <1>3, <1>4, <1>5, <1>6 DEF Inv

-----------------------------------------------------------------------------
(* The theorems.                                                           *)

\* The inductive invariant: in flight, frames hold what they use; resources are
\* there for what the settings run; and no change that the program describes or
\* compares, and no frame that did not write, outdates what a frame may mix.
THEOREM Invariant == Spec => []Inv
  <1>1. Init => Inv BY InitInv
  <1>2. Inv /\ [Next]_vars => Inv'
    BY CommandsStep, UpdatesStep, ToolsStep, FramesStep, StutterStep DEF Next
  <1> QED BY <1>1, <1>2, PTL DEF Spec

\* Every variable keeps its type (the members of D3D12PathTracingBackend).
THEOREM TypeCorrect == Spec => []TypeOK
  <1>1. Inv => TypeOK BY DEF Inv
  <1> QED BY <1>1, Invariant, PTL

\* The GPU keeps what a submitted frame uses until it has finished it, and the
\* context of the next frame is free (WaitForPreviousFrame, WaitForFrameContext).
THEOREM FramesAlwaysKeepTheirs == Spec => []FramesKeepTheirs
  <1>1. Inv => FramesKeepTheirs BY DEF Inv, FlightInv, FramesKeepTheirs
  <1> QED BY <1>1, Invariant, PTL

\* Every pass of a frame finds the resources it reads and writes made for it
\* (CreateOutputResources and its callers).
THEOREM PassesAlwaysFindTheirs == Spec => []PassesFindTheirs
  <1>1. Inv => PassesFindTheirs BY DEF Inv, OutputsInv
  <1> QED BY <1>1, Invariant, PTL

\* No frame mixes a history that a later change has outdated or the frame before
\* did not write, but for what only the silent changes outdate: those that
\* HistoryIsCurrent names (HistoryDomainsForChange and its callers).
THEOREM HistoryAlwaysCurrent == Spec => []HistoryIsCurrent
  <1>1. Inv => HistoryIsCurrent BY DEF Inv, HistoryInv
  <1> QED BY <1>1, Invariant, PTL

=============================================================================
