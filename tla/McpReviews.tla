---------------------------- MODULE McpReviews ----------------------------
\* Captures, comparisons and scene reviews of the MCP server
\* (D3D12PathTracingBackend.cpp).  Worker threads of the server start, cancel
\* and compare; the render thread stores captures, drives the one active review
\* frame by frame and stops the server; the GPU and an encoding task work
\* between its frames.  All of it is shared under m_mcpSnapshotMutex, so a
\* critical section is one action.
\*
\* A capture or comparison is named for its accessSerial, which grows with its
\* id and is never touched again.  A review is named for its id.  Bytes of an
\* image are a weight.
EXTENDS Naturals, Sequences, FiniteSets

CONSTANTS Views,         \* views of a preset
          KeptReviews,   \* reviews the history keeps (32)
          MaxImages,     \* MaximumImageCount
          MaxBytes,      \* MaximumArtifactBytes
          CaptureBytes,  \* weight of a capture
          HeatmapBytes,  \* weight of a comparison
          MaxReviews,    \* bound on the reviews started
          MaxRequests,   \* bound on viewport captures and comparisons asked for
          MaxStops       \* bound on stops of the server

ASSUME ReviewsAssumption ==
  /\ Views \in Nat \ {0} /\ KeptReviews \in Nat \ {0}
  /\ MaxReviews \in Nat /\ MaxRequests \in Nat /\ MaxStops \in Nat

\* No capture is larger than the whole budget (README, known limits).
ASSUME SizesAssumption ==
  /\ MaxImages \in Nat \ {0} /\ MaxBytes \in Nat
  /\ CaptureBytes \in 1 .. MaxBytes /\ HeatmapBytes \in Nat

VARIABLES
  captures,     \* m_mcpCaptures: pins, and of which review and view it is
  comparisons,  \* m_mcpComparisons
  serial,       \* m_mcpArtifactAccessSerial
  reviews,      \* m_mcpReviews
  nextReview,   \* m_nextMcpReviewId
  active,       \* m_activeMcpReviewId
  pipe,         \* m_pendingMcpReviewReadback and m_mcpReviewCaptureFuture
  render,       \* where the render thread is
  running,      \* the server runs
  slack,        \* history: a review gave up since the budget was enforced
  bounds        \* requests and stops left

vars == <<captures, comparisons, serial, reviews, nextReview, active, pipe, render,
          running, slack, bounds>>

None == 0
Terminal == {"completed", "failed", "cancelled"}
States == {"queued", "waiting", "capturing", "analyzing"} \union Terminal
Stages == {"empty", "copying", "copied", "encoding", "encoded", "broken"}
EmptyPipe == [stage |-> "empty", review |-> None, view |-> 0]

Shown(r) == {reviews[r].captures[i] : i \in DOMAIN reviews[r].captures}
Baseline(r) == {reviews[r].baseline} \ {None}

\* What a review pins while it is active, and what it refers to for ever.
Pinned(r) == Shown(r) \union Baseline(r)
Artifacts(r) == Pinned(r) \union ({reviews[r].comparison} \ {None})

---------------------------------------------------------------------------
\* EnforceMcpArtifactBudget

Fits(caps, comps) ==
  /\ Cardinality(caps) + Cardinality(comps) <= MaxImages
  /\ CaptureBytes * Cardinality(caps) + HeatmapBytes * Cardinality(comps) <= MaxBytes

\* Comparisons are never pinned.
Evictable(caps, comps) == {a \in DOMAIN caps : caps[a].pins = 0} \union comps

\* Mutant: one image only.
EvictedOldest(caps, comps) ==
  IF Fits(DOMAIN caps, comps) THEN {}
  ELSE {a \in Evictable(caps, comps) : \A b \in Evictable(caps, comps) : a <= b}

\* Oldest first, until the rest fits or only pinned captures are left.
Evicted(caps, comps) ==
  LET free == Evictable(caps, comps)
      UpTo(n) == {a \in free : a <= n}
      enough == {n \in free \union {0} :
                   Fits(DOMAIN caps \ UpTo(n), comps \ UpTo(n))}
  IN IF enough = {} THEN free
     ELSE UpTo(CHOOSE n \in enough : \A m \in enough : n <= m)

\* Mutant: a baseline that is evicted goes unnoticed.
LosesShown(v, out) ==
  \/ \E i \in DOMAIN v.captures : v.captures[i] \in out
  \/ v.comparison \in out

\* A review refers to something that is evicted.
Loses(v, out) ==
  \/ \E i \in DOMAIN v.captures : v.captures[i] \in out
  \/ v.baseline \in out
  \/ v.comparison \in out

\* Stores these captures, comparisons and reviews within the budget; a review
\* that loses an artifact is marked.
Settle(caps, comps, revs) ==
  \E out \in {Evicted(caps, comps)} :
    /\ captures' = [a \in DOMAIN caps \ out |-> caps[a]]
    /\ comparisons' = comps \ out
    /\ reviews' = [r \in DOMAIN revs |->
                     [revs[r] EXCEPT !.evicted = @ \/ Loses(revs[r], out)]]
    /\ slack' = FALSE

\* The captures when a review gives back its pins.
Released(r) ==
  [a \in DOMAIN captures |->
     IF a \in Pinned(r) /\ captures[a].pins # 0
     THEN [captures[a] EXCEPT !.pins = @ - 1] ELSE captures[a]]

With(r, state) == [reviews EXCEPT ![r].state = state]

\* The end of the active review, within the budget.
Finish(state) ==
  /\ Settle(Released(active), comparisons, With(active, state))
  /\ active' = None

\* Mutant: the pins stay.
GiveUpPinned(r) ==
  /\ reviews' = With(r, "failed")
  /\ active' = None
  /\ slack' = TRUE
  /\ UNCHANGED <<captures, comparisons>>

\* A capture that failed ends the review too, and leaves the budget alone.
GiveUp(r) ==
  /\ captures' = Released(r)
  /\ reviews' = With(r, "failed")
  /\ active' = None
  /\ slack' = TRUE
  /\ UNCHANGED comparisons

---------------------------------------------------------------------------
Init ==
  /\ captures = <<>> /\ comparisons = {} /\ serial = 1
  /\ reviews = <<>> /\ nextReview = 1 /\ active = None
  /\ pipe = EmptyPipe
  /\ render = "idle" /\ running = TRUE
  /\ slack = FALSE
  /\ bounds = [requests |-> MaxRequests, stops |-> MaxStops]

Asked == bounds.requests > 0 /\ bounds' = [bounds EXCEPT !.requests = @ - 1]

\* Worker threads, as long as the server runs: start_review with or without a
\* baseline, which is pinned.
StartReview(base) ==
  /\ running /\ active = None /\ nextReview <= MaxReviews
  /\ base \in DOMAIN captures \union {None}
  /\ LET new == [state |-> "queued", baseline |-> base, captures |-> <<>>,
                 comparison |-> None, cancel |-> FALSE, late |-> FALSE, evicted |-> FALSE]
         kept == {r \in DOMAIN reviews : r + KeptReviews > nextReview}
     IN reviews' = [r \in kept \union {nextReview} |->
                      IF r = nextReview THEN new ELSE reviews[r]]
  /\ captures' = [a \in DOMAIN captures |->
                    IF a = base THEN [captures[a] EXCEPT !.pins = @ + 1] ELSE captures[a]]
  /\ active' = nextReview
  /\ nextReview' = nextReview + 1
  /\ UNCHANGED <<comparisons, serial, pipe, render, running, slack, bounds>>

\* cancel_review on a worker thread, or mcp.review.cancel on the render thread.
CancelReview ==
  /\ active # None /\ ~reviews[active].cancel
  /\ running \/ render = "idle"
  /\ reviews' = [reviews EXCEPT ![active].cancel = TRUE]
  /\ UNCHANGED <<captures, comparisons, serial, nextReview, active, pipe, render, running,
                 slack, bounds>>

\* compare_captures of two captures of one size.
Compare ==
  /\ running /\ DOMAIN captures # {} /\ Asked
  /\ Settle(captures, comparisons \union {serial}, reviews)
  /\ serial' = serial + 1
  /\ UNCHANGED <<nextReview, active, pipe, render, running>>

\* __capture_viewport, a command of the render thread.
CaptureViewport ==
  /\ running /\ render = "idle" /\ Asked
  /\ LET new == [pins |-> 0, review |-> None, view |-> 0]
     IN Settle([a \in DOMAIN captures \union {serial} |->
                  IF a = serial THEN new ELSE captures[a]], comparisons, reviews)
  /\ serial' = serial + 1
  /\ UNCHANGED <<nextReview, active, pipe, render, running>>

---------------------------------------------------------------------------
\* A frame of the render thread: PollMcpReviewCapture, then the active review.

ToAdvance == render = "idle" /\ render' = "advance"

PollNothing ==
  /\ ToAdvance
  /\ pipe.stage \in {"empty", "copying", "encoding"}
  /\ UNCHANGED <<captures, comparisons, serial, reviews, nextReview, active, pipe, running,
                 slack, bounds>>

\* The readback is mapped and handed to the encoding task.
PollCopied ==
  /\ ToAdvance
  /\ pipe.stage = "copied" /\ pipe' = [pipe EXCEPT !.stage = "encoding"]
  /\ UNCHANGED <<captures, comparisons, serial, reviews, nextReview, active, running, slack,
                 bounds>>

\* Mutant: any review that is still known takes it.
TakenWhileKnown == pipe.review \in DOMAIN reviews

\* Only the active review takes what was captured for it.
Taken == active = pipe.review

PollStale ==
  /\ ToAdvance
  /\ pipe.stage \in {"copied", "encoded", "broken"} /\ ~Taken
  /\ pipe' = EmptyPipe
  /\ UNCHANGED <<captures, comparisons, serial, reviews, nextReview, active, running, slack,
                 bounds>>

\* Mapping or encoding failed.
PollFailed ==
  /\ ToAdvance
  /\ pipe.stage \in {"copied", "broken"} /\ Taken
  /\ GiveUp(pipe.review)
  /\ pipe' = EmptyPipe
  /\ UNCHANGED <<serial, nextReview, running, bounds>>

PollStored ==
  /\ ToAdvance
  /\ pipe.stage = "encoded" /\ Taken
  /\ LET new == [pins |-> 1, review |-> pipe.review, view |-> pipe.view]
     IN Settle([a \in DOMAIN captures \union {serial} |->
                  IF a = serial THEN new ELSE captures[a]], comparisons,
               [reviews EXCEPT ![pipe.review].captures = Append(@, serial)])
  /\ serial' = serial + 1
  /\ pipe' = EmptyPipe
  /\ UNCHANGED <<nextReview, active, running, bounds>>

\* ProcessMcpReview after the poll.
Idles == render = "advance" /\ render' = "idle"

NoReview ==
  /\ Idles /\ active = None
  /\ UNCHANGED <<captures, comparisons, serial, reviews, nextReview, active, pipe, running,
                 slack, bounds>>

Working == active # None /\ ~reviews[active].cancel /\ ~reviews[active].late
In(state) == Working /\ reviews[active].state = state

Cancelled ==
  /\ Idles /\ active # None /\ reviews[active].cancel
  /\ Finish("cancelled")
  /\ UNCHANGED <<serial, nextReview, pipe, running, bounds>>

\* Mutant: the deadline counts for the scene only.
FailsWaiting ==
  /\ Idles /\ active # None /\ ~reviews[active].cancel
  /\ reviews[active].state = "waiting"
  /\ Finish("failed")
  /\ UNCHANGED <<serial, nextReview, pipe, running, bounds>>

\* The deadline has passed, or the scene of a waiting review did not load.
Fails ==
  /\ Idles /\ active # None /\ ~reviews[active].cancel
  /\ reviews[active].late \/ reviews[active].state = "waiting"
  /\ Finish("failed")
  /\ UNCHANGED <<serial, nextReview, pipe, running, bounds>>

\* To the next state: waiting for scene and settling, capturing, analyzing.
Advances(from, to) ==
  /\ Idles /\ In(from)
  /\ reviews' = With(active, to)
  /\ UNCHANGED <<captures, comparisons, serial, nextReview, active, pipe, running, slack, bounds>>

AllViews == Len(reviews[active].captures) = Views

\* The scene is not ready, or the capture is still under way.
Waits ==
  /\ Idles
  /\ \/ In("waiting")
     \/ In("capturing") /\ pipe.stage # "empty"
  /\ UNCHANGED <<captures, comparisons, serial, reviews, nextReview, active, pipe, running,
                 slack, bounds>>

Begins ==
  /\ render = "advance" /\ render' = "begin"
  /\ In("capturing") /\ pipe.stage = "empty" /\ ~AllViews
  /\ UNCHANGED <<captures, comparisons, serial, reviews, nextReview, active, pipe, running,
                 slack, bounds>>

Analyzed ==
  /\ Idles /\ In("analyzing")
  /\ LET v == reviews[active]
         missing == v.baseline # None /\ ~{v.baseline, v.captures[1]} \subseteq DOMAIN captures
     IN \/ /\ v.baseline = None
           /\ Finish("completed")
           /\ UNCHANGED serial
        \/ /\ v.baseline # None /\ ~missing
           /\ Settle(Released(active), comparisons \union {serial},
                     [reviews EXCEPT ![active].comparison = serial,
                                     ![active].state = "completed"])
           /\ active' = None /\ serial' = serial + 1
        \/ \* an artifact is gone, or the images differ in size
           /\ v.baseline # None
           /\ Settle(Released(active), comparisons,
                     [reviews EXCEPT ![active].state = "failed",
                                     ![active].evicted = @ \/ missing])
           /\ active' = None
           /\ UNCHANGED serial
  /\ UNCHANGED <<nextReview, pipe, running, bounds>>

\* BeginMcpReviewCapture: a copy to a readback buffer is queued, or cannot be.
Copies(ok) ==
  /\ render = "begin" /\ render' = "idle"
  /\ IF ok
     THEN /\ pipe' = [stage |-> "copying", review |-> active,
                      view |-> Len(reviews[active].captures) + 1]
          /\ UNCHANGED <<captures, comparisons, reviews, active, slack>>
     ELSE GiveUp(active) /\ UNCHANGED pipe
  /\ UNCHANGED <<serial, nextReview, running, bounds>>

\* The fence is reached; the encoding task ends.
GpuCopies ==
  /\ pipe.stage = "copying" /\ pipe' = [pipe EXCEPT !.stage = "copied"]
  /\ UNCHANGED <<captures, comparisons, serial, reviews, nextReview, active, render, running,
                 slack, bounds>>

Encodes(ok) ==
  /\ pipe.stage = "encoding"
  /\ pipe' = [pipe EXCEPT !.stage = IF ok THEN "encoded" ELSE "broken"]
  /\ UNCHANGED <<captures, comparisons, serial, reviews, nextReview, active, render, running,
                 slack, bounds>>

DeadlinePasses ==
  /\ active # None /\ ~reviews[active].late
  /\ reviews' = [reviews EXCEPT ![active].late = TRUE]
  /\ UNCHANGED <<captures, comparisons, serial, nextReview, active, pipe, render, running,
                 slack, bounds>>

\* StopMcpServer cancels the active review before it joins the workers, which
\* may start another one in between.
StopServer ==
  /\ running /\ render = "idle" /\ render' = "stopping"
  /\ bounds.stops > 0 /\ bounds' = [bounds EXCEPT !.stops = @ - 1]
  /\ IF active # None
     THEN Finish("cancelled")
     ELSE UNCHANGED <<captures, comparisons, reviews, active, slack>>
  /\ UNCHANGED <<serial, nextReview, pipe, running>>

ServerStopped ==
  /\ render = "stopping" /\ render' = "idle"
  /\ running' = FALSE
  /\ UNCHANGED <<captures, comparisons, serial, reviews, nextReview, active, pipe, slack, bounds>>

StartServer ==
  /\ ~running /\ render = "idle" /\ running' = TRUE
  /\ UNCHANGED <<captures, comparisons, serial, reviews, nextReview, active, pipe, render,
                 slack, bounds>>

Frame ==
  \/ PollNothing \/ PollCopied \/ PollStale \/ PollFailed \/ PollStored
  \/ NoReview \/ Cancelled \/ Fails \/ Waits \/ Begins \/ Analyzed
  \/ Advances("queued", "waiting")
  \/ Advances("waiting", "capturing")
  \/ pipe.stage = "empty" /\ In("capturing") /\ AllViews /\ Advances("capturing", "analyzing")
  \/ \E ok \in BOOLEAN : Copies(ok)
  \/ ServerStopped

Next ==
  \/ \E base \in DOMAIN captures \union {None} : StartReview(base)
  \/ CancelReview \/ Compare \/ CaptureViewport
  \/ Frame
  \/ GpuCopies
  \/ \E ok \in BOOLEAN : Encodes(ok)
  \/ DeadlinePasses
  \/ StopServer \/ StartServer

\* The render loop goes on, and clocks run.  The GPU, the encoding task, the
\* scene and the clients need not.
Spec == Init /\ [][Next]_vars /\ WF_vars(Frame) /\ WF_vars(DeadlinePasses)

---------------------------------------------------------------------------
TypeOK ==
  /\ serial \in Nat \ {0} /\ nextReview \in Nat \ {0}
  /\ \E A \in SUBSET Nat :
       captures \in [A -> [pins : Nat, review : Nat, view : Nat]]
  /\ comparisons \subseteq Nat
  /\ \E R \in SUBSET Nat :
       reviews \in [R -> [state : States, baseline : Nat, captures : Seq(Nat),
                          comparison : Nat, cancel : BOOLEAN, late : BOOLEAN,
                          evicted : BOOLEAN]]
  /\ active \in DOMAIN reviews \union {None}
  /\ pipe \in [stage : Stages, review : Nat, view : Nat]
  /\ render \in {"idle", "advance", "begin", "stopping"}
  /\ running \in BOOLEAN /\ slack \in BOOLEAN
  /\ bounds \in [requests : Nat, stops : Nat]

\* A capture is pinned once by the active review that shows it or compares with
\* it, and by nobody else: no path by which a review ends keeps a pin, takes one
\* twice, or takes one of another review (the decrements at :5945, :8031, :8157
\* and :8511 are guarded against zero, which would hide the mistake).
PinsMatchReview ==
  /\ active # None => Pinned(active) \subseteq DOMAIN captures
  /\ \A a \in DOMAIN captures :
       captures[a].pins = IF active # None /\ a \in Pinned(active) THEN 1 ELSE 0

\* get_review says artifact_evicted as soon as one of a review's images is gone;
\* until then they all exist, and the n-th capture shows the n-th view and was
\* taken for this review (BuildMcpReviewJson pairs them by position).
ReviewsAreTrue ==
  \A r \in DOMAIN reviews : LET v == reviews[r] IN
    /\ ~v.evicted => Artifacts(r) \subseteq DOMAIN captures \union comparisons
    /\ \A i \in DOMAIN v.captures : v.captures[i] \in DOMAIN captures =>
         captures[v.captures[i]].review = r /\ captures[v.captures[i]].view = i

\* A review that ended is never changed again: neither a late readback nor a
\* late cancellation, nor the next review, adds to it or revives it.
FinishedReviewsStay ==
  [][\A r \in DOMAIN reviews \intersect DOMAIN reviews' :
       reviews[r].state \in Terminal =>
         reviews'[r] = [reviews[r] EXCEPT !.evicted = reviews'[r].evicted]]_vars

\* Images are over the budget only as far as the active review pins them, or
\* since one of its captures failed, which releases pins and evicts nothing.
BudgetIsKept ==
  \/ slack
  \/ Fits(DOMAIN captures, comparisons)
  \/ Evictable(captures, comparisons) = {}

\* Every review ends, whatever the scene, the GPU, the encoder and the clients
\* do, and also when the server stops in the middle of its start.
ReviewEnds == \A r \in 1 .. MaxReviews : active = r ~> active # r

\* Images stay while a review pins them, and no longer than the budget allows.
ArtifactsAreKept == PinsMatchReview /\ BudgetIsKept

\* A review ends, and has then ended for good.
ReviewsEndForGood == FinishedReviewsStay /\ ReviewEnds
=============================================================================
