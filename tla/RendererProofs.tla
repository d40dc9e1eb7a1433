---------------------------- MODULE RendererProofs ----------------------------
\* Safety of RendererController for any properties and any number of commands:
\* the coalescing queue keeps the order of the edits that matters, the closed
\* gate lets at most one frame through, and a detached swap chain gets none.
EXTENDS RendererController, SequenceTheorems, TLAPS

\* Where the renderer thread has failed or ended: it takes no command any more.
Ended == {"failed", "failFlags", "done"}

\* A batch is empty unless it is being applied or its owner failed, and the
\* commands are numbered by their making.
QueueInv ==
  /\ batch # << >> => render \in {"apply"} \cup Ended
  /\ \A i \in DOMAIN batch : batch[i].value <= count
  /\ \A i \in DOMAIN commands : commands[i].value <= count

\* A renderer that has submitted its one frame since the gate was closed looks
\* at the gate before it submits another.
FrameInv ==
  gate => /\ frames <= 1
          /\ frames = 1 /\ ~paused => render \notin {"drain", "apply", "update", "render"}

\* A loop that said it has stopped does not run again, and the UI thread detaches
\* only after it was told so.
LoopInv ==
  /\ loopStopped \/ threadFinished => render \in {"waitDetach", "destroy", "finish"} \cup Ended
  /\ ui \in {"detach", "join", "gone"} => loopStopped \/ threadFinished

Inv == TypeOK /\ QueueInv /\ FrameInv /\ LoopInv /\ EditsKeepTheirOrder
-----------------------------------------------------------------------------
(* What pending commands lead to, for any sequence of them.                *)

\* LeadsTo, and the property about all edits, of a sequence p of commands and
\* the values the renderer has applied.
Reaches(p, start, key, n, value) ==
  /\ (\A i \in 1..n : p[i].key # key) => start = value
  /\ \A i \in 1..n :
       p[i].key = key /\ (\A j \in (i + 1)..n : p[j].key # key) => p[i].value = value

Ordered(p, start, last, before) ==
  /\ \A key \in Keys : Reaches(p, start[key], key, Len(p), last[key])
  /\ \A n \in 1..Len(p) : p[n].key = Barrier =>
       \A key \in Keys : Reaches(p, start[key], key, n - 1, before[p[n].value][key])

LEMMA EditsAreOrdered ==
  EditsKeepTheirOrder <=>
    (bench # "ended" /\ render \notin Ended => Ordered(Pending, applied, wanted, wantedAt))
  BY DEF EditsKeepTheirOrder, Ended, Ordered, Reaches, LeadsTo

LEMMA EditsAreOrderedNext ==
  EditsKeepTheirOrder' <=>
    (bench' # "ended" /\ render' \notin Ended =>
       Ordered(batch' \o commands', applied', wanted', wantedAt'))
  BY DEF EditsKeepTheirOrder, Ended, Ordered, Reaches, LeadsTo, Pending

\* Applying the first command leaves the rest where it was.
LEMMA ReachesTail ==
  ASSUME NEW p, NEW q, NEW n \in Nat, NEW key, NEW start, NEW next, NEW value,
         \A i \in 1..n : q[i] = p[i + 1],
         next = IF p[1].key = key THEN p[1].value ELSE start,
         Reaches(p, start, key, n + 1, value)
  PROVE  Reaches(q, next, key, n, value)
  <1>1. (\A i \in 1..n : q[i].key # key) => next = value
    <2> HAVE \A i \in 1..n : q[i].key # key
    <2>1. \A j \in 2..(n + 1) : j - 1 \in 1..n /\ p[j] = q[j - 1]
      OBVIOUS
    <2>2. \A j \in 2..(n + 1) : p[j].key # key
      BY <2>1
    <2>3. CASE p[1].key = key
      <3>1. 1 \in 1..(n + 1) /\ \A j \in (1 + 1)..(n + 1) : p[j].key # key BY <2>2
      <3> QED BY <2>3, <3>1 DEF Reaches
    <2>4. CASE p[1].key # key
      <3>1. \A j \in 1..(n + 1) : j = 1 \/ j \in 2..(n + 1) OBVIOUS
      <3>2. \A j \in 1..(n + 1) : p[j].key # key BY <2>2, <2>4, <3>1
      <3> QED BY <2>4, <3>2 DEF Reaches
    <2> QED BY <2>3, <2>4
  <1>2. ASSUME NEW i \in 1..n, q[i].key = key, \A j \in (i + 1)..n : q[j].key # key
        PROVE  q[i].value = value
    <2>1. i + 1 \in 1..(n + 1) /\ p[i + 1].key = key BY <1>2
    <2>2. \A j \in (i + 1 + 1)..(n + 1) : j - 1 \in (i + 1)..n /\ j - 1 \in 1..n /\ p[j] = q[j - 1]
      OBVIOUS
    <2>3. \A j \in (i + 1 + 1)..(n + 1) : p[j].key # key BY <1>2, <2>2
    <2>4. p[i + 1].value = value BY <2>1, <2>3 DEF Reaches
    <2> QED BY <2>4
  <1> QED BY <1>1, <1>2 DEF Reaches

\* A sequence with the same first n commands leads there too.
LEMMA ReachesSame ==
  ASSUME NEW p, NEW q, NEW n \in Int, NEW key, NEW start, NEW value,
         \A i \in 1..n : q[i] = p[i],
         Reaches(p, start, key, n, value)
  PROVE  Reaches(q, start, key, n, value)
  BY DEF Reaches

\* Appending or replacing the last command of a key leads to its value.
LEMMA ReachesLast ==
  ASSUME NEW q, NEW n \in Nat, NEW m \in 1..n, NEW key, NEW start, NEW value,
         q[m].key = key, q[m].value = value,
         \A j \in (m + 1)..n : q[j].key # key
  PROVE  Reaches(q, start, key, n, value)
  <1>1. ~ \A i \in 1..n : q[i].key # key OBVIOUS
  <1>2. ASSUME NEW i \in 1..n, q[i].key = key, \A j \in (i + 1)..n : q[j].key # key
        PROVE  q[i].value = value
    <2>1. ~ (i < m) BY <1>2
    <2>2. ~ (m < i) BY <1>2
    <2>3. i = m BY <2>1, <2>2
    <2> QED BY <2>3
  <1> QED BY <1>1, <1>2 DEF Reaches

\* Commands of other keys change nothing: one more of them, or another value.
LEMMA ReachesOther ==
  ASSUME NEW p, NEW q, NEW n \in Nat, NEW m \in Nat, n <= m, NEW key, NEW start, NEW value,
         \A i \in 1..n : q[i] = p[i] \/ (p[i].key # key /\ q[i].key # key),
         \A i \in (n + 1)..m : q[i].key # key,
         Reaches(p, start, key, n, value)
  PROVE  Reaches(q, start, key, m, value)
  <1>1. (\A i \in 1..m : q[i].key # key) => start = value
    <2> HAVE \A i \in 1..m : q[i].key # key
    <2>1. \A i \in 1..n : i \in 1..m OBVIOUS
    <2>2. \A i \in 1..n : p[i].key # key BY <2>1
    <2> QED BY <2>2 DEF Reaches
  <1>2. ASSUME NEW i \in 1..m, q[i].key = key, \A j \in (i + 1)..m : q[j].key # key
        PROVE  q[i].value = value
    <2>1. i \in 1..n /\ q[i] = p[i] BY <1>2
    <2>2. \A j \in (i + 1)..n : j \in (i + 1)..m /\ j \in 1..n BY <2>1
    <2>3. \A j \in (i + 1)..n : p[j].key # key BY <1>2, <2>2
    <2> QED BY <1>2, <2>1, <2>3 DEF Reaches
  <1> QED BY <1>1, <1>2 DEF Reaches

LEMMA OrderedTail ==
  ASSUME NEW p \in Seq(Commands), NEW q \in Seq(Commands), NEW start, NEW next, NEW last,
         NEW before,
         Len(p) = Len(q) + 1,
         \A i \in 1..Len(q) : q[i] = p[i + 1],
         \A key \in Keys :
           next[key] = IF p[1].key = key THEN p[1].value ELSE start[key],
         Ordered(p, start, last, before)
  PROVE  Ordered(q, next, last, before)
  <1>1. Len(q) \in Nat OBVIOUS
  <1>2. ASSUME NEW key \in Keys PROVE Reaches(q, next[key], key, Len(q), last[key])
    <2>1. Reaches(p, start[key], key, Len(q) + 1, last[key]) BY DEF Ordered
    <2> QED BY <1>1, <2>1, ReachesTail
  <1>3. ASSUME NEW n \in 1..Len(q), q[n].key = Barrier, NEW key \in Keys
        PROVE  Reaches(q, next[key], key, n - 1, before[q[n].value][key])
    <2> DEFINE m == n - 1
    <2> DEFINE value == before[q[n].value][key]
    <2>1. n + 1 \in 1..Len(p) /\ p[n + 1] = q[n] BY <1>1
    <2>2. Reaches(p, start[key], key, (n + 1) - 1, value) BY <1>3, <2>1 DEF Ordered
    <2>3. (n + 1) - 1 = m + 1 /\ m \in Nat OBVIOUS
    <2>4. \A i \in 1..m : q[i] = p[i + 1] BY <1>1
    <2>5. Reaches(p, start[key], key, m + 1, value) BY <2>2, <2>3
    <2>6. next[key] = IF p[1].key = key THEN p[1].value ELSE start[key] OBVIOUS
    <2> HIDE DEF m, value
    <2>7. Reaches(q, next[key], key, m, value) BY <2>3, <2>4, <2>5, <2>6, ReachesTail
    <2> QED BY <2>7 DEF m, value
  <1> QED BY <1>2, <1>3 DEF Ordered

\* What a new command changes of the values the user set: an edit sets its own,
\* a barrier remembers them all.
Numbered(c, n, last, last2, before, before2) ==
  /\ c.value = n
  /\ \A key \in Keys : last2[key] = IF c.key = key THEN n ELSE last[key]
  /\ \A k \in 1..(n - 1) : before2[k] = before[k]
  /\ c.key = Barrier => before2[n] = last

LEMMA OrderedAppend ==
  ASSUME NEW p \in Seq(Commands), NEW q \in Seq(Commands), NEW c \in Commands, NEW n \in Nat,
         NEW start, NEW last, NEW last2, NEW before, NEW before2,
         Len(q) = Len(p) + 1, q[Len(p) + 1] = c,
         \A i \in 1..Len(p) : q[i] = p[i] /\ p[i].value < n,
         Numbered(c, n, last, last2, before, before2),
         Ordered(p, start, last, before)
  PROVE  Ordered(q, start, last2, before2)
  <1> DEFINE m == Len(p) + 1
  <1>1. /\ Len(p) \in Nat /\ m \in Nat /\ Len(p) <= m /\ m \in 1..m /\ Len(q) = m
        /\ q[m] = c /\ m - 1 = Len(p)
        /\ \A i \in (Len(p) + 1)..m : i = m
        /\ \A i \in 1..m : i = m \/ i \in 1..Len(p)
    OBVIOUS
  <1> HIDE DEF m
  <1>3. ASSUME NEW key \in Keys PROVE Reaches(q, start[key], key, Len(q), last2[key])
    <2>1. CASE c.key = key
      <3>1. last2[key] = c.value BY <2>1 DEF Numbered
      <3>2. \A j \in (m + 1)..m : q[j].key # key BY <1>1
      <3>3. Reaches(q, start[key], key, m, c.value) BY <1>1, <2>1, <3>2, ReachesLast
      <3> QED BY <1>1, <3>1, <3>3
    <2>2. CASE c.key # key
      <3>1. last2[key] = last[key] BY <2>2 DEF Numbered
      <3>2. Reaches(p, start[key], key, Len(p), last[key]) BY DEF Ordered
      <3>3. \A i \in (Len(p) + 1)..m : q[i].key # key BY <1>1, <2>2
      <3>4. \A i \in 1..Len(p) : q[i] = p[i] \/ (p[i].key # key /\ q[i].key # key)
        OBVIOUS
      <3> DEFINE k == Len(p)
      <3> DEFINE first == start[key]
      <3> DEFINE value == last[key]
      <3>5. /\ k \in Nat /\ m \in Nat /\ k <= m /\ Reaches(p, first, key, k, value)
            /\ \A i \in 1..k : q[i] = p[i] \/ (p[i].key # key /\ q[i].key # key)
            /\ \A i \in (k + 1)..m : q[i].key # key
        BY <1>1, <3>2, <3>3, <3>4
      <3> HIDE DEF k, first, value
      <3>6. Reaches(q, first, key, m, value) BY <3>5, ReachesOther
      <3> QED BY <1>1, <3>1, <3>6 DEF first, value
    <2> QED BY <2>1, <2>2
  <1>4. ASSUME NEW k \in 1..m, q[k].key = Barrier, NEW key \in Keys
        PROVE  Reaches(q, start[key], key, k - 1, before2[q[k].value][key])
    <2> DEFINE value == before2[q[k].value][key]
    <2>1. \A i \in 1..(k - 1) : i \in 1..Len(p) BY <1>1
    <2>2. \A i \in 1..(k - 1) : q[i] = p[i] BY <2>1
    <2>3. Reaches(p, start[key], key, k - 1, value)
      <3>1. CASE k = m
        <4>1. value = last[key] BY <1>1, <1>4, <3>1 DEF Numbered
        <4>2. Reaches(p, start[key], key, Len(p), last[key]) BY DEF Ordered
        <4> QED BY <1>1, <3>1, <4>1, <4>2
      <3>2. CASE k # m
        <4>1. k \in 1..Len(p) /\ q[k] = p[k] BY <1>1, <3>2
        <4>2. p[k] \in Commands BY <4>1, ElementOfSeq
        <4>3. p[k].value \in 1..(n - 1) BY <4>1, <4>2 DEF Commands
        <4>4. value = before[p[k].value][key] BY <4>1, <4>3 DEF Numbered
        <4>5. Reaches(p, start[key], key, k - 1, before[p[k].value][key])
          BY <1>4, <4>1 DEF Ordered
        <4> QED BY <4>4, <4>5
      <3> QED BY <3>1, <3>2
    <2>4. k - 1 \in Int BY <1>1
    <2> HIDE DEF value
    <2>5. Reaches(q, start[key], key, k - 1, value) BY <2>2, <2>3, <2>4, ReachesSame
    <2> QED BY <2>5 DEF value
  <1> QED BY <1>1, <1>3, <1>4 DEF Ordered

LEMMA OrderedReplace ==
  ASSUME NEW p \in Seq(Commands), NEW q \in Seq(Commands), NEW c \in Commands, NEW n \in Nat,
         NEW m \in 1..Len(p), NEW start, NEW last, NEW last2, NEW before, NEW before2,
         Len(q) = Len(p), q[m] = c, c.key = p[m].key, c.key # Barrier,
         \A i \in 1..Len(p) : i # m => q[i] = p[i],
         \A i \in 1..Len(p) : p[i].value < n,
         \A i \in m..Len(p) : p[i].key # Barrier,
         \A i \in (m + 1)..Len(p) : p[i].key # c.key,
         Numbered(c, n, last, last2, before, before2),
         Ordered(p, start, last, before)
  PROVE  Ordered(q, start, last2, before2)
  <1>1. Len(p) \in Nat /\ m \in Nat OBVIOUS
  <1>2. \A i \in 1..Len(p) : q[i].key = p[i].key OBVIOUS
  <1>3. ASSUME NEW key \in Keys PROVE Reaches(q, start[key], key, Len(q), last2[key])
    <2>1. CASE c.key = key
      <3>1. last2[key] = c.value BY <2>1 DEF Numbered
      <3>2. \A j \in (m + 1)..Len(p) : j \in 1..Len(p) BY <1>1
      <3>3. \A j \in (m + 1)..Len(p) : q[j].key # key BY <1>2, <2>1, <3>2
      <3>4. Reaches(q, start[key], key, Len(p), c.value)
        BY <1>1, <2>1, <3>3, ReachesLast
      <3> QED BY <3>1, <3>4
    <2>2. CASE c.key # key
      <3>1. last2[key] = last[key] BY <2>2 DEF Numbered
      <3>2. Reaches(p, start[key], key, Len(p), last[key]) BY DEF Ordered
      <3>3. \A i \in 1..Len(p) : q[i] = p[i] \/ (p[i].key # key /\ q[i].key # key)
        BY <1>2, <2>2
      <3>4. \A i \in (Len(p) + 1)..Len(p) : q[i].key # key BY <1>1
      <3> DEFINE k == Len(p)
      <3> DEFINE first == start[key]
      <3> DEFINE value == last[key]
      <3>5. /\ k \in Nat /\ k <= k /\ Reaches(p, first, key, k, value)
            /\ \A i \in 1..k : q[i] = p[i] \/ (p[i].key # key /\ q[i].key # key)
            /\ \A i \in (k + 1)..k : q[i].key # key
        BY <1>1, <3>2, <3>3, <3>4
      <3> HIDE DEF k, first, value
      <3>6. Reaches(q, first, key, k, value) BY <3>5, ReachesOther
      <3> QED BY <3>1, <3>6 DEF k, first, value
    <2> QED BY <2>1, <2>2
  <1>4. ASSUME NEW k \in 1..Len(q), q[k].key = Barrier, NEW key \in Keys
        PROVE  Reaches(q, start[key], key, k - 1, before2[q[k].value][key])
    <2> DEFINE value == before2[q[k].value][key]
    <2>1. k < m BY <1>1, <1>2, <1>4
    <2>2. \A i \in 1..(k - 1) : i \in 1..Len(p) /\ i # m BY <1>1, <2>1
    <2>3. \A i \in 1..(k - 1) : q[i] = p[i] BY <2>2
    <2>4. k \in 1..Len(p) /\ q[k] = p[k] BY <2>1
    <2>5. p[k] \in Commands BY <2>4, ElementOfSeq
    <2>6. p[k].value \in 1..(n - 1) BY <2>4, <2>5 DEF Commands
    <2>7. value = before[p[k].value][key] BY <2>4, <2>6 DEF Numbered
    <2>8. Reaches(p, start[key], key, k - 1, value) BY <1>4, <2>4, <2>7 DEF Ordered
    <2>9. k - 1 \in Int BY <1>1
    <2> HIDE DEF value
    <2>10. Reaches(q, start[key], key, k - 1, value) BY <2>3, <2>8, <2>9, ReachesSame
    <2> QED BY <2>10 DEF value
  <1> QED BY <1>3, <1>4 DEF Ordered
-----------------------------------------------------------------------------
(* The steps.                                                              *)

LEMMA InitInv == Init => Inv
  <1> SUFFICES ASSUME Init PROVE Inv OBVIOUS
  <1> USE RendererAssumption DEF Init
  <1>1. batch \in Seq(Commands) /\ commands \in Seq(Commands) /\ Len(batch) = 0
    BY EmptySeq
  <1>2. Pending = << >> /\ Len(Pending) = 0 BY <1>1, ConcatEmptySeq DEF Pending
  <1>3. Unset \in Settings BY DEF Unset, Settings, Values
  <1>4. Coalesced BY <1>1 DEF Coalesced
  <1>5. TypeOK
    <2>1. /\ wanted \in Settings /\ applied \in Settings /\ saved \in Settings
          /\ checkpoint \in Settings /\ wantedAt \in [1..MaxCommands -> Settings]
      BY <1>3
    <2>2. count \in Values /\ frames \in Nat BY DEF Values
    <2>3. ui \in UiSteps /\ render \in RenderSteps BY DEF UiSteps, RenderSteps
    <2>4. bench \in {"none", "cli", "mcp", "ended"} OBVIOUS
    <2> QED BY <1>1, <1>4, <2>1, <2>2, <2>3, <2>4 DEF TypeOK
  <1>6. QueueInv BY DEF QueueInv
  <1>7. FrameInv BY DEF FrameInv
  <1>8. LoopInv BY DEF LoopInv
  <1>9. Ordered(Pending, applied, wanted, wantedAt) BY <1>2 DEF Ordered, Reaches
  <1>10. EditsKeepTheirOrder BY <1>9, EditsAreOrdered
  <1> QED BY <1>5, <1>6, <1>7, <1>8, <1>10 DEF Inv

Quiet == UNCHANGED <<count, wanted, wantedAt, commands, batch, applied>>

\* A step that leaves the queue and the values alone.
LEMMA QuietStep ==
  ASSUME Inv, Quiet,
         batch # << >> => render' \in {"apply"} \cup Ended,
         bench' # "ended" => bench # "ended",
         render' \notin Ended => render \notin Ended
  PROVE  Coalesced' /\ QueueInv' /\ EditsKeepTheirOrder'
  <1>1. Coalesced /\ QueueInv /\ EditsKeepTheirOrder BY DEF Inv, TypeOK
  <1>2. Coalesced' BY <1>1 DEF Coalesced, Quiet
  <1>3. QueueInv' BY <1>1 DEF QueueInv, Quiet
  <1>4. EditsKeepTheirOrder'
    BY <1>1, EditsAreOrdered, EditsAreOrderedNext DEF Quiet, Pending
  <1> QED BY <1>2, <1>3, <1>4

\* Quiet steps of the UI thread.
LEMMA UiStep ==
  ASSUME Inv,
         \/ \E active \in BOOLEAN : SetAssistantInferenceActive(active)
         \/ AttachCopies \/ OnClosed
         \/ UiCalls
  PROVE  Inv'
  <1> USE DEF Inv
  <1>1. Quiet /\ render' = render /\ bench' = bench /\ loopStopped' = loopStopped
        /\ threadFinished' = threadFinished /\ paused' = paused
        /\ UNCHANGED <<swapChain, applied, saved, checkpoint, benchFinished, snapshot>>
    BY DEF Quiet, SetAssistantInferenceActive, AttachCopies, OnClosed, UiCalls, AttachSets,
           AttachMarks, RefreshSnapshot, RenderStopWaited, DetachViewport, StopAndJoin, Closing,
           uiVars, shared, mailbox, backend
  <1>2. /\ ui' \in UiSteps /\ panel' \in BOOLEAN /\ gate' \in BOOLEAN /\ stopToken' \in BOOLEAN
        /\ viewportDetached' \in BOOLEAN /\ fresh' \in BOOLEAN /\ frames' \in Nat
    <2> USE DEF TypeOK
    <2>1. CASE \E active \in BOOLEAN : SetAssistantInferenceActive(active)
      BY <2>1 DEF SetAssistantInferenceActive, uiVars, shared, mailbox
    <2>2. CASE AttachCopies
      BY <2>2 DEF AttachCopies, UiSteps, shared, mailbox
    <2>3. CASE OnClosed
      BY <2>3 DEF OnClosed, Closing, UiSteps, shared, mailbox
    <2>4. CASE AttachSets
      BY <2>4 DEF AttachSets, UiSteps, shared, mailbox
    <2>5. CASE AttachMarks
      BY <2>5 DEF AttachMarks, UiSteps, mailbox
    <2>6. CASE RefreshSnapshot
      <3>1. CASE snapshot = "benchmark"
        <4>1. Closing /\ fresh' = FALSE BY <2>6, <3>1 DEF RefreshSnapshot
        <4> QED BY <4>1 DEF Closing, UiSteps, shared
      <3>2. CASE snapshot # "benchmark"
        BY <2>6, <3>2 DEF RefreshSnapshot, uiVars, shared
      <3> QED BY <3>1, <3>2
    <2>7. CASE RenderStopWaited
      BY <2>7 DEF RenderStopWaited, UiSteps, shared, mailbox
    <2>8. CASE DetachViewport
      BY <2>8 DEF DetachViewport, UiSteps, mailbox
    <2>9. CASE StopAndJoin
      BY <2>9 DEF StopAndJoin, UiSteps, shared, mailbox
    <2> QED BY <2>1, <2>2, <2>3, <2>4, <2>5, <2>6, <2>7, <2>8, <2>9 DEF UiCalls
  <1>3. Coalesced' /\ QueueInv' /\ EditsKeepTheirOrder'
    BY <1>1, QuietStep DEF QueueInv
  <1>4. TypeOK' BY <1>1, <1>2, <1>3 DEF TypeOK, Quiet
  <1>5. (frames' = frames /\ gate' = gate) \/ frames' = 0
    BY DEF SetAssistantInferenceActive, AttachCopies, OnClosed, UiCalls,
           AttachSets, AttachMarks, RefreshSnapshot, RenderStopWaited, DetachViewport,
           StopAndJoin, Closing, uiVars, shared, mailbox, backend
  <1>6. FrameInv'
    <2>1. gate \in BOOLEAN /\ paused \in BOOLEAN BY DEF TypeOK
    <2>2. CASE frames' = frames /\ gate' = gate
      BY <1>1, <1>2, <2>1, <2>2 DEF FrameInv
    <2>3. CASE frames' = 0 BY <2>3 DEF FrameInv
    <2> QED BY <1>5, <2>2, <2>3
  <1>7. ui' \in {"detach", "join", "gone"} =>
          ui \in {"detach", "join", "gone"} \/ loopStopped \/ threadFinished
    BY DEF SetAssistantInferenceActive, AttachCopies, OnClosed, UiCalls,
           AttachSets, AttachMarks, RefreshSnapshot, RenderStopWaited, DetachViewport,
           StopAndJoin, Closing, uiVars
  <1>8. LoopInv' BY <1>1, <1>7 DEF LoopInv
  <1> QED BY <1>3, <1>4, <1>6, <1>8

\* Steps of the renderer thread that leave the queue and the values alone.
QuietLoop ==
  \/ OnInit \/ LoopTests \/ ReadGate \/ Drained \/ OnRender \/ PublishSnapshot
  \/ SaveSessionOnExit \/ RenderLoopStopped \/ DetachWaited \/ ThreadFinishes
  \/ PublishFailure \/ FailureFlags \/ Throws

LEMMA QuietLoopStep ==
  ASSUME Inv, QuietLoop
  PROVE  Inv'
  <1>1. TypeOK /\ QueueInv /\ FrameInv /\ LoopInv BY DEF Inv
  <1>2. /\ render' \in RenderSteps /\ Quiet /\ UNCHANGED <<ui, panel, gate, stopToken>>
        /\ UNCHANGED <<checkpoint, bench>>
    BY DEF QuietLoop, RenderSteps, LoopSteps, Quiet, RendererOnly, uiVars, backend, OnInit,
           LoopTests, ReadGate, Drained, OnRender, PublishSnapshot, SaveSessionOnExit,
           RenderLoopStopped, DetachWaited, ThreadFinishes, PublishFailure, FailureFlags, Throws
  <1>3. /\ swapChain' \in BOOLEAN /\ loopStopped' \in BOOLEAN /\ viewportDetached' \in BOOLEAN
        /\ threadFinished' \in BOOLEAN /\ fresh' \in BOOLEAN /\ paused' \in BOOLEAN
        /\ snapshot' \in {"starting", "ready", "stopped", "benchmark", "failed"}
        /\ saved' \in Settings /\ benchFinished' \in BOOLEAN /\ frames' \in Nat
    <2> USE <1>1 DEF TypeOK
    <2>1. CASE OnInit BY <2>1 DEF OnInit, Publish, backend
    <2>2. CASE LoopTests BY <2>2 DEF LoopTests, shared, mailbox, backend
    <2>3. CASE ReadGate BY <2>3 DEF ReadGate, shared, mailbox, backend
    <2>4. CASE Drained BY <2>4 DEF Drained, shared, mailbox, backend
    <2>5. CASE OnRender
      <3>1. UNCHANGED <<shared, mailbox, paused, saved>> BY <2>5 DEF OnRender
      <3>2. frames' \in Nat BY <2>5 DEF OnRender
      <3>3. benchFinished' \in BOOLEAN BY <2>5 DEF OnRender
      <3> QED BY <3>1, <3>2, <3>3 DEF shared, mailbox
    <2>6. CASE PublishSnapshot BY <2>6 DEF PublishSnapshot, Publish, shared, mailbox, backend
    <2>7. CASE SaveSessionOnExit BY <2>7 DEF SaveSessionOnExit, Publish, shared
    <2>8. CASE RenderLoopStopped BY <2>8 DEF RenderLoopStopped, mailbox, backend
    <2>9. CASE DetachWaited BY <2>9 DEF DetachWaited, shared, mailbox, backend
    <2>10. CASE ThreadFinishes BY <2>10 DEF ThreadFinishes, mailbox, backend
    <2>11. CASE PublishFailure BY <2>11 DEF PublishFailure, Publish, shared, backend
    <2>12. CASE FailureFlags BY <2>12 DEF FailureFlags, mailbox, backend
    <2>13. CASE Throws BY <2>13 DEF Throws, shared, mailbox, backend
    <2> QED
      BY <2>1, <2>2, <2>3, <2>4, <2>5, <2>6, <2>7, <2>8, <2>9, <2>10, <2>11, <2>12, <2>13
      DEF QuietLoop
  <1>4. /\ render' \notin Ended => render \notin Ended
        /\ batch # << >> => render' \in {"apply"} \cup Ended
    BY <1>1
    DEF QueueInv, Ended, QuietLoop, OnInit, LoopTests, ReadGate, Drained, OnRender,
        PublishSnapshot, SaveSessionOnExit, RenderLoopStopped, DetachWaited, ThreadFinishes,
        PublishFailure, FailureFlags, Throws
  <1>5. Coalesced' /\ QueueInv' /\ EditsKeepTheirOrder' BY <1>2, <1>4, QuietStep
  <1>6. TypeOK' BY <1>1, <1>2, <1>3, <1>5 DEF TypeOK, Quiet
  <1>7. FrameInv'
    <2> USE <1>1, <1>2 DEF FrameInv, TypeOK
    <2>1. CASE OnInit BY <2>1 DEF OnInit
    <2>2. CASE LoopTests BY <2>2 DEF LoopTests
    <2>3. CASE ReadGate BY <2>3 DEF ReadGate
    <2>4. CASE Drained BY <2>4 DEF Drained
    <2>5. CASE OnRender
      <3>1. CASE paused \/ ~gate BY <2>5, <3>1 DEF OnRender
      <3>2. CASE gate /\ ~paused
        <4>1. frames = 0 /\ render' = "publish" /\ frames' = frames + 1
          BY <2>5, <3>2 DEF OnRender
        <4> QED BY <4>1
      <3> QED BY <3>1, <3>2
    <2>6. CASE PublishSnapshot BY <2>6 DEF PublishSnapshot
    <2>7. CASE SaveSessionOnExit BY <2>7 DEF SaveSessionOnExit
    <2>8. CASE RenderLoopStopped BY <2>8 DEF RenderLoopStopped, backend
    <2>9. CASE DetachWaited BY <2>9 DEF DetachWaited
    <2>10. CASE ThreadFinishes BY <2>10 DEF ThreadFinishes
    <2>11. CASE PublishFailure BY <2>11 DEF PublishFailure
    <2>12. CASE FailureFlags BY <2>12 DEF FailureFlags
    <2>13. CASE Throws BY <2>13 DEF Throws
    <2> QED
      BY <2>1, <2>2, <2>3, <2>4, <2>5, <2>6, <2>7, <2>8, <2>9, <2>10, <2>11, <2>12, <2>13
      DEF QuietLoop
  <1>8. LoopInv'
    BY <1>1, <1>2
    DEF LoopInv, Ended, QuietLoop, shared, OnInit, LoopTests, ReadGate, Drained, OnRender,
        PublishSnapshot, SaveSessionOnExit, RenderLoopStopped, DetachWaited, ThreadFinishes,
        PublishFailure, FailureFlags, Throws
  <1> QED BY <1>5, <1>6, <1>7, <1>8 DEF Inv

\* What a client's benchmark does to the values, before and after the frame and
\* when the server is stopped.
LEMMA BenchmarkStep ==
  ASSUME Inv, OnUpdate \/ OnDestroy
  PROVE  Inv'
  <1>1. TypeOK /\ QueueInv /\ FrameInv /\ LoopInv BY DEF Inv
  <1>2. \/ UNCHANGED <<applied, checkpoint, bench, benchFinished>>
        \/ BenchmarkStarts \/ BenchmarkCancelled
    BY DEF OnUpdate, OnDestroy
  <1>3. /\ \/ render = "update" /\ render' = "render"
           \/ render = "destroy" /\ render' = "finish"
        /\ UNCHANGED <<ui, panel, count, wanted, wantedAt, gate, commands, stopToken, swapChain,
                       loopStopped, viewportDetached, threadFinished, snapshot, fresh, paused,
                       batch, saved, frames>>
    BY DEF OnUpdate, OnDestroy, RendererOnly, uiVars, shared, mailbox
  <1>4. /\ applied' \in Settings /\ checkpoint' \in Settings /\ benchFinished' \in BOOLEAN
        /\ bench' \in {"none", "cli", "mcp", "ended"}
    BY <1>1, <1>2 DEF TypeOK, BenchmarkStarts, BenchmarkCancelled
  <1>5. bench' = "ended" \/ (applied' = applied /\ bench # "ended") \/
          (applied' = applied /\ bench' = bench)
    BY <1>2 DEF BenchmarkStarts, BenchmarkCancelled
  <1>6. Coalesced' BY <1>1, <1>3 DEF TypeOK, Coalesced
  <1>7. QueueInv' BY <1>1, <1>3 DEF QueueInv, Ended
  <1>8. EditsKeepTheirOrder'
    <2>1. CASE bench' = "ended" BY <2>1, EditsAreOrderedNext
    <2>2. CASE bench' # "ended"
      <3>1. applied' = applied /\ bench # "ended" BY <1>5, <2>2
      <3>2. render \notin Ended BY <1>3 DEF Ended
      <3>3. EditsKeepTheirOrder BY DEF Inv
      <3>4. Ordered(Pending, applied, wanted, wantedAt) BY <3>1, <3>2, <3>3, EditsAreOrdered
      <3> QED BY <1>3, <3>1, <3>4, EditsAreOrderedNext DEF Pending
    <2> QED BY <2>1, <2>2
  <1>9. render' \in RenderSteps BY <1>3 DEF RenderSteps, LoopSteps
  <1>10. TypeOK' BY <1>1, <1>3, <1>4, <1>6, <1>9 DEF TypeOK
  <1>11. FrameInv' BY <1>1, <1>3 DEF FrameInv, TypeOK
  <1>12. LoopInv' BY <1>1, <1>3 DEF LoopInv, Ended
  <1> QED BY <1>7, <1>8, <1>10, <1>11, <1>12 DEF Inv

\* DrainCommands takes the whole queue when it holds nothing.
LEMMA TakeAllStep ==
  ASSUME Inv, TakeAll
  PROVE  Inv'
  <1>1. TypeOK /\ QueueInv /\ FrameInv /\ LoopInv /\ EditsKeepTheirOrder BY DEF Inv
  <1>2. /\ render = "drain" /\ render' = "apply" /\ batch' = commands /\ commands' = << >>
        /\ UNCHANGED <<ui, panel, count, wanted, wantedAt, gate, stopToken, swapChain,
                       loopStopped, viewportDetached, threadFinished, snapshot, fresh, paused,
                       applied, saved, checkpoint, bench, benchFinished, frames>>
    BY DEF TakeAll, RendererOnly, uiVars, shared, mailbox, backend
  <1>3. batch = << >> BY <1>1, <1>2 DEF QueueInv, Ended
  <1>4. commands \in Seq(Commands) /\ commands' \in Seq(Commands) /\ Len(commands') = 0
    BY <1>1, <1>2, EmptySeq DEF TypeOK
  <1>5. batch' \o commands' = Pending BY <1>2, <1>3, <1>4, ConcatEmptySeq DEF Pending
  <1>6. EditsKeepTheirOrder'
    BY <1>1, <1>2, <1>5, EditsAreOrdered, EditsAreOrderedNext DEF Ended
  <1>7. DOMAIN commands' = {} BY <1>4
  <1>8. Coalesced' BY <1>7 DEF Coalesced
  <1>9. QueueInv' BY <1>1, <1>2, <1>7 DEF QueueInv
  <1>10. TypeOK' BY <1>1, <1>2, <1>4, <1>8 DEF TypeOK, RenderSteps, LoopSteps
  <1>11. FrameInv' BY <1>1, <1>2 DEF FrameInv, TypeOK
  <1>12. LoopInv' BY <1>1, <1>2 DEF LoopInv, Ended
  <1> QED BY <1>6, <1>9, <1>10, <1>11, <1>12 DEF Inv

\* The first command of the batch is applied.
LEMMA ApplyStep ==
  ASSUME Inv, ApplyEditorCommand
  PROVE  Inv'
  <1>1. TypeOK /\ QueueInv /\ FrameInv /\ LoopInv /\ EditsKeepTheirOrder BY DEF Inv
  <1> DEFINE command == Head(batch)
  <1>2. /\ render = "apply" /\ batch # << >> /\ batch' = Tail(batch)
        /\ applied' = IF command.key = Barrier THEN applied
                      ELSE [applied EXCEPT ![command.key] = command.value]
        /\ UNCHANGED <<ui, panel, count, wanted, wantedAt, gate, commands, stopToken, swapChain,
                       loopStopped, viewportDetached, threadFinished, snapshot, fresh, render,
                       paused, saved, checkpoint, bench, benchFinished, frames>>
    BY DEF ApplyEditorCommand, RendererOnly, uiVars, shared, mailbox
  <1>3. /\ batch \in Seq(Commands) /\ commands \in Seq(Commands)
        /\ applied \in [Keys -> Values] /\ Barrier \notin Keys
    BY <1>1, RendererAssumption DEF TypeOK, Settings
  <1>4. /\ command \in Commands /\ batch' \in Seq(Commands) /\ Len(batch') = Len(batch) - 1
        /\ \A i \in 1..Len(batch') : batch'[i] = batch[i + 1]
    BY <1>2, <1>3, HeadTailProperties
  <1>5. Len(batch) \in Nat \ {0} /\ Len(batch') \in Nat /\ Len(commands) \in Nat
    BY <1>2, <1>3, <1>4, EmptySeq
  <1>6. command = batch[1] BY <1>2, <1>3
  <1>7. command.key \in Keys \cup {Barrier} /\ command.value \in Values
    BY <1>4 DEF Commands, Values
  <1> HIDE DEF command
  <1>8. \A key \in Keys :
          applied'[key] = IF command.key = key THEN command.value ELSE applied[key]
    BY <1>2, <1>3, <1>7
  <1>9. applied' \in Settings BY <1>2, <1>3, <1>7 DEF Settings
  <1> DEFINE p == batch \o commands
  <1> DEFINE q == batch' \o commands
  <1>10. /\ p \in Seq(Commands) /\ Len(p) = Len(batch) + Len(commands)
         /\ \A i \in 1..Len(batch) + Len(commands) :
              p[i] = IF i <= Len(batch) THEN batch[i] ELSE commands[i - Len(batch)]
    BY <1>3, ConcatProperties
  <1>11. /\ q \in Seq(Commands) /\ Len(q) = Len(batch') + Len(commands)
         /\ \A i \in 1..Len(batch') + Len(commands) :
              q[i] = IF i <= Len(batch') THEN batch'[i] ELSE commands[i - Len(batch')]
    BY <1>3, <1>4, ConcatProperties
  <1> HIDE DEF p, q
  <1>12. Len(p) = Len(q) + 1 BY <1>4, <1>5, <1>10, <1>11
  <1>13. p[1] = command BY <1>5, <1>6, <1>10
  <1>14. \A i \in 1..Len(q) : q[i] = p[i + 1]
    <2> TAKE i \in 1..Len(q)
    <2>1. CASE i <= Len(batch')
      <3>1. i \in 1..Len(batch') /\ i + 1 <= Len(batch)
            /\ i + 1 \in 1..Len(batch) + Len(commands)
        BY <1>4, <1>5, <1>11, <2>1
      <3> QED BY <1>4, <1>10, <1>11, <2>1, <3>1
    <2>2. CASE ~ (i <= Len(batch'))
      <3>1. ~ (i + 1 <= Len(batch)) /\ i + 1 \in 1..Len(batch) + Len(commands)
            /\ i + 1 - Len(batch) = i - Len(batch')
        BY <1>4, <1>5, <1>11, <2>2
      <3> QED BY <1>10, <1>11, <2>2, <3>1
    <2> QED BY <2>1, <2>2
  <1>15. EditsKeepTheirOrder'
    <2>1. SUFFICES ASSUME bench' # "ended", render' \notin Ended
                   PROVE  Ordered(q, applied', wanted', wantedAt')
      BY <1>2, EditsAreOrderedNext DEF q
    <2>2. Ordered(p, applied, wanted, wantedAt)
      BY <1>1, <1>2, <2>1, EditsAreOrdered DEF p, Pending
    <2>3. Ordered(q, applied', wanted, wantedAt)
      BY <1>8, <1>10, <1>11, <1>12, <1>13, <1>14, <2>2, OrderedTail
    <2> QED BY <1>2, <2>3
  <1>16. QueueInv'
    <2>1. \A i \in DOMAIN batch' : i + 1 \in DOMAIN batch /\ batch'[i] = batch[i + 1]
      BY <1>3, <1>4, <1>5, LenProperties
    <2> QED BY <1>1, <1>2, <2>1 DEF QueueInv
  <1>17. Coalesced' BY <1>1, <1>2 DEF TypeOK, Coalesced
  <1>18. TypeOK' BY <1>1, <1>2, <1>4, <1>9, <1>17 DEF TypeOK
  <1>19. FrameInv' BY <1>1, <1>2 DEF FrameInv, TypeOK
  <1>20. LoopInv' BY <1>1, <1>2 DEF LoopInv
  <1> QED BY <1>15, <1>16, <1>18, <1>19, <1>20 DEF Inv

\* A command is appended: nothing behind the last barrier has its key, so the
\* queue stays coalesced.
LEMMA AppendedFacts ==
  ASSUME TypeOK, NEW c \in Commands, c.key = Barrier \/ Replaced(c.key) = {},
         commands' = Append(commands, c)
  PROVE  /\ commands' \in Seq(Commands) /\ Coalesced'
         /\ Len(commands') = Len(commands) + 1 /\ commands'[Len(commands) + 1] = c
         /\ \A i \in 1..Len(commands) : commands'[i] = commands[i]
  <1>1. commands \in Seq(Commands) /\ Len(commands) \in Nat
        /\ DOMAIN commands = 1..Len(commands)
    BY LenProperties DEF TypeOK
  <1>2. /\ commands' \in Seq(Commands) /\ Len(commands') = Len(commands) + 1
        /\ commands'[Len(commands) + 1] = c
        /\ \A i \in 1..Len(commands) : commands'[i] = commands[i]
    BY <1>1, AppendProperties
  <1>3. DOMAIN commands' = 1..(Len(commands) + 1) BY <1>2, LenProperties
  <1>4. ASSUME NEW i \in DOMAIN commands', NEW j \in DOMAIN commands', i < j,
               commands'[i].key = commands'[j].key
        PROVE  \E b \in i..j : commands'[b].key = Barrier
    <2>1. i \in 1..Len(commands) /\ i \in Int /\ j \in Int BY <1>1, <1>3, <1>4
    <2>2. CASE j \in 1..Len(commands)
      <3>1. PICK b \in i..j : commands[b].key = Barrier
        BY <1>1, <1>2, <1>4, <2>1, <2>2 DEF TypeOK, Coalesced
      <3>2. b \in 1..Len(commands) BY <2>1, <2>2
      <3> QED BY <1>2, <3>1, <3>2
    <2>3. CASE j = Len(commands) + 1
      <3>1. CASE c.key = Barrier
        <4>1. j \in i..j /\ commands'[j].key = Barrier BY <1>2, <2>1, <2>3, <3>1, <1>4
        <4> QED BY <4>1
      <3>2. CASE Replaced(c.key) = {}
        <4>1. commands[i].key = c.key BY <1>2, <1>4, <2>1, <2>3
        <4>2. PICK b \in i..Len(commands) : commands[b].key = Barrier
          BY <1>1, <2>1, <3>2, <4>1 DEF Replaced
        <4>3. b \in 1..Len(commands) /\ b \in i..j BY <1>1, <2>1, <2>3
        <4> QED BY <1>2, <4>2, <4>3
      <3> QED BY <3>1, <3>2
    <2> QED BY <1>3, <2>2, <2>3, <1>1
  <1>5. Coalesced' BY <1>4 DEF Coalesced
  <1> QED BY <1>2, <1>5

\* A command is replaced: it is the last of its key, and no barrier follows.
LEMMA ReplacedFacts ==
  ASSUME TypeOK, NEW c \in Commands, NEW r \in Replaced(c.key),
         commands' = [commands EXCEPT ![r] = c]
  PROVE  /\ commands' \in Seq(Commands) /\ Coalesced'
         /\ Len(commands') = Len(commands) /\ r \in 1..Len(commands)
         /\ commands'[r] = c /\ commands[r].key = c.key
         /\ \A i \in 1..Len(commands) : i # r => commands'[i] = commands[i]
         /\ \A i \in r..Len(commands) : commands[i].key # Barrier
         /\ \A i \in (r + 1)..Len(commands) : commands[i].key # c.key
  <1>1. commands \in Seq(Commands) /\ Len(commands) \in Nat
        /\ DOMAIN commands = 1..Len(commands)
    BY LenProperties DEF TypeOK
  <1>2. /\ r \in 1..Len(commands) /\ commands[r].key = c.key
        /\ \A i \in r..Len(commands) : commands[i].key # Barrier
    BY <1>1 DEF Replaced
  <1>3. /\ commands' \in Seq(Commands) /\ Len(commands') = Len(commands)
        /\ \A i \in 1..Len(commands) : commands'[i] = IF i = r THEN c ELSE commands[i]
    BY <1>1, <1>2, ExceptSeq
  <1>4. DOMAIN commands' = 1..Len(commands) BY <1>3, LenProperties
  <1>5. \A i \in 1..Len(commands) : commands'[i].key = commands[i].key BY <1>2, <1>3
  <1>6. ASSUME NEW i \in (r + 1)..Len(commands), commands[i].key = c.key
        PROVE  FALSE
    <2>1. r < i /\ i \in 1..Len(commands) /\ i \in Int BY <1>1, <1>2
    <2>2. PICK b \in r..i : commands[b].key = Barrier
      BY <1>1, <1>2, <1>6, <2>1 DEF TypeOK, Coalesced
    <2>3. b \in r..Len(commands) BY <1>1, <1>2, <2>1
    <2> QED BY <1>2, <2>2, <2>3
  <1>7. ASSUME NEW i \in DOMAIN commands', NEW j \in DOMAIN commands', i < j,
               commands'[i].key = commands'[j].key
        PROVE  \E b \in i..j : commands'[b].key = Barrier
    <2>1. i \in 1..Len(commands) /\ j \in 1..Len(commands) BY <1>4
    <2>2. PICK b \in i..j : commands[b].key = Barrier
      BY <1>1, <1>5, <1>7, <2>1 DEF TypeOK, Coalesced
    <2>3. b \in 1..Len(commands) BY <1>1, <2>1
    <2> QED BY <1>5, <2>2, <2>3
  <1>8. Coalesced' BY <1>7 DEF Coalesced
  <1> QED BY <1>2, <1>3, <1>6, <1>8

LEMMA EnqueueStep ==
  ASSUME Inv, NEW key \in Keys \cup {Barrier}, Enqueue(key)
  PROVE  Inv'
  <1>1. TypeOK /\ QueueInv /\ FrameInv /\ LoopInv /\ EditsKeepTheirOrder BY DEF Inv
  <1> DEFINE n == count + 1
  <1> DEFINE c == [key |-> key, value |-> n]
  <1>2. /\ count < MaxCommands /\ count' = n
        /\ IF key # Barrier /\ Replaced(key) # {}
           THEN \E i \in Replaced(key) : commands' = [commands EXCEPT ![i] = c]
           ELSE commands' = Append(commands, c)
        /\ IF key = Barrier
           THEN wantedAt' = [wantedAt EXCEPT ![n] = wanted] /\ UNCHANGED wanted
           ELSE wanted' = [wanted EXCEPT ![key] = n] /\ UNCHANGED wantedAt
        /\ UNCHANGED <<ui, panel, gate, stopToken, swapChain, loopStopped, viewportDetached,
                       threadFinished, snapshot, fresh, render, paused, batch, applied, saved,
                       checkpoint, bench, benchFinished, frames>>
    BY DEF Enqueue, shared, mailbox, backend
  <1>3. /\ count \in Nat /\ MaxCommands \in Nat /\ n \in 1..MaxCommands /\ n \in Nat
        /\ count' \in Values /\ n \in Values
    BY <1>1, <1>2, RendererAssumption DEF TypeOK, Values
  <1>4. c \in Commands /\ c.key = key /\ c.value = n BY <1>3 DEF Commands
  <1>5. /\ batch \in Seq(Commands) /\ commands \in Seq(Commands) /\ batch' = batch
        /\ wanted \in Settings /\ wantedAt \in [1..MaxCommands -> Settings]
        /\ Barrier \notin Keys
    BY <1>1, <1>2, RendererAssumption DEF TypeOK
  <1> HIDE DEF c
  <1>6. wanted' \in Settings /\ wantedAt' \in [1..MaxCommands -> Settings]
    <2>1. CASE key = Barrier BY <1>2, <1>3, <1>5, <2>1
    <2>2. CASE key # Barrier BY <1>2, <1>3, <1>5, <2>2 DEF Settings
    <2> QED BY <2>1, <2>2
  <1>7. Numbered(c, n, wanted, wanted', wantedAt, wantedAt')
    <2>1. CASE key = Barrier BY <1>2, <1>3, <1>4, <1>5, <2>1 DEF Numbered
    <2>2. CASE key # Barrier BY <1>2, <1>3, <1>4, <1>5, <2>2 DEF Numbered, Settings
    <2> QED BY <2>1, <2>2
  <1> DEFINE p == batch \o commands
  <1> DEFINE q == batch \o commands'
  <1>8. /\ p \in Seq(Commands) /\ Len(p) = Len(batch) + Len(commands)
        /\ \A i \in 1..Len(batch) + Len(commands) :
             p[i] = IF i <= Len(batch) THEN batch[i] ELSE commands[i - Len(batch)]
    BY <1>5, ConcatProperties
  <1>9. /\ Len(batch) \in Nat /\ Len(commands) \in Nat /\ DOMAIN batch = 1..Len(batch)
        /\ DOMAIN commands = 1..Len(commands)
    BY <1>5, LenProperties
  <1>10. \A i \in 1..Len(p) : p[i].value < n
    <2> TAKE i \in 1..Len(p)
    <2>1. CASE i <= Len(batch)
      <3>1. i \in 1..Len(batch) /\ p[i] = batch[i] BY <1>8, <1>9, <2>1
      <3>2. batch[i] \in Commands BY <1>5, <3>1, ElementOfSeq
      <3> QED BY <1>1, <1>3, <1>9, <3>1, <3>2 DEF QueueInv, Commands
    <2>2. CASE ~ (i <= Len(batch))
      <3> DEFINE k == i - Len(batch)
      <3>1. k \in 1..Len(commands) /\ p[i] = commands[k] BY <1>8, <1>9, <2>2
      <3>2. commands[k] \in Commands BY <1>5, <3>1, ElementOfSeq
      <3> HIDE DEF k
      <3> QED BY <1>1, <1>3, <1>9, <3>1, <3>2 DEF QueueInv, Commands
    <2> QED BY <2>1, <2>2
  <1> HIDE DEF n
  <1>11. ASSUME commands' \in Seq(Commands)
         PROVE  /\ q \in Seq(Commands) /\ Len(q) = Len(batch) + Len(commands')
                /\ \A i \in 1..Len(batch) + Len(commands') :
                     q[i] = IF i <= Len(batch) THEN batch[i] ELSE commands'[i - Len(batch)]
    BY <1>5, <1>11, ConcatProperties
  <1> HIDE DEF p, q
  <1>12. /\ commands' \in Seq(Commands) /\ Coalesced'
         /\ \A i \in DOMAIN commands' : commands'[i] = c \/
              (i \in DOMAIN commands /\ commands'[i] = commands[i])
         /\ Ordered(p, applied, wanted, wantedAt) => Ordered(q, applied, wanted', wantedAt')
    <2>1. CASE key # Barrier /\ Replaced(key) # {}
      <3>1. PICK r \in Replaced(key) : commands' = [commands EXCEPT ![r] = c]
        BY <1>2, <2>1
      <3>2. /\ commands' \in Seq(Commands) /\ Coalesced'
            /\ Len(commands') = Len(commands) /\ r \in 1..Len(commands)
            /\ commands'[r] = c /\ commands[r].key = c.key
            /\ \A i \in 1..Len(commands) : i # r => commands'[i] = commands[i]
            /\ \A i \in r..Len(commands) : commands[i].key # Barrier
            /\ \A i \in (r + 1)..Len(commands) : commands[i].key # c.key
        BY <1>1, <1>4, <3>1, ReplacedFacts
      <3> DEFINE m == Len(batch) + r
      <3>3. /\ m \in 1..Len(p) /\ m > Len(batch) /\ Len(q) = Len(p) /\ q \in Seq(Commands)
            /\ q[m] = c /\ p[m].key = c.key
        <4>1. /\ m \in 1..Len(batch) + Len(commands) /\ ~ (m <= Len(batch))
              /\ m - Len(batch) = r
          BY <1>9, <3>2
        <4>2. Len(q) = Len(p) /\ q \in Seq(Commands) BY <1>8, <1>11, <3>2
        <4> QED BY <1>8, <1>9, <1>11, <3>2, <4>1, <4>2
      <3>4. \A i \in 1..Len(p) : i # m => q[i] = p[i]
        <4> TAKE i \in 1..Len(p)
        <4> HAVE i # m
        <4>1. CASE i <= Len(batch) BY <1>8, <1>9, <1>11, <3>2, <4>1
        <4>2. CASE ~ (i <= Len(batch))
          <5>1. i - Len(batch) \in 1..Len(commands) /\ i - Len(batch) # r
            BY <1>8, <1>9, <3>2, <4>2
          <5> QED BY <1>8, <1>9, <1>11, <3>2, <4>2, <5>1
        <4> QED BY <4>1, <4>2
      <3>5. \A i \in m..Len(p) : p[i].key # Barrier
        <4> TAKE i \in m..Len(p)
        <4>1. i - Len(batch) \in r..Len(commands) /\ p[i] = commands[i - Len(batch)]
          BY <1>8, <1>9, <3>2
        <4> QED BY <3>2, <4>1
      <3>6. \A i \in (m + 1)..Len(p) : p[i].key # c.key
        <4> TAKE i \in (m + 1)..Len(p)
        <4>1. i - Len(batch) \in (r + 1)..Len(commands) /\ p[i] = commands[i - Len(batch)]
          BY <1>8, <1>9, <3>2
        <4> QED BY <3>2, <4>1
      <3> HIDE DEF m
      <3>7. c.key # Barrier BY <1>4, <2>1
      <3>8. Ordered(p, applied, wanted, wantedAt) => Ordered(q, applied, wanted', wantedAt')
        BY <1>3, <1>4, <1>7, <1>8, <1>10, <3>3, <3>4, <3>5, <3>6, <3>7, OrderedReplace
      <3>9. DOMAIN commands' = 1..Len(commands) BY <3>2, LenProperties
      <3> QED BY <1>9, <3>2, <3>8, <3>9
    <2>2. CASE ~ (key # Barrier /\ Replaced(key) # {})
      <3>1. commands' = Append(commands, c) /\ (c.key = Barrier \/ Replaced(c.key) = {})
        BY <1>2, <1>4, <2>2
      <3>2. /\ commands' \in Seq(Commands) /\ Coalesced'
            /\ Len(commands') = Len(commands) + 1 /\ commands'[Len(commands) + 1] = c
            /\ \A i \in 1..Len(commands) : commands'[i] = commands[i]
        BY <1>1, <1>4, <3>1, AppendedFacts
      <3>3. Len(q) = Len(p) + 1 /\ q \in Seq(Commands) /\ q[Len(p) + 1] = c
        BY <1>8, <1>9, <1>11, <3>2
      <3>4. \A i \in 1..Len(p) : q[i] = p[i]
        <4> TAKE i \in 1..Len(p)
        <4>1. CASE i <= Len(batch) BY <1>8, <1>9, <1>11, <3>2, <4>1
        <4>2. CASE ~ (i <= Len(batch))
          <5>1. i - Len(batch) \in 1..Len(commands) BY <1>8, <1>9, <4>2
          <5> QED BY <1>8, <1>9, <1>11, <3>2, <4>2, <5>1
        <4> QED BY <4>1, <4>2
      <3>5. Ordered(p, applied, wanted, wantedAt) => Ordered(q, applied, wanted', wantedAt')
        BY <1>3, <1>4, <1>7, <1>8, <1>10, <3>3, <3>4, OrderedAppend
      <3>6. DOMAIN commands' = 1..(Len(commands) + 1) BY <3>2, LenProperties
      <3> QED BY <1>9, <3>2, <3>5, <3>6
    <2> QED BY <2>1, <2>2
  <1>13. EditsKeepTheirOrder'
    BY <1>1, <1>2, <1>12, EditsAreOrdered, EditsAreOrderedNext DEF p, q, Pending
  <1>14. QueueInv'
    <2>1. \A i \in DOMAIN batch' : batch'[i].value <= n
      <3> TAKE i \in DOMAIN batch'
      <3>1. batch[i] \in Commands BY <1>5, <1>9, ElementOfSeq
      <3> QED BY <1>1, <1>3, <1>5, <3>1 DEF QueueInv, Commands, n
    <2>2. \A i \in DOMAIN commands' : commands'[i].value <= n
      <3> TAKE i \in DOMAIN commands'
      <3>1. CASE commands'[i] = c BY <1>3, <1>4, <3>1
      <3>2. CASE i \in DOMAIN commands /\ commands'[i] = commands[i]
        <4>1. commands[i] \in Commands BY <1>5, <1>9, <3>2, ElementOfSeq
        <4> QED BY <1>1, <1>3, <3>2, <4>1 DEF QueueInv, Commands, n
      <3> QED BY <1>12, <3>1, <3>2
    <2> QED BY <1>1, <1>2, <2>1, <2>2 DEF QueueInv
  <1>15. TypeOK' BY <1>1, <1>2, <1>3, <1>6, <1>12 DEF TypeOK
  <1>16. FrameInv' BY <1>1, <1>2 DEF FrameInv, TypeOK
  <1>17. LoopInv' BY <1>1, <1>2 DEF LoopInv
  <1> QED BY <1>13, <1>14, <1>15, <1>16, <1>17 DEF Inv

LEMMA StutterStep ==
  ASSUME Inv, UNCHANGED vars
  PROVE  Inv'
  <1>1. TypeOK /\ QueueInv /\ FrameInv /\ LoopInv BY DEF Inv
  <1>2. UNCHANGED <<ui, panel, count, wanted, wantedAt, gate, commands, stopToken, swapChain,
                    loopStopped, viewportDetached, threadFinished, snapshot, fresh, render,
                    paused, batch, applied, saved, checkpoint, bench, benchFinished, frames>>
    BY DEF vars, uiVars, shared, mailbox, backend
  <1>3. Coalesced' /\ QueueInv' /\ EditsKeepTheirOrder'
    BY <1>1, <1>2, QuietStep DEF Quiet, QueueInv
  <1>4. TypeOK' BY <1>1, <1>2, <1>3 DEF TypeOK
  <1>5. FrameInv' BY <1>1, <1>2 DEF FrameInv, TypeOK
  <1>6. LoopInv' BY <1>1, <1>2 DEF LoopInv
  <1> QED BY <1>3, <1>4, <1>5, <1>6 DEF Inv

-----------------------------------------------------------------------------
(* The theorems.                                                           *)

\* The inductive invariant: what is pending leads to what the user set, in the
\* order that matters; the renderer looks at the closed gate between two frames;
\* and a loop reported as stopped stays so.
THEOREM Invariant == Spec => []Inv
  <1>1. Init => Inv BY InitInv
  <1>2. Inv /\ [Next]_vars => Inv'
    <2> SUFFICES ASSUME Inv, [Next]_vars PROVE Inv' OBVIOUS
    <2>1. CASE UiCalls BY <2>1, UiStep
    <2>2. CASE UiRequests BY <2>2, UiStep, EnqueueStep DEF UiRequests
    <2>3. CASE RenderMain \/ Throws
      BY <2>3, QuietLoopStep, BenchmarkStep, TakeAllStep, ApplyStep DEF RenderMain, QuietLoop
    <2>4. CASE UNCHANGED vars BY <2>4, StutterStep
    <2> QED BY <2>1, <2>2, <2>3, <2>4 DEF Next
  <1> QED BY <1>1, <1>2, PTL DEF Spec

\* Every variable keeps its type, and the command queue holds at most one
\* command of a key between two barriers (RendererCommandQueue::Enqueue).
THEOREM TypeCorrect == Spec => []TypeOK
  <1>1. Inv => TypeOK BY DEF Inv
  <1> QED BY <1>1, Invariant, PTL

\* Coalescing never loses the value an edit set last nor moves it across a
\* barrier (RendererCommandQueue::Enqueue, RendererController::DrainCommands).
THEOREM EditsAlwaysKeepTheirOrder == Spec => []EditsKeepTheirOrder
  <1>1. Inv => EditsKeepTheirOrder BY DEF Inv
  <1> QED BY <1>1, Invariant, PTL

\* A closed gate lets at most one frame through, and a detached swap chain none
\* (RendererController::RenderMain, RequestRenderStopAndWait, DetachViewport).
THEOREM PresentsAlwaysAllowed == Spec => []PresentsAreAllowed
  <1>1. Inv => PresentsAreAllowed
    BY DEF Inv, FrameInv, LoopInv, Ended, LoopSteps, PresentsAreAllowed
  <1> QED BY <1>1, Invariant, PTL

=============================================================================
