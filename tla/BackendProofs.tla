----------------------------- MODULE BackendProofs -----------------------------
\* Safety of the two parts of the renderer backend that McpReviews and LookDevProject
\* model, for any bounds of either.  The reviews: the artifacts a review pins are
\* kept while it needs them and given back once, a review says what happened to it,
\* and one that has ended stays as it ended.  The project: shown as saved it is what
\* its file holds, a restored session is what was saved and is tried once, a
\* checkpoint puts back what it was made of, and the scene asked for last wins.
EXTENDS McpReviews, LookDevProject, SequenceTheorems, FiniteSetTheorems, WellFoundedInduction,
        TLAPS

-----------------------------------------------------------------------------
(* Reviews.                                                                *)

Capture == [pins : Nat, review : Nat, view : Nat]
Review  == [state : States, baseline : Nat, captures : Seq(Nat), comparison : Nat,
            cancel : BOOLEAN, late : BOOLEAN, evicted : BOOLEAN]

\* What a review pins, and what it refers to, as functions of its record.
Pins(v) == {v.captures[i] : i \in DOMAIN v.captures} \union ({v.baseline} \ {None})
Refs(v) == Pins(v) \union ({v.comparison} \ {None})

\* Images are numbered by their making, and none is capture and comparison.
Numbered(caps, comps, ser) ==
  /\ ser \in Nat \ {0}
  /\ caps \in [DOMAIN caps -> Capture]
  /\ \A a \in DOMAIN caps \union comps : a \in Nat /\ a # None /\ a < ser
  /\ DOMAIN caps \intersect comps = {}

\* A review refers to images that have been made, and the active one has not
\* ended.
Reviewed(revs, act, ser, next) ==
  /\ next \in Nat \ {0}
  /\ revs \in [DOMAIN revs -> Review]
  /\ \A r \in DOMAIN revs :
       r \in Nat /\ r # None /\ r < next /\ \A a \in Refs(revs[r]) : a < ser
  /\ act # None => act \in DOMAIN revs /\ revs[act].state \notin Terminal

\* PinsMatchReview and ReviewsAreTrue of any captures and reviews.
PinsMatch(caps, revs, act) ==
  /\ act # None => Pins(revs[act]) \subseteq DOMAIN caps
  /\ \A a \in DOMAIN caps :
       caps[a].pins = IF act # None /\ a \in Pins(revs[act]) THEN 1 ELSE 0

Exist(caps, comps, revs) ==
  \A r \in DOMAIN revs : ~revs[r].evicted => Refs(revs[r]) \subseteq DOMAIN caps \union comps

Show(caps, revs) ==
  \A r \in DOMAIN revs : \A i \in DOMAIN revs[r].captures :
    revs[r].captures[i] \in DOMAIN caps =>
      /\ caps[revs[r].captures[i]].review = r
      /\ caps[revs[r].captures[i]].view = i

Store(caps, comps, revs, act, ser, next) ==
  /\ Numbered(caps, comps, ser) /\ Reviewed(revs, act, ser, next)
  /\ PinsMatch(caps, revs, act) /\ Exist(caps, comps, revs) /\ Show(caps, revs)

StoreInv == Store(captures, comparisons, reviews, active, serial, nextReview)

\* A capture under way is the next of its review, and of no later one.
PipeInv ==
  /\ render = "begin" => active # None /\ pipe.stage = "empty"
  /\ pipe.stage # "empty" => pipe.review # None /\ pipe.review < nextReview
  /\ pipe.stage # "empty" /\ pipe.review = active =>
       pipe.view = Len(reviews[active].captures) + 1

Inv == TypeOK /\ StoreInv /\ PipeInv /\ BudgetIsKept
-----------------------------------------------------------------------------
(* The budget.                                                             *)

\* A nonempty set of numbers has a least one.
LEMMA LeastOf ==
  ASSUME NEW S, S \subseteq Nat, S # {}
  PROVE  \E n \in S : \A m \in S : n <= m
  <1>1. PICK n \in S : \A m \in S : ~(<<m, n>> \in OpToRel(<, Nat))
    BY NatLessThanWellFounded, WFMin
  <1>2. \A m \in S : n <= m
    <2> SUFFICES ASSUME NEW m \in S PROVE n <= m OBVIOUS
    <2>1. m \in Nat /\ n \in Nat OBVIOUS
    <2>2. ~(m < n) BY <1>1, <2>1 DEF OpToRel
    <2> QED BY <2>1, <2>2
  <1> QED BY <1>2

\* What is evicted was not pinned, and afterwards the budget is kept or nothing
\* is left to evict.
LEMMA EvictedFacts ==
  ASSUME NEW caps, NEW comps, DOMAIN caps \union comps \subseteq Nat
  PROVE  LET out == Evicted(caps, comps) IN
         /\ out \subseteq Evictable(caps, comps)
         /\ \/ Fits(DOMAIN caps \ out, comps \ out)
            \/ out = Evictable(caps, comps)
  <1> DEFINE free == Evictable(caps, comps)
             UpTo(n) == {a \in free : a <= n}
             enough == {n \in free \union {0} : Fits(DOMAIN caps \ UpTo(n), comps \ UpTo(n))}
             out == Evicted(caps, comps)
  <1>1. free \subseteq Nat BY DEF Evictable
  <1>2. CASE enough = {}
    <2>1. out = free BY <1>2 DEF Evicted
    <2> QED BY <2>1
  <1>3. CASE enough # {}
    <2> DEFINE n == CHOOSE n \in enough : \A m \in enough : n <= m
    <2>1. out = UpTo(n) BY <1>3 DEF Evicted
    <2>2. enough \subseteq Nat BY <1>1
    <2>3. \E k \in enough : \A m \in enough : k <= m BY <1>3, <2>2, LeastOf
    <2>4. n \in enough BY <2>3
    <2>5. Fits(DOMAIN caps \ UpTo(n), comps \ UpTo(n)) BY <2>4
    <2> HIDE DEF n, enough
    <2> QED BY <2>1, <2>5
  <1> QED BY <1>2, <1>3

\* Records that differ in their marks only.
Marks(old, new) ==
  /\ DOMAIN new = DOMAIN old
  /\ \A r \in DOMAIN old : new[r] = [old[r] EXCEPT !.evicted = new[r].evicted]

\* Settling a store that is in order keeps it in order, changes no review but for
\* its mark, and keeps the budget.
LEMMA SettleKeeps ==
  ASSUME NEW caps, NEW comps, NEW revs, NEW act, NEW ser, NEW next,
         Store(caps, comps, revs, act, ser, next), Settle(caps, comps, revs)
  PROVE  /\ Store(captures', comparisons', reviews', act, ser, next)
         /\ Marks(revs, reviews') /\ BudgetIsKept' /\ slack' \in BOOLEAN
  <1> DEFINE out == Evicted(caps, comps)
  <1>1. /\ captures' = [a \in DOMAIN caps \ out |-> caps[a]]
        /\ comparisons' = comps \ out
        /\ reviews' = [r \in DOMAIN revs |-> [revs[r] EXCEPT !.evicted = @ \/ Loses(revs[r], out)]]
        /\ slack' = FALSE
    BY DEF Settle
  <1>2. Numbered(caps, comps, ser) /\ Reviewed(revs, act, ser, next) /\ PinsMatch(caps, revs, act)
        /\ Exist(caps, comps, revs) /\ Show(caps, revs)
    BY DEF Store
  <1>3. DOMAIN caps \union comps \subseteq Nat BY <1>2 DEF Numbered
  <1>4. out \subseteq Evictable(caps, comps)
        /\ (Fits(DOMAIN caps \ out, comps \ out) \/ out = Evictable(caps, comps))
    BY <1>3, EvictedFacts
  <1> HIDE DEF out
  <1>5. /\ DOMAIN captures' = DOMAIN caps \ out /\ \A a \in DOMAIN captures' : captures'[a] = caps[a]
        /\ captures' \in [DOMAIN captures' -> Capture]
    BY <1>1, <1>2 DEF Numbered
  <1>6. \A r \in DOMAIN revs :
          /\ reviews'[r] = [revs[r] EXCEPT !.evicted = revs[r].evicted \/ Loses(revs[r], out)]
          /\ reviews'[r] \in Review
          /\ reviews'[r].evicted = (revs[r].evicted \/ Loses(revs[r], out))
          /\ reviews'[r].state = revs[r].state
          /\ reviews'[r].captures = revs[r].captures
          /\ Pins(reviews'[r]) = Pins(revs[r]) /\ Refs(reviews'[r]) = Refs(revs[r])
    <2> SUFFICES ASSUME NEW r \in DOMAIN revs
                 PROVE  /\ reviews'[r] = [revs[r] EXCEPT !.evicted = revs[r].evicted \/ Loses(revs[r], out)]
                        /\ reviews'[r] \in Review
                        /\ reviews'[r].evicted = (revs[r].evicted \/ Loses(revs[r], out))
                        /\ reviews'[r].state = revs[r].state
                        /\ reviews'[r].captures = revs[r].captures
                        /\ Pins(reviews'[r]) = Pins(revs[r]) /\ Refs(reviews'[r]) = Refs(revs[r])
      OBVIOUS
    <2>1. revs[r] \in Review BY <1>2 DEF Reviewed
    <2>2. reviews'[r] = [revs[r] EXCEPT !.evicted = revs[r].evicted \/ Loses(revs[r], out)]
      BY <1>1
    <2> DEFINE e == revs[r].evicted \/ Loses(revs[r], out)
    <2>3. e \in BOOLEAN BY <2>1 DEF Review, Loses
    <2> HIDE DEF e
    <2>4. reviews'[r] = [revs[r] EXCEPT !.evicted = e] BY <2>2 DEF e
    <2>5. /\ reviews'[r] \in Review /\ reviews'[r].evicted = e
          /\ reviews'[r].state = revs[r].state /\ reviews'[r].captures = revs[r].captures
          /\ reviews'[r].baseline = revs[r].baseline
          /\ reviews'[r].comparison = revs[r].comparison
      BY <2>1, <2>3, <2>4 DEF Review
    <2>6. Pins(reviews'[r]) = Pins(revs[r]) BY <2>5 DEF Pins
    <2>7. Refs(reviews'[r]) = Refs(revs[r]) BY <2>5, <2>6 DEF Refs
    <2> QED BY <2>2, <2>5, <2>6, <2>7 DEF e
  <1>7. DOMAIN reviews' = DOMAIN revs BY <1>1
  <1>8. Numbered(captures', comparisons', ser)
    BY <1>1, <1>2, <1>5 DEF Numbered
  <1>9. Reviewed(reviews', act, ser, next)
    <2>1. reviews' = [r \in DOMAIN revs |-> reviews'[r]] BY <1>1
    <2>2. reviews' \in [DOMAIN revs -> Review] BY <1>6, <2>1
    <2> QED BY <1>2, <1>6, <1>7, <2>2 DEF Reviewed
  <1>10. PinsMatch(captures', reviews', act)
    <2>1. act # None => act \in DOMAIN revs /\ Pins(reviews'[act]) = Pins(revs[act])
      BY <1>2, <1>6 DEF Reviewed
    <2>2. ASSUME act # None PROVE Pins(reviews'[act]) \subseteq DOMAIN captures'
      <3> SUFFICES ASSUME NEW a \in Pins(revs[act]), a \in out PROVE FALSE
        BY <1>2, <1>5, <2>1, <2>2 DEF PinsMatch
      <3>1. a \in DOMAIN caps /\ caps[a].pins = 1 BY <1>2, <2>2 DEF PinsMatch
      <3>2. a \notin comps BY <1>2, <3>1 DEF Numbered
      <3> QED BY <1>4, <3>1, <3>2 DEF Evictable
    <2>3. \A a \in DOMAIN captures' :
            captures'[a].pins = IF act # None /\ a \in Pins(reviews'[act]) THEN 1 ELSE 0
      BY <1>2, <1>5, <2>1 DEF PinsMatch
    <2> QED BY <2>2, <2>3 DEF PinsMatch
  <1>11. Exist(captures', comparisons', reviews')
    <2> SUFFICES ASSUME NEW r \in DOMAIN revs, ~reviews'[r].evicted, NEW a \in Refs(revs[r])
                 PROVE  a \in DOMAIN captures' \union comparisons'
      BY <1>6, <1>7 DEF Exist
    <2>1. ~revs[r].evicted /\ ~Loses(revs[r], out) BY <1>6
    <2>2. a \in DOMAIN caps \union comps BY <1>2, <2>1 DEF Exist
    <2>3. a \notin out BY <2>1 DEF Loses, Refs, Pins
    <2> QED BY <1>1, <1>5, <2>2, <2>3
  <1>12. Show(captures', reviews')
    BY <1>2, <1>5, <1>6, <1>7 DEF Show
  <1>13. Marks(revs, reviews')
    <2> SUFFICES ASSUME NEW r \in DOMAIN revs
                 PROVE  reviews'[r] = [revs[r] EXCEPT !.evicted = reviews'[r].evicted]
      BY <1>7 DEF Marks
    <2> QED BY <1>6
  <1>14. BudgetIsKept'
    <2>1. CASE Fits(DOMAIN caps \ out, comps \ out)
      <3>1. Fits(DOMAIN captures', comparisons') BY <1>1, <1>5, <2>1
      <3>2. Fits(DOMAIN captures, comparisons)' BY <3>1 DEF Fits
      <3> QED BY <3>2 DEF BudgetIsKept
    <2>2. CASE out = Evictable(caps, comps)
      <3>1. \A a \in DOMAIN captures' : captures'[a].pins # 0 BY <1>5, <2>2 DEF Evictable
      <3>2. comparisons' = {} BY <1>1, <2>2 DEF Evictable
      <3>3. Evictable(captures, comparisons)' = {} BY <3>1, <3>2 DEF Evictable
      <3> QED BY <3>3 DEF BudgetIsKept
    <2> QED BY <1>4, <2>1, <2>2
  <1> QED BY <1>1, <1>8, <1>9, <1>10, <1>11, <1>12, <1>13, <1>14 DEF Store
-----------------------------------------------------------------------------
(* The active review.                                                      *)

\* Its record changes, but not what it shows and compares with; a comparison it
\* gets exists.
LEMMA ReplaceActive ==
  ASSUME NEW caps, NEW comps, NEW revs, NEW act, NEW ser, NEW next, NEW v \in Review,
         Numbered(caps, comps, ser), Reviewed(revs, act, ser, next),
         Exist(caps, comps, revs), Show(caps, revs), act # None,
         v.captures = revs[act].captures, v.baseline = revs[act].baseline,
         v.comparison \in {revs[act].comparison} \union comps,
         v.evicted \/ ~revs[act].evicted
  PROVE  LET new == [revs EXCEPT ![act] = v] IN
         /\ Reviewed(new, None, ser, next) /\ Exist(caps, comps, new) /\ Show(caps, new)
         /\ v.state \notin Terminal => Reviewed(new, act, ser, next)
         /\ DOMAIN new = DOMAIN revs /\ new[act] = v /\ act \in DOMAIN revs
         /\ \A r \in DOMAIN revs \ {act} : new[r] = revs[r]
         /\ Pins(v) = Pins(revs[act])
  <1> DEFINE new == [revs EXCEPT ![act] = v]
  <1>1. act \in DOMAIN revs /\ revs \in [DOMAIN revs -> Review] BY DEF Reviewed
  <1>2. /\ DOMAIN new = DOMAIN revs /\ new[act] = v
        /\ \A r \in DOMAIN revs \ {act} : new[r] = revs[r]
        /\ new \in [DOMAIN revs -> Review]
    BY <1>1
  <1>3. Pins(v) = Pins(revs[act]) BY DEF Pins
  <1>4. Refs(v) \subseteq Refs(revs[act]) \union comps BY <1>3 DEF Refs
  <1> HIDE DEF new
  <1>5. \A r \in DOMAIN new : r \in Nat /\ r # None /\ r < next /\ \A a \in Refs(new[r]) : a < ser
    BY <1>1, <1>2, <1>4 DEF Reviewed, Numbered
  <1>6. Reviewed(new, None, ser, next) BY <1>2, <1>5 DEF Reviewed
  <1>7. v.state \notin Terminal => Reviewed(new, act, ser, next) BY <1>1, <1>2, <1>5 DEF Reviewed
  <1>8. Exist(caps, comps, new) BY <1>1, <1>2, <1>4 DEF Exist
  <1>9. Show(caps, new) BY <1>1, <1>2 DEF Show
  <1> QED BY <1>1, <1>2, <1>3, <1>6, <1>7, <1>8, <1>9 DEF new

\* The review goes on.
LEMMA GoesOn ==
  ASSUME NEW caps, NEW comps, NEW revs, NEW act, NEW ser, NEW next, NEW v \in Review,
         Store(caps, comps, revs, act, ser, next), act # None,
         v.captures = revs[act].captures, v.baseline = revs[act].baseline,
         v.comparison = revs[act].comparison, v.evicted = revs[act].evicted,
         v.state \notin Terminal
  PROVE  Store(caps, comps, [revs EXCEPT ![act] = v], act, ser, next)
  <1> DEFINE new == [revs EXCEPT ![act] = v]
  <1>1. Numbered(caps, comps, ser) /\ Reviewed(revs, act, ser, next) /\ PinsMatch(caps, revs, act)
        /\ Exist(caps, comps, revs) /\ Show(caps, revs)
    BY DEF Store
  <1>2. v.comparison \in {revs[act].comparison} \union comps /\ (v.evicted \/ ~revs[act].evicted)
    OBVIOUS
  <1>3. /\ Exist(caps, comps, new) /\ Show(caps, new) /\ Reviewed(new, act, ser, next)
        /\ act \in DOMAIN revs /\ Pins(v) = Pins(revs[act])
    BY <1>1, <1>2, ReplaceActive
  <1>4. new[act] = v BY <1>3
  <1> HIDE DEF new
  <1>5. PinsMatch(caps, new, act) BY <1>1, <1>3, <1>4 DEF PinsMatch
  <1> QED BY <1>1, <1>3, <1>5 DEF Store, new

\* What the release of a review's pins leaves of captures in order.
LEMMA ReleasedFacts ==
  ASSUME StoreInv, active # None
  PROVE  LET caps == Released(active) IN
         /\ DOMAIN caps = DOMAIN captures /\ caps \in [DOMAIN captures -> Capture]
         /\ \A a \in DOMAIN captures :
              /\ caps[a].pins = 0 /\ caps[a].review = captures[a].review
              /\ caps[a].view = captures[a].view
  <1> DEFINE caps == Released(active)
  <1>1. caps = [a \in DOMAIN captures |->
                  IF a \in Pinned(active) /\ captures[a].pins # 0
                  THEN [captures[a] EXCEPT !.pins = @ - 1] ELSE captures[a]]
    BY DEF Released
  <1>2. Pinned(active) = Pins(reviews[active]) BY DEF Pinned, Shown, Baseline, Pins
  <1>3. /\ captures \in [DOMAIN captures -> Capture]
        /\ \A a \in DOMAIN captures :
             captures[a].pins = IF a \in Pinned(active) THEN 1 ELSE 0
    BY <1>2 DEF StoreInv, Store, Numbered, PinsMatch
  <1>4. ASSUME NEW a \in DOMAIN captures
        PROVE  /\ caps[a] \in Capture /\ caps[a].pins = 0
               /\ caps[a].review = captures[a].review /\ caps[a].view = captures[a].view
    <2>1. captures[a] \in Capture BY <1>3
    <2>2. CASE a \in Pinned(active)
      <3>1. captures[a].pins = 1 BY <1>3, <2>2
      <3>2. caps[a] = [captures[a] EXCEPT !.pins = 0] BY <1>1, <2>2, <3>1
      <3> HIDE DEF caps
      <3> QED BY <2>1, <3>2 DEF Capture
    <2>3. CASE a \notin Pinned(active)
      <3>1. captures[a].pins = 0 /\ caps[a] = captures[a] BY <1>1, <1>3, <2>3
      <3> QED BY <2>1, <3>1
    <2> QED BY <2>2, <2>3
  <1>5. DOMAIN caps = DOMAIN captures /\ caps = [a \in DOMAIN captures |-> caps[a]] BY <1>1
  <1> HIDE DEF caps
  <1>6. caps \in [DOMAIN captures -> Capture] BY <1>4, <1>5
  <1> QED BY <1>4, <1>5, <1>6 DEF caps

\* The review ends and gives back its pins.
LEMMA Ends ==
  ASSUME NEW comps, NEW ser, NEW v \in Review, StoreInv,
         Store(captures, comps, reviews, active, ser, nextReview), active # None,
         v.captures = reviews[active].captures, v.baseline = reviews[active].baseline,
         v.comparison \in {reviews[active].comparison} \union comps,
         v.evicted \/ ~reviews[active].evicted
  PROVE  /\ Store(Released(active), comps, [reviews EXCEPT ![active] = v], None, ser, nextReview)
         /\ active \in DOMAIN reviews
  <1> DEFINE new == [reviews EXCEPT ![active] = v]
             caps == Released(active)
  <1>1. /\ Numbered(captures, comps, ser) /\ Reviewed(reviews, active, ser, nextReview)
        /\ Exist(captures, comps, reviews) /\ Show(captures, reviews)
    BY DEF Store
  <1>2. /\ Exist(captures, comps, new) /\ Show(captures, new)
        /\ Reviewed(new, None, ser, nextReview) /\ active \in DOMAIN reviews
    BY <1>1, ReplaceActive
  <1>3. /\ DOMAIN caps = DOMAIN captures /\ caps \in [DOMAIN captures -> Capture]
        /\ \A a \in DOMAIN captures :
             /\ caps[a].pins = 0 /\ caps[a].review = captures[a].review
             /\ caps[a].view = captures[a].view
    BY ReleasedFacts
  <1> HIDE DEF new, caps
  <1>4. Numbered(caps, comps, ser) BY <1>1, <1>3 DEF Numbered
  <1>5. PinsMatch(caps, new, None) BY <1>3 DEF PinsMatch
  <1>6. Exist(caps, comps, new) BY <1>2, <1>3 DEF Exist
  <1>7. Show(caps, new) BY <1>2, <1>3 DEF Show
  <1> QED BY <1>2, <1>4, <1>5, <1>6, <1>7 DEF Store, new, caps
-----------------------------------------------------------------------------
(* New images and reviews.                                                 *)

\* A capture is stored under the next number.
LEMMA CaptureAdded ==
  ASSUME StoreInv, NEW c \in Capture
  PROVE  LET caps == [a \in DOMAIN captures \union {serial} |-> IF a = serial THEN c ELSE captures[a]] IN
         /\ Numbered(caps, comparisons, serial + 1)
         /\ DOMAIN caps = DOMAIN captures \union {serial} /\ caps[serial] = c
         /\ serial \notin DOMAIN captures
         /\ \A a \in DOMAIN captures : caps[a] = captures[a]
         /\ Exist(caps, comparisons, reviews) /\ Show(caps, reviews)
         /\ Reviewed(reviews, active, serial + 1, nextReview)
         /\ \A r \in DOMAIN reviews : serial \notin Refs(reviews[r])
  <1> DEFINE caps == [a \in DOMAIN captures \union {serial} |-> IF a = serial THEN c ELSE captures[a]]
  <1>1. Numbered(captures, comparisons, serial) /\ Reviewed(reviews, active, serial, nextReview)
        /\ PinsMatch(captures, reviews, active) /\ Exist(captures, comparisons, reviews)
        /\ Show(captures, reviews)
    BY DEF StoreInv, Store
  <1>2. serial \in Nat \ {0} /\ serial \notin DOMAIN captures /\ serial \notin comparisons
    BY <1>1 DEF Numbered
  <1>3. /\ DOMAIN caps = DOMAIN captures \union {serial} /\ caps[serial] = c
        /\ \A a \in DOMAIN captures : caps[a] = captures[a]
        /\ caps \in [DOMAIN captures \union {serial} -> Capture]
    BY <1>1, <1>2 DEF Numbered
  <1> HIDE DEF caps
  <1>4. Numbered(caps, comparisons, serial + 1)
    BY <1>1, <1>2, <1>3 DEF Numbered, None
  <1>5. \A r \in DOMAIN reviews : \A a \in Refs(reviews[r]) : a < serial /\ a < serial + 1
    <2> SUFFICES ASSUME NEW r \in DOMAIN reviews, NEW a \in Refs(reviews[r])
                 PROVE  a < serial /\ a < serial + 1
      OBVIOUS
    <2>1. reviews[r] \in Review BY <1>1 DEF Reviewed
    <2>2. a \in Nat
      BY <2>1, ElementOfSeq, LenProperties DEF Refs, Pins, Review
    <2>3. a < serial BY <1>1 DEF Reviewed
    <2> QED BY <1>2, <2>2, <2>3
  <1>6. \A r \in DOMAIN reviews : serial \notin Refs(reviews[r]) BY <1>2, <1>5
  <1>7. Reviewed(reviews, active, serial + 1, nextReview) BY <1>1, <1>5 DEF Reviewed
  <1>8. Exist(caps, comparisons, reviews) BY <1>1, <1>3 DEF Exist
  <1>9. Show(caps, reviews)
    <2> SUFFICES ASSUME NEW r \in DOMAIN reviews, NEW i \in DOMAIN reviews[r].captures,
                        reviews[r].captures[i] \in DOMAIN caps
                 PROVE  /\ caps[reviews[r].captures[i]].review = r
                        /\ caps[reviews[r].captures[i]].view = i
      BY DEF Show
    <2>1. reviews[r] \in Review BY <1>1 DEF Reviewed
    <2>2. reviews[r].captures[i] \in Nat BY <2>1, ElementOfSeq, LenProperties DEF Review
    <2>3. reviews[r].captures[i] # serial
      <3>1. CASE reviews[r].captures[i] = None BY <1>2, <3>1 DEF None
      <3>2. CASE reviews[r].captures[i] # None BY <1>6, <3>2 DEF Refs, Pins
      <3> QED BY <3>1, <3>2
    <2> QED BY <1>1, <1>3, <2>3 DEF Show
  <1> QED BY <1>2, <1>3, <1>4, <1>6, <1>7, <1>8, <1>9 DEF caps

\* One that no review pins.
LEMMA ViewportAdded ==
  ASSUME StoreInv, NEW c \in Capture, c.pins = 0
  PROVE  Store([a \in DOMAIN captures \union {serial} |-> IF a = serial THEN c ELSE captures[a]],
               comparisons, reviews, active, serial + 1, nextReview)
  <1> DEFINE caps == [a \in DOMAIN captures \union {serial} |-> IF a = serial THEN c ELSE captures[a]]
  <1>1. PinsMatch(captures, reviews, active) /\ Reviewed(reviews, active, serial, nextReview)
    BY DEF StoreInv, Store
  <1>2. /\ Numbered(caps, comparisons, serial + 1)
        /\ DOMAIN caps = DOMAIN captures \union {serial} /\ caps[serial] = c
        /\ \A a \in DOMAIN captures : caps[a] = captures[a]
        /\ Exist(caps, comparisons, reviews) /\ Show(caps, reviews)
        /\ Reviewed(reviews, active, serial + 1, nextReview)
        /\ \A r \in DOMAIN reviews : serial \notin Refs(reviews[r])
    BY CaptureAdded
  <1> HIDE DEF caps
  <1>3. active # None => serial \notin Pins(reviews[active])
    BY <1>1, <1>2 DEF Reviewed, Refs
  <1>4. PinsMatch(caps, reviews, active) BY <1>1, <1>2, <1>3 DEF PinsMatch
  <1> QED BY <1>2, <1>4 DEF Store, caps

\* The next view of the active review, pinned by it.
LEMMA ViewAdded ==
  ASSUME StoreInv, active # None, NEW c \in Capture, c.pins = 1, c.review = active,
         c.view = Len(reviews[active].captures) + 1
  PROVE  Store([a \in DOMAIN captures \union {serial} |-> IF a = serial THEN c ELSE captures[a]],
               comparisons,
               [reviews EXCEPT ![active].captures = Append(@, serial)],
               active, serial + 1, nextReview)
  <1> DEFINE caps == [a \in DOMAIN captures \union {serial} |-> IF a = serial THEN c ELSE captures[a]]
             w == reviews[active]
             v == [w EXCEPT !.captures = Append(w.captures, serial)]
             new == [reviews EXCEPT ![active].captures = Append(@, serial)]
  <1>1. PinsMatch(captures, reviews, active) /\ Reviewed(reviews, active, serial, nextReview)
        /\ Numbered(captures, comparisons, serial)
    BY DEF StoreInv, Store
  <1>2. /\ Numbered(caps, comparisons, serial + 1)
        /\ DOMAIN caps = DOMAIN captures \union {serial} /\ caps[serial] = c
        /\ serial \notin DOMAIN captures
        /\ \A a \in DOMAIN captures : caps[a] = captures[a]
        /\ Exist(caps, comparisons, reviews) /\ Show(caps, reviews)
        /\ Reviewed(reviews, active, serial + 1, nextReview)
        /\ \A r \in DOMAIN reviews : serial \notin Refs(reviews[r])
    BY CaptureAdded
  <1>3. active \in DOMAIN reviews /\ w \in Review /\ serial \in Nat \ {0} /\ w.state \notin Terminal
    BY <1>1 DEF Reviewed, Numbered
  <1>4. new = [reviews EXCEPT ![active] = v] BY <1>3
  <1>5. /\ DOMAIN new = DOMAIN reviews /\ new[active] = v
        /\ \A r \in DOMAIN reviews \ {active} : new[r] = reviews[r]
    BY <1>3, <1>4
  <1>6. w.captures \in Seq(Nat) /\ Append(w.captures, serial) \in Seq(Nat)
    BY <1>3 DEF Review
  <1>7. /\ v \in Review /\ v.captures = Append(w.captures, serial) /\ v.baseline = w.baseline
        /\ v.comparison = w.comparison /\ v.evicted = w.evicted /\ v.state = w.state
    BY <1>3, <1>6 DEF Review
  <1> HIDE DEF caps, new, v
  <1>8. /\ DOMAIN v.captures = DOMAIN w.captures \union {Len(w.captures) + 1}
        /\ v.captures[Len(w.captures) + 1] = serial
        /\ \A i \in DOMAIN w.captures : v.captures[i] = w.captures[i]
    <2> DEFINE q == w.captures
               n == Len(q)
    <2>1. q \in Seq(Nat) /\ serial \in Nat BY <1>3, <1>6
    <2>2. DOMAIN q = 1 .. n /\ n \in Nat BY <2>1, LenProperties
    <2> HIDE DEF n, q
    <2>3. /\ Append(q, serial) \in Seq(Nat) /\ Len(Append(q, serial)) = n + 1
          /\ \A i \in 1 .. n : Append(q, serial)[i] = q[i]
          /\ Append(q, serial)[n + 1] = serial
      BY <2>1, AppendProperties DEF n
    <2>4. DOMAIN Append(q, serial) = 1 .. n + 1 BY <2>3, LenProperties
    <2>5. 1 .. n + 1 = 1 .. n \union {n + 1} BY <2>2
    <2>6. v.captures = Append(q, serial) BY <1>7 DEF q
    <2>7. /\ DOMAIN v.captures = DOMAIN q \union {n + 1} /\ v.captures[n + 1] = serial
          /\ \A i \in DOMAIN q : v.captures[i] = q[i]
      BY <2>2, <2>3, <2>4, <2>5, <2>6
    <2> QED BY <2>7 DEF n, q
  <1>9. Pins(v) = Pins(w) \union {serial}
    <2>1. {v.captures[i] : i \in DOMAIN v.captures} =
            {w.captures[i] : i \in DOMAIN w.captures} \union {serial}
      BY <1>8
    <2> QED BY <1>7, <2>1 DEF Pins
  <1>10. Refs(v) = Refs(w) \union {serial} BY <1>7, <1>9 DEF Refs
  <1>11. Reviewed(new, active, serial + 1, nextReview)
    <2>1. new \in [DOMAIN new -> Review] BY <1>1, <1>3, <1>4, <1>7 DEF Reviewed
    <2>2. \A r \in DOMAIN new : \A a \in Refs(new[r]) : a < serial + 1
      BY <1>2, <1>3, <1>5, <1>10 DEF Reviewed
    <2> QED BY <1>1, <1>3, <1>5, <1>7, <2>1, <2>2 DEF Reviewed
  <1>12. PinsMatch(caps, new, active)
    <2>1. serial \notin Pins(w) BY <1>2, <1>3 DEF Refs
    <2> HIDE DEF w
    <2>2. Pins(w) \subseteq DOMAIN captures
          /\ \A a \in DOMAIN captures : captures[a].pins = IF a \in Pins(w) THEN 1 ELSE 0
      BY <1>1 DEF PinsMatch, w
    <2> QED BY <1>2, <1>5, <1>9, <2>1, <2>2 DEF PinsMatch
  <1>13. Exist(caps, comparisons, new)
    BY <1>2, <1>3, <1>5, <1>7, <1>10 DEF Exist
  <1>14. Show(caps, new)
    <2> SUFFICES ASSUME NEW r \in DOMAIN new, NEW i \in DOMAIN new[r].captures,
                        new[r].captures[i] \in DOMAIN caps
                 PROVE  /\ caps[new[r].captures[i]].review = r
                        /\ caps[new[r].captures[i]].view = i
      BY DEF Show
    <2>1. CASE r # active BY <1>2, <1>5, <2>1 DEF Show
    <2>2. CASE r = active /\ i \in DOMAIN w.captures
      BY <1>2, <1>3, <1>5, <1>8, <2>2 DEF Show
    <2>3. CASE r = active /\ i = Len(w.captures) + 1
      BY <1>2, <1>5, <1>8, <2>3
    <2> QED BY <1>5, <1>8, <2>1, <2>2, <2>3
  <1> QED BY <1>2, <1>11, <1>12, <1>13, <1>14 DEF Store, caps, new

\* A comparison, made by a client or by a review.
LEMMA ComparisonAdded ==
  ASSUME StoreInv
  PROVE  /\ Store(captures, comparisons \union {serial}, reviews, active, serial + 1, nextReview)
         /\ serial + 1 \in Nat \ {0}
  <1>1. Numbered(captures, comparisons, serial) /\ Reviewed(reviews, active, serial, nextReview)
        /\ PinsMatch(captures, reviews, active) /\ Exist(captures, comparisons, reviews)
        /\ Show(captures, reviews)
    BY DEF StoreInv, Store
  <1>2. Numbered(captures, comparisons \union {serial}, serial + 1)
    BY <1>1 DEF Numbered, None
  <1>3. \A r \in DOMAIN reviews : \A a \in Refs(reviews[r]) : a < serial + 1
    <2> SUFFICES ASSUME NEW r \in DOMAIN reviews, NEW a \in Refs(reviews[r]) PROVE a < serial + 1
      OBVIOUS
    <2>1. reviews[r] \in Review BY <1>1 DEF Reviewed
    <2>2. a \in Nat BY <2>1, ElementOfSeq, LenProperties DEF Refs, Pins, Review
    <2>3. a < serial BY <1>1 DEF Reviewed
    <2> QED BY <1>1, <2>2, <2>3 DEF Numbered
  <1>4. Reviewed(reviews, active, serial + 1, nextReview) BY <1>1, <1>3 DEF Reviewed
  <1>5. Exist(captures, comparisons \union {serial}, reviews) BY <1>1 DEF Exist
  <1> QED BY <1>1, <1>2, <1>4, <1>5 DEF Store, Numbered

\* A review starts, and pins its baseline.
LEMMA ReviewAdded ==
  ASSUME StoreInv, NEW base, StartReview(base)
  PROVE  /\ StoreInv'
         /\ \A r \in DOMAIN reviews \intersect DOMAIN reviews' : reviews'[r] = reviews[r]
         /\ DOMAIN captures' = DOMAIN captures
         /\ \A a \in DOMAIN captures : captures[a].pins = 0
  <1> DEFINE v == [state |-> "queued", baseline |-> base, captures |-> <<>>,
                   comparison |-> None, cancel |-> FALSE, late |-> FALSE, evicted |-> FALSE]
             kept == {r \in DOMAIN reviews : r + KeptReviews > nextReview}
             n == nextReview
  <1>1. /\ active = None /\ active' = n /\ nextReview' = n + 1
        /\ base \in DOMAIN captures \union {None}
        /\ reviews' = [r \in kept \union {n} |-> IF r = n THEN v ELSE reviews[r]]
        /\ captures' = [a \in DOMAIN captures |->
                           IF a = base THEN [captures[a] EXCEPT !.pins = @ + 1] ELSE captures[a]]
        /\ UNCHANGED <<comparisons, serial>>
    BY DEF StartReview
  <1>2. Numbered(captures, comparisons, serial) /\ Reviewed(reviews, active, serial, n)
        /\ PinsMatch(captures, reviews, active) /\ Exist(captures, comparisons, reviews)
        /\ Show(captures, reviews)
    BY DEF StoreInv, Store
  <1>3. /\ n \in Nat \ {0} /\ n \notin DOMAIN reviews /\ kept \subseteq DOMAIN reviews
        /\ base \in Nat
    BY <1>1, <1>2 DEF Reviewed, Numbered, None
  <1>4. v \in Review
    <2>1. << >> \in Seq(Nat) OBVIOUS
    <2> QED BY <1>3, <2>1 DEF Review, States, None
  <1>5. Pins(v) = {base} \ {None} /\ Refs(v) = {base} \ {None} /\ v.state \notin Terminal
    BY DEF Pins, Refs, Terminal
  <1>6. /\ v.captures = << >> /\ ~v.evicted OBVIOUS
  <1> HIDE DEF v, kept, n
  <1>7. /\ DOMAIN reviews' = kept \union {n} /\ reviews'[n] = v
        /\ \A r \in kept : reviews'[r] = reviews[r]
        /\ reviews' \in [kept \union {n} -> Review]
    BY <1>1, <1>2, <1>3, <1>4 DEF Reviewed
  <1>8. ASSUME NEW a \in DOMAIN captures
        PROVE  /\ captures[a].pins = 0 /\ captures'[a] \in Capture
               /\ captures'[a].pins = (IF a = base THEN 1 ELSE 0)
               /\ captures'[a].review = captures[a].review
               /\ captures'[a].view = captures[a].view
    <2>1. captures[a] \in Capture /\ captures[a].pins = 0 BY <1>1, <1>2 DEF Numbered, PinsMatch
    <2>2. CASE a = base
      <3>1. captures'[a] = [captures[a] EXCEPT !.pins = 1] BY <1>1, <2>1, <2>2
      <3> QED BY <2>1, <2>2, <3>1 DEF Capture
    <2>3. CASE a # base
      <3>1. captures'[a] = captures[a] BY <1>1, <2>3
      <3> QED BY <2>1, <2>3, <3>1
    <2> QED BY <2>2, <2>3
  <1>9. DOMAIN captures' = DOMAIN captures /\ captures' = [a \in DOMAIN captures |-> captures'[a]]
    BY <1>1
  <1>10. Numbered(captures', comparisons', serial')
    <2>1. captures' \in [DOMAIN captures' -> Capture] BY <1>8, <1>9
    <2> QED BY <1>1, <1>2, <1>9, <2>1 DEF Numbered
  <1>11. Reviewed(reviews', active', serial', nextReview')
    <2>1. \A a \in Refs(v) : a < serial BY <1>1, <1>2, <1>5 DEF Numbered
    <2>2. \A r \in kept : r \in Nat /\ r # None /\ r < n /\ \A a \in Refs(reviews[r]) : a < serial
      BY <1>2, <1>3 DEF Reviewed
    <2>3. n # None /\ n + 1 \in Nat \ {0} /\ n < n + 1 /\ \A r \in kept : r < n + 1
      BY <1>3, <2>2 DEF None
    <2>4. \A r \in DOMAIN reviews' :
            r \in Nat /\ r # None /\ r < n + 1 /\ \A a \in Refs(reviews'[r]) : a < serial
      BY <1>3, <1>7, <2>1, <2>2, <2>3
    <2> QED BY <1>1, <1>5, <1>7, <2>3, <2>4 DEF Reviewed
  <1>12. PinsMatch(captures', reviews', active')
    <2>1. Pins(reviews'[active']) = {base} \ {None} /\ active' # None
      BY <1>1, <1>3, <1>5, <1>7 DEF None
    <2>2. {base} \ {None} \subseteq DOMAIN captures' BY <1>1, <1>9
    <2>3. \A a \in DOMAIN captures : a # None BY <1>2 DEF Numbered
    <2> QED BY <1>8, <1>9, <2>1, <2>2, <2>3 DEF PinsMatch
  <1>13. Exist(captures', comparisons', reviews')
    <2>1. Refs(v) \subseteq DOMAIN captures BY <1>1, <1>5
    <2> QED BY <1>1, <1>2, <1>3, <1>7, <1>9, <2>1 DEF Exist
  <1>14. Show(captures', reviews')
    <2>1. DOMAIN v.captures = {} BY <1>6
    <2> QED BY <1>2, <1>3, <1>7, <1>8, <1>9, <2>1 DEF Show
  <1>15. \A r \in DOMAIN reviews \intersect DOMAIN reviews' : reviews'[r] = reviews[r]
    BY <1>3, <1>7
  <1> QED BY <1>8, <1>9, <1>10, <1>11, <1>12, <1>13, <1>14, <1>15 DEF StoreInv, Store
-----------------------------------------------------------------------------
(* Every step.                                                             *)

RestOK ==
  /\ pipe \in [stage : Stages, review : Nat, view : Nat]
  /\ render \in {"idle", "advance", "begin", "stopping"}
  /\ running \in BOOLEAN /\ slack \in BOOLEAN
  /\ bounds \in [requests : Nat, stops : Nat]

\* No review but the active one changes, but for its mark.
Others ==
  \A r \in DOMAIN reviews \intersect DOMAIN reviews' :
    r # active => reviews'[r] = [reviews[r] EXCEPT !.evicted = reviews'[r].evicted]

LEMMA TypeFromStore == StoreInv' /\ RestOK' => TypeOK'
  <1> SUFFICES ASSUME StoreInv', RestOK' PROVE TypeOK' OBVIOUS
  <1>1. Numbered(captures', comparisons', serial') /\ Reviewed(reviews', active', serial', nextReview')
    BY DEF StoreInv, Store
  <1>2. DOMAIN captures' \in SUBSET Nat /\ comparisons' \subseteq Nat /\ serial' \in Nat \ {0}
        /\ captures' \in [DOMAIN captures' -> [pins : Nat, review : Nat, view : Nat]]
    BY <1>1 DEF Numbered, Capture
  <1>3. /\ DOMAIN reviews' \in SUBSET Nat /\ nextReview' \in Nat \ {0}
        /\ active' \in DOMAIN reviews' \union {None}
        /\ reviews' \in [DOMAIN reviews' ->
              [state : States, baseline : Nat, captures : Seq(Nat), comparison : Nat,
               cancel : BOOLEAN, late : BOOLEAN, evicted : BOOLEAN]]
    BY <1>1 DEF Reviewed, Review
  <1> QED BY <1>2, <1>3 DEF TypeOK, RestOK

LEMMA TypesOf ==
  ASSUME Inv
  PROVE  RestOK /\ (active # None => active \in DOMAIN reviews /\ reviews[active] \in Review
                                    /\ reviews[active].state \notin Terminal)
         /\ nextReview \in Nat \ {0} /\ serial \in Nat \ {0} /\ active \in Nat
         /\ \A r \in DOMAIN reviews : r \in Nat /\ r < nextReview /\ reviews[r] \in Review
  <1>1. Numbered(captures, comparisons, serial) /\ Reviewed(reviews, active, serial, nextReview)
    BY DEF Inv, StoreInv, Store
  <1> QED BY <1>1 DEF Inv, TypeOK, RestOK, Numbered, Reviewed, None

\* Nothing is stored.
Quiet == UNCHANGED <<captures, comparisons, serial, reviews, nextReview, active, slack>>

LEMMA QuietKeeps == ASSUME Inv, Quiet PROVE StoreInv' /\ BudgetIsKept' /\ Others
  <1>1. UNCHANGED <<captures, comparisons, serial, reviews, nextReview, active, slack>> BY DEF Quiet
  <1>2. StoreInv' BY <1>1 DEF Inv, StoreInv
  <1>3. BudgetIsKept' BY <1>1 DEF Inv, BudgetIsKept, Fits, Evictable
  <1>4. \A r \in DOMAIN reviews : reviews[r] = [reviews[r] EXCEPT !.evicted = reviews[r].evicted]
    BY TypesOf DEF Review
  <1> QED BY <1>1, <1>2, <1>3, <1>4 DEF Others

\* The same capture is under way, if any.
SamePipe ==
  /\ pipe'.review = pipe.review /\ pipe'.view = pipe.view
  /\ pipe'.stage = "empty" <=> pipe.stage = "empty"

LEMMA PipeStays ==
  ASSUME Inv, SamePipe, nextReview' = nextReview,
         active' # None => active' = active /\ reviews'[active].captures = reviews[active].captures,
         render' = "begin" =>
          (render = "begin" /\ active' = active) \/ (active' # None /\ pipe.stage = "empty")
  PROVE  PipeInv'
  BY DEF Inv, PipeInv, SamePipe

LEMMA PipeEmpties == ASSUME pipe' = EmptyPipe, render' # "begin" PROVE PipeInv'
  BY DEF PipeInv, EmptyPipe

LEMMA SamePipeOf == UNCHANGED pipe => SamePipe
  BY DEF SamePipe

\* Frames that store nothing, the GPU, the encoder, and the server's threads.
Unstored ==
  \/ PollNothing \/ PollCopied \/ PollStale \/ NoReview \/ Waits \/ Begins \/ Copies(TRUE)
  \/ ServerStopped \/ GpuCopies \/ (\E ok \in BOOLEAN : Encodes(ok)) \/ StartServer

LEMMA UnstoredKeeps == ASSUME Inv, Unstored PROVE Inv' /\ Others
  <1>1. Quiet
    <2>1. CASE PollNothing BY <2>1 DEF PollNothing, Quiet
    <2>2. CASE PollCopied BY <2>2 DEF PollCopied, Quiet
    <2>3. CASE PollStale BY <2>3 DEF PollStale, Quiet
    <2>4. CASE NoReview BY <2>4 DEF NoReview, Quiet
    <2>5. CASE Waits BY <2>5 DEF Waits, Quiet
    <2>6. CASE Begins BY <2>6 DEF Begins, Quiet
    <2>7. CASE Copies(TRUE) BY <2>7 DEF Copies, Quiet
    <2>8. CASE ServerStopped BY <2>8 DEF ServerStopped, Quiet
    <2>9. CASE GpuCopies BY <2>9 DEF GpuCopies, Quiet
    <2>10. CASE \E ok \in BOOLEAN : Encodes(ok) BY <2>10 DEF Encodes, Quiet
    <2>11. CASE StartServer BY <2>11 DEF StartServer, Quiet
    <2> QED BY <2>1, <2>2, <2>3, <2>4, <2>5, <2>6, <2>7, <2>8, <2>9, <2>10, <2>11 DEF Unstored
  <1>2. StoreInv' /\ BudgetIsKept' /\ Others BY <1>1, QuietKeeps
  <1>3. UNCHANGED <<captures, comparisons, serial, reviews, nextReview, active, slack>>
    BY <1>1 DEF Quiet
  <1>4. RestOK /\ PipeInv /\ active \in Nat /\ nextReview \in Nat
    BY TypesOf DEF Inv
  <1>5. RestOK'
    <2>1. CASE PollNothing BY <1>3, <1>4, <2>1 DEF PollNothing, ToAdvance, RestOK
    <2>2. CASE PollCopied BY <1>3, <1>4, <2>2 DEF PollCopied, ToAdvance, RestOK, Stages
    <2>3. CASE PollStale
      BY <1>3, <1>4, <2>3 DEF PollStale, ToAdvance, RestOK, Stages, EmptyPipe, None
    <2>4. CASE NoReview BY <1>3, <1>4, <2>4 DEF NoReview, Idles, RestOK
    <2>5. CASE Waits BY <1>3, <1>4, <2>5 DEF Waits, Idles, RestOK
    <2>6. CASE Begins BY <1>3, <1>4, <2>6 DEF Begins, RestOK
    <2>7. CASE Copies(TRUE)
      <3>1. active # None BY <1>4, <2>7 DEF Copies, PipeInv
      <3>2. reviews[active] \in Review BY <3>1, TypesOf
      <3>3. Len(reviews[active].captures) + 1 \in Nat BY <3>2, LenProperties DEF Review
      <3> QED BY <1>3, <1>4, <2>7, <3>3 DEF Copies, RestOK, Stages
    <2>8. CASE ServerStopped BY <1>3, <1>4, <2>8 DEF ServerStopped, RestOK
    <2>9. CASE GpuCopies BY <1>3, <1>4, <2>9 DEF GpuCopies, RestOK, Stages
    <2>10. CASE \E ok \in BOOLEAN : Encodes(ok)
      BY <1>3, <1>4, <2>10 DEF Encodes, RestOK, Stages
    <2>11. CASE StartServer BY <1>3, <1>4, <2>11 DEF StartServer, RestOK
    <2> QED BY <2>1, <2>2, <2>3, <2>4, <2>5, <2>6, <2>7, <2>8, <2>9, <2>10, <2>11 DEF Unstored
  <1>6. PipeInv'
    <2>1. CASE SamePipe /\ (render' # "begin" \/ UNCHANGED render)
      <3>1. nextReview' = nextReview BY <1>3
      <3>2. active' # None => active' = active /\ reviews'[active].captures = reviews[active].captures
        BY <1>3
      <3>3. render' = "begin" =>
          (render = "begin" /\ active' = active) \/ (active' # None /\ pipe.stage = "empty")
        BY <1>3, <2>1
      <3> QED BY <2>1, <3>1, <3>2, <3>3, PipeStays
    <2>2. CASE pipe' = EmptyPipe /\ render' # "begin" BY <2>2, PipeEmpties
    <2>3. CASE Begins
      <3>1. /\ SamePipe /\ pipe.stage = "empty" /\ active' # None
        BY <1>3, <2>3, SamePipeOf DEF Begins, In, Working
      <3>2. nextReview' = nextReview BY <1>3
      <3>3. active' # None => active' = active /\ reviews'[active].captures = reviews[active].captures
        BY <1>3
      <3>4. render' = "begin" =>
          (render = "begin" /\ active' = active) \/ (active' # None /\ pipe.stage = "empty")
        BY <3>1
      <3> QED BY <3>1, <3>2, <3>3, <3>4, PipeStays
    <2>4. CASE Copies(TRUE)
      <3>1. /\ pipe' = [stage |-> "copying", review |-> active, view |-> Len(reviews[active].captures) + 1]
            /\ render' # "begin" /\ active # None
        BY <1>4, <2>4 DEF Copies, PipeInv
      <3>2. active < nextReview BY <3>1, TypesOf
      <3> QED BY <1>3, <3>1, <3>2 DEF PipeInv
    <2>5. CASE PollCopied \/ GpuCopies \/ \E ok \in BOOLEAN : Encodes(ok)
      <3>1. SamePipe /\ (render' # "begin" \/ UNCHANGED render)
        BY <1>4, <2>5 DEF PollCopied, ToAdvance, GpuCopies, Encodes, SamePipe, RestOK
      <3> QED BY <2>1, <3>1
    <2>6. CASE PollNothing \/ NoReview \/ Waits \/ ServerStopped \/ StartServer
      <3>1. UNCHANGED pipe /\ render' # "begin"
        BY <2>6 DEF PollNothing, ToAdvance, NoReview, Idles, Waits, ServerStopped, StartServer
      <3> QED BY <2>1, <3>1, SamePipeOf
    <2>7. CASE PollStale BY <2>2, <2>7 DEF PollStale, ToAdvance
    <2> QED BY <2>3, <2>4, <2>5, <2>6, <2>7 DEF Unstored
  <1> QED BY <1>2, <1>5, <1>6, TypeFromStore DEF Inv

\* Steps that mark the active review or move it on.
LEMMA FlagKeeps ==
  ASSUME Inv, active # None, NEW v \in Review, reviews' = [reviews EXCEPT ![active] = v],
         v.captures = reviews[active].captures, v.baseline = reviews[active].baseline,
         v.comparison = reviews[active].comparison, v.evicted = reviews[active].evicted,
         v.state \notin Terminal,
         UNCHANGED <<captures, comparisons, serial, nextReview, active, slack>>, UNCHANGED pipe,
         render' = render \/ render' = "idle", running' = running, bounds' = bounds
  PROVE  Inv' /\ Others
  <1>1. Store(captures, comparisons, reviews, active, serial, nextReview) BY DEF Inv, StoreInv
  <1>2. Store(captures, comparisons, reviews', active, serial, nextReview)
    BY <1>1, GoesOn
  <1>3. StoreInv' BY <1>2 DEF StoreInv
  <1>4. BudgetIsKept' BY DEF Inv, BudgetIsKept, Fits, Evictable
  <1>5. RestOK' BY TypesOf DEF RestOK
  <1>6. active \in DOMAIN reviews BY TypesOf
  <1>7. reviews'[active].captures = reviews[active].captures BY <1>6
  <1>8. SamePipe BY SamePipeOf
  <1>9. PipeInv'
    <2>1. nextReview' = nextReview OBVIOUS
    <2>2. active' # None => active' = active /\ reviews'[active].captures = reviews[active].captures
      BY <1>7
    <2>3. render' = "begin" =>
          (render = "begin" /\ active' = active) \/ (active' # None /\ pipe.stage = "empty")
      OBVIOUS
    <2> QED BY <1>8, <2>1, <2>2, <2>3, PipeStays
  <1>10. Others
    <2>1. \A r \in DOMAIN reviews : r # active => reviews'[r] = reviews[r] OBVIOUS
    <2>2. \A r \in DOMAIN reviews : reviews[r] = [reviews[r] EXCEPT !.evicted = reviews[r].evicted]
      BY TypesOf DEF Review
    <2> QED BY <2>1, <2>2 DEF Others
  <1> QED BY <1>3, <1>4, <1>5, <1>9, <1>10, TypeFromStore DEF Inv

LEMMA MarkKeeps == ASSUME Inv, CancelReview \/ DeadlinePasses PROVE Inv' /\ Others
  <1> DEFINE w == reviews[active]
  <1>1. active # None BY DEF CancelReview, DeadlinePasses
  <1>2. w \in Review /\ w.state \notin Terminal /\ active \in DOMAIN reviews BY <1>1, TypesOf
  <1>3. UNCHANGED <<captures, comparisons, serial, nextReview, active, slack>> /\ UNCHANGED pipe
        /\ render' = render /\ running' = running /\ bounds' = bounds
    BY DEF CancelReview, DeadlinePasses
  <1>4. CASE CancelReview
    <2> DEFINE v == [w EXCEPT !.cancel = TRUE]
    <2>1. reviews' = [reviews EXCEPT ![active] = v] BY <1>2, <1>4 DEF CancelReview
    <2>2. /\ v \in Review /\ v.captures = w.captures /\ v.baseline = w.baseline
          /\ v.comparison = w.comparison /\ v.evicted = w.evicted /\ v.state = w.state
      BY <1>2 DEF Review
    <2> HIDE DEF v
    <2> QED BY <1>1, <1>2, <1>3, <2>1, <2>2, FlagKeeps
  <1>5. CASE DeadlinePasses
    <2> DEFINE v == [w EXCEPT !.late = TRUE]
    <2>1. reviews' = [reviews EXCEPT ![active] = v] BY <1>2, <1>5 DEF DeadlinePasses
    <2>2. /\ v \in Review /\ v.captures = w.captures /\ v.baseline = w.baseline
          /\ v.comparison = w.comparison /\ v.evicted = w.evicted /\ v.state = w.state
      BY <1>2 DEF Review
    <2> HIDE DEF v
    <2> QED BY <1>1, <1>2, <1>3, <2>1, <2>2, FlagKeeps
  <1> QED BY <1>4, <1>5

LEMMA AdvanceKeeps ==
  ASSUME Inv, NEW from, NEW to \in States, to \notin Terminal, Advances(from, to)
  PROVE  Inv' /\ Others
  <1> DEFINE w == reviews[active]
             v == [w EXCEPT !.state = to]
  <1>1. active # None BY DEF Advances, In, Working
  <1>2. w \in Review /\ active \in DOMAIN reviews BY <1>1, TypesOf
  <1>3. UNCHANGED <<captures, comparisons, serial, nextReview, active, slack>> /\ UNCHANGED pipe
        /\ render' = "idle" /\ running' = running /\ bounds' = bounds
    BY DEF Advances, Idles
  <1>4. reviews' = [reviews EXCEPT ![active] = v] BY <1>2 DEF Advances, With
  <1>5. /\ v \in Review /\ v.captures = w.captures /\ v.baseline = w.baseline
        /\ v.comparison = w.comparison /\ v.evicted = w.evicted /\ v.state = to
    BY <1>2 DEF Review
  <1> HIDE DEF v
  <1> QED BY <1>1, <1>2, <1>3, <1>4, <1>5, FlagKeeps

\* Requests and stops are counted down.
StopCounted == bounds.stops > 0 /\ bounds' = [bounds EXCEPT !.stops = @ - 1]
Counted == UNCHANGED bounds \/ Asked \/ StopCounted

\* What a settled store leaves to show.
LEMMA SettledInv ==
  ASSUME Inv, NEW caps, NEW comps, NEW revs, Settle(caps, comps, revs),
         Store(caps, comps, revs, active', serial', nextReview'),
         DOMAIN revs = DOMAIN reviews,
         \A r \in DOMAIN reviews : r # active => revs[r] = reviews[r],
         pipe' \in [stage : Stages, review : Nat, view : Nat],
         render' \in {"idle", "advance", "begin", "stopping"}, running' = running,
         Counted, PipeInv'
  PROVE  Inv' /\ Others
  <1>1. /\ Store(captures', comparisons', reviews', active', serial', nextReview')
        /\ Marks(revs, reviews') /\ BudgetIsKept' /\ slack' \in BOOLEAN
    BY SettleKeeps
  <1>2. StoreInv' BY <1>1 DEF StoreInv
  <1>3. bounds' \in [requests : Nat, stops : Nat] BY TypesOf DEF RestOK, Counted, Asked, StopCounted
  <1>4. RestOK' BY <1>1, <1>3, TypesOf DEF RestOK
  <1>5. Others BY <1>1 DEF Others, Marks
  <1> QED BY <1>1, <1>2, <1>4, <1>5, TypeFromStore DEF Inv

LEMMA CompareKeeps == ASSUME Inv, Compare PROVE Inv' /\ Others
  <1>1. /\ Settle(captures, comparisons \union {serial}, reviews) /\ Asked
        /\ serial' = serial + 1 /\ UNCHANGED <<nextReview, active, pipe, render, running>>
    BY DEF Compare
  <1>2. StoreInv BY DEF Inv
  <1>3. Store(captures, comparisons \union {serial}, reviews, active', serial', nextReview')
    BY <1>1, <1>2, ComparisonAdded
  <1>4. Marks(reviews, reviews') BY <1>1, <1>3, SettleKeeps
  <1>5. active # None => reviews'[active].captures = reviews[active].captures
    BY <1>4, TypesOf DEF Marks, Review
  <1>6. PipeInv'
    <2>1. SamePipe BY <1>1, SamePipeOf
    <2>2. nextReview' = nextReview BY <1>1
    <2>3. active' # None => active' = active /\ reviews'[active].captures = reviews[active].captures
      BY <1>1, <1>5
    <2>4. render' = "begin" =>
            (render = "begin" /\ active' = active) \/ (active' # None /\ pipe.stage = "empty")
      BY <1>1
    <2> QED BY <2>1, <2>2, <2>3, <2>4, PipeStays
  <1>7. /\ pipe' \in [stage : Stages, review : Nat, view : Nat]
        /\ render' \in {"idle", "advance", "begin", "stopping"} /\ running' = running
    BY <1>1, TypesOf DEF RestOK
  <1>8. /\ DOMAIN reviews = DOMAIN reviews /\ Counted
        /\ \A r \in DOMAIN reviews : r # active => reviews[r] = reviews[r]
    BY <1>1 DEF Counted
  <1> DEFINE comps == comparisons \union {serial}
  <1>9. /\ Settle(captures, comps, reviews)
        /\ Store(captures, comps, reviews, active', serial', nextReview')
    BY <1>1, <1>3
  <1> HIDE DEF comps
  <1> QED BY <1>6, <1>7, <1>8, <1>9, SettledInv

LEMMA ViewportKeeps == ASSUME Inv, CaptureViewport PROVE Inv' /\ Others
  <1> DEFINE c == [pins |-> 0, review |-> None, view |-> 0]
             caps == [a \in DOMAIN captures \union {serial} |-> IF a = serial THEN c ELSE captures[a]]
  <1>1. /\ Settle(caps, comparisons, reviews) /\ Asked
        /\ serial' = serial + 1 /\ UNCHANGED <<nextReview, active, pipe, render, running>>
    BY DEF CaptureViewport
  <1>2. StoreInv /\ c \in Capture /\ c.pins = 0 BY DEF Inv, Capture, None
  <1> HIDE DEF c
  <1>3. Store(caps, comparisons, reviews, active', serial', nextReview')
    BY <1>1, <1>2, ViewportAdded
  <1> HIDE DEF caps
  <1>4. Marks(reviews, reviews') BY <1>1, <1>3, SettleKeeps
  <1>5. active # None => reviews'[active].captures = reviews[active].captures
    BY <1>4, TypesOf DEF Marks, Review
  <1>6. PipeInv'
    <2>1. SamePipe BY <1>1, SamePipeOf
    <2>2. nextReview' = nextReview BY <1>1
    <2>3. active' # None => active' = active /\ reviews'[active].captures = reviews[active].captures
      BY <1>1, <1>5
    <2>4. render' = "begin" =>
            (render = "begin" /\ active' = active) \/ (active' # None /\ pipe.stage = "empty")
      BY <1>1
    <2> QED BY <2>1, <2>2, <2>3, <2>4, PipeStays
  <1>7. /\ pipe' \in [stage : Stages, review : Nat, view : Nat]
        /\ render' \in {"idle", "advance", "begin", "stopping"} /\ running' = running
    BY <1>1, TypesOf DEF RestOK
  <1>8. /\ DOMAIN reviews = DOMAIN reviews /\ Counted
        /\ \A r \in DOMAIN reviews : r # active => reviews[r] = reviews[r]
    BY <1>1 DEF Counted
  <1> QED BY <1>1, <1>3, <1>6, <1>7, <1>8, SettledInv

LEMMA StoredKeeps == ASSUME Inv, PollStored PROVE Inv' /\ Others
  <1> DEFINE c == [pins |-> 1, review |-> pipe.review, view |-> pipe.view]
             caps == [a \in DOMAIN captures \union {serial} |-> IF a = serial THEN c ELSE captures[a]]
             revs == [reviews EXCEPT ![active].captures = Append(@, serial)]
  <1>1. /\ pipe.stage = "encoded" /\ active = pipe.review
        /\ Settle(caps, comparisons, revs)
        /\ serial' = serial + 1 /\ render' = "advance" /\ pipe' = EmptyPipe
        /\ UNCHANGED <<nextReview, active, running, bounds>>
    BY DEF PollStored, ToAdvance, Taken
  <1>2. /\ active # None /\ pipe.view = Len(reviews[active].captures) + 1
    BY <1>1 DEF Inv, PipeInv
  <1>3. pipe.review \in Nat /\ pipe.view \in Nat BY TypesOf DEF RestOK
  <1>4. /\ StoreInv /\ c \in Capture /\ c.pins = 1 /\ c.review = active
        /\ c.view = Len(reviews[active].captures) + 1
    BY <1>1, <1>2, <1>3 DEF Inv, Capture
  <1> HIDE DEF c
  <1>5. Store(caps, comparisons, revs, active', serial', nextReview')
    BY <1>1, <1>2, <1>4, ViewAdded
  <1>6. DOMAIN revs = DOMAIN reviews /\ \A r \in DOMAIN reviews : r # active => revs[r] = reviews[r]
    OBVIOUS
  <1> HIDE DEF caps, revs
  <1>7. PipeInv' BY <1>1, PipeEmpties
  <1>8. /\ pipe' \in [stage : Stages, review : Nat, view : Nat]
        /\ render' \in {"idle", "advance", "begin", "stopping"} /\ running' = running
    BY <1>1 DEF EmptyPipe, Stages, None
  <1>9. Counted BY <1>1 DEF Counted
  <1> QED BY <1>1, <1>5, <1>6, <1>7, <1>8, <1>9, SettledInv

\* The active review ends as v, within the budget.
LEMMA SettledEnd ==
  ASSUME Inv, active # None, NEW comps, NEW v \in Review,
         Store(captures, comps, reviews, active, serial', nextReview),
         v.captures = reviews[active].captures, v.baseline = reviews[active].baseline,
         v.comparison \in {reviews[active].comparison} \union comps,
         v.evicted \/ ~reviews[active].evicted,
         Settle(Released(active), comps, [reviews EXCEPT ![active] = v]),
         active' = None, UNCHANGED nextReview, UNCHANGED pipe,
         render' \in {"idle", "stopping"}, running' = running,
         Counted
  PROVE  Inv' /\ Others
  <1> DEFINE revs == [reviews EXCEPT ![active] = v]
  <1>1. StoreInv BY DEF Inv
  <1>2. Store(Released(active), comps, revs, None, serial', nextReview) BY <1>1, Ends
  <1>3. Store(Released(active), comps, revs, active', serial', nextReview') BY <1>2
  <1>4. DOMAIN revs = DOMAIN reviews /\ \A r \in DOMAIN reviews : r # active => revs[r] = reviews[r]
    OBVIOUS
  <1>5. PipeInv'
    <2>1. SamePipe BY SamePipeOf
    <2>2. nextReview' = nextReview OBVIOUS
    <2>3. active' # None => active' = active /\ reviews'[active].captures = reviews[active].captures
      OBVIOUS
    <2>4. render' = "begin" =>
            (render = "begin" /\ active' = active) \/ (active' # None /\ pipe.stage = "empty")
      OBVIOUS
    <2> QED BY <2>1, <2>2, <2>3, <2>4, PipeStays
  <1>6. /\ pipe' \in [stage : Stages, review : Nat, view : Nat]
        /\ render' \in {"idle", "advance", "begin", "stopping"}
    BY TypesOf DEF RestOK
  <1>7. running' = running /\ Counted OBVIOUS
  <1>8. Settle(Released(active), comps, revs) OBVIOUS
  <1> HIDE DEF revs
  <1> QED BY <1>3, <1>4, <1>5, <1>6, <1>7, <1>8, SettledInv

LEMMA FinishKeeps ==
  ASSUME Inv, active # None, NEW state \in States, Finish(state), UNCHANGED <<serial, nextReview, pipe>>,
         render' \in {"idle", "stopping"}, running' = running,
         Counted
  PROVE  Inv' /\ Others
  <1> DEFINE w == reviews[active]
             v == [w EXCEPT !.state = state]
  <1>1. w \in Review /\ active \in DOMAIN reviews BY TypesOf
  <1>2. /\ v \in Review /\ v.captures = w.captures /\ v.baseline = w.baseline
        /\ v.comparison = w.comparison /\ v.evicted = w.evicted
    BY <1>1 DEF Review
  <1>3. With(active, state) = [reviews EXCEPT ![active] = v] BY <1>1 DEF With
  <1>4. Settle(Released(active), comparisons, [reviews EXCEPT ![active] = v]) /\ active' = None
    BY <1>3 DEF Finish
  <1>5. Store(captures, comparisons, reviews, active, serial', nextReview) BY DEF Inv, StoreInv
  <1>6. v.comparison \in {w.comparison} \union comparisons /\ (v.evicted \/ ~w.evicted)
    BY <1>2
  <1> HIDE DEF v
  <1> QED BY <1>2, <1>4, <1>5, <1>6, SettledEnd

LEMMA EndKeeps == ASSUME Inv, Cancelled \/ Fails PROVE Inv' /\ Others
  <1>1. /\ active # None /\ UNCHANGED <<serial, nextReview, pipe>> /\ render' = "idle"
        /\ running' = running /\ Counted
    BY DEF Cancelled, Fails, Idles, Counted
  <1>2. PICK state \in {"cancelled", "failed"} : Finish(state) BY DEF Cancelled, Fails
  <1>3. state \in States /\ render' \in {"idle", "stopping"} BY <1>1 DEF States, Terminal
  <1> QED BY <1>1, <1>2, <1>3, FinishKeeps

LEMMA StopServerKeeps == ASSUME Inv, StopServer PROVE Inv' /\ Others
  <1>1. /\ UNCHANGED <<serial, nextReview, pipe>> /\ render' = "stopping"
        /\ running' = running /\ Counted /\ StopCounted
    BY DEF StopServer, Counted, StopCounted
  <1>2. CASE active # None
    <2>1. Finish("cancelled") BY <1>2 DEF StopServer
    <2>2. "cancelled" \in States /\ render' \in {"idle", "stopping"}
      BY <1>1 DEF States, Terminal
    <2> QED BY <1>1, <1>2, <2>1, <2>2, FinishKeeps
  <1>3. CASE active = None
    <2>1. Quiet BY <1>1, <1>3 DEF StopServer, Quiet
    <2>2. StoreInv' /\ BudgetIsKept' /\ Others BY <2>1, QuietKeeps
    <2>3. bounds' \in [requests : Nat, stops : Nat] BY <1>1, TypesOf DEF RestOK, StopCounted
    <2>4. RestOK' BY <1>1, <2>1, <2>3, TypesOf DEF RestOK, Quiet
    <2>5. PipeInv'
      <3>1. SamePipe /\ nextReview' = nextReview BY <1>1, SamePipeOf
      <3>2. active' # None => active' = active /\ reviews'[active].captures = reviews[active].captures
        BY <2>1 DEF Quiet
      <3>3. render' = "begin" =>
              (render = "begin" /\ active' = active) \/ (active' # None /\ pipe.stage = "empty")
        BY <1>1
      <3> QED BY <3>1, <3>2, <3>3, PipeStays
    <2> QED BY <2>2, <2>4, <2>5, TypeFromStore DEF Inv
  <1> QED BY <1>2, <1>3

LEMMA AnalyzedKeeps == ASSUME Inv, Analyzed PROVE Inv' /\ Others
  <1> DEFINE w == reviews[active]
             missing == w.baseline # None /\ ~{w.baseline, w.captures[1]} \subseteq DOMAIN captures
  <1>1. /\ active # None /\ UNCHANGED <<nextReview, pipe>> /\ render' = "idle"
        /\ running' = running /\ Counted
    BY DEF Analyzed, Idles, In, Working, Counted
  <1>2. w \in Review /\ active \in DOMAIN reviews BY <1>1, TypesOf
  <1>3. StoreInv /\ render' \in {"idle", "stopping"} /\ UNCHANGED nextReview /\ UNCHANGED pipe
    BY <1>1 DEF Inv
  <1>4. missing \in BOOLEAN OBVIOUS
  <1> HIDE DEF missing
  <1>5. CASE Finish("completed") /\ UNCHANGED serial
    <2>1. "completed" \in States /\ UNCHANGED <<serial, nextReview, pipe>>
      BY <1>1, <1>5 DEF States, Terminal
    <2> QED BY <1>1, <1>3, <1>5, <2>1, FinishKeeps
  <1>6. CASE /\ Settle(Released(active), comparisons \union {serial},
                       [reviews EXCEPT ![active].comparison = serial, ![active].state = "completed"])
             /\ active' = None /\ serial' = serial + 1
    <2> DEFINE v == [w EXCEPT !.comparison = serial, !.state = "completed"]
               comps == comparisons \union {serial}
    <2>1. [reviews EXCEPT ![active].comparison = serial, ![active].state = "completed"]
            = [reviews EXCEPT ![active] = v]
      BY <1>2
    <2>2. serial \in Nat BY TypesOf
    <2>3. /\ v \in Review /\ v.captures = w.captures /\ v.baseline = w.baseline
          /\ v.comparison = serial /\ v.evicted = w.evicted
      BY <1>2, <2>2 DEF Review, States, Terminal
    <2>4. Store(captures, comps, reviews, active, serial', nextReview)
      BY <1>3, <1>6, ComparisonAdded
    <2>5. v.comparison \in {w.comparison} \union comps /\ (v.evicted \/ ~w.evicted) BY <2>3
    <2>6. Settle(Released(active), comps, [reviews EXCEPT ![active] = v]) /\ active' = None
      BY <1>6, <2>1
    <2> HIDE DEF v, comps
    <2> QED BY <1>1, <1>3, <2>3, <2>4, <2>5, <2>6, SettledEnd
  <1>7. CASE /\ Settle(Released(active), comparisons,
                       [reviews EXCEPT ![active].state = "failed",
                                       ![active].evicted = @ \/ missing])
             /\ active' = None /\ UNCHANGED serial
    <2> DEFINE e == w.evicted \/ missing
               v == [w EXCEPT !.state = "failed", !.evicted = e]
    <2>1. [reviews EXCEPT ![active].state = "failed", ![active].evicted = @ \/ missing]
            = [reviews EXCEPT ![active] = v]
      BY <1>2
    <2>2. e \in BOOLEAN /\ (e \/ ~w.evicted) BY <1>2, <1>4 DEF Review
    <2> HIDE DEF e
    <2>3. /\ v \in Review /\ v.captures = w.captures /\ v.baseline = w.baseline
          /\ v.comparison = w.comparison /\ v.evicted = e
      BY <1>2, <2>2 DEF Review, States, Terminal
    <2>4. Store(captures, comparisons, reviews, active, serial', nextReview)
      BY <1>3, <1>7 DEF StoreInv
    <2>5. v.comparison \in {w.comparison} \union comparisons /\ (v.evicted \/ ~w.evicted)
      BY <2>2, <2>3
    <2>6. Settle(Released(active), comparisons, [reviews EXCEPT ![active] = v]) /\ active' = None
      BY <1>7, <2>1
    <2> HIDE DEF v
    <2> QED BY <1>1, <1>3, <2>3, <2>4, <2>5, <2>6, SettledEnd
  <1> QED BY <1>5, <1>6, <1>7 DEF Analyzed, missing

\* A failed capture ends its review, and the budget waits.
LEMMA GiveUpKeeps ==
  ASSUME Inv, active # None, GiveUp(active), UNCHANGED <<serial, nextReview, running, bounds>>,
         render' \in {"idle", "advance"},
         pipe' = EmptyPipe \/ UNCHANGED pipe
  PROVE  Inv' /\ Others
  <1> DEFINE w == reviews[active]
             v == [w EXCEPT !.state = "failed"]
  <1>1. w \in Review /\ active \in DOMAIN reviews BY TypesOf
  <1>2. /\ v \in Review /\ v.captures = w.captures /\ v.baseline = w.baseline
        /\ v.comparison = w.comparison /\ v.evicted = w.evicted
    BY <1>1 DEF Review, States, Terminal
  <1>3. /\ captures' = Released(active) /\ reviews' = [reviews EXCEPT ![active] = v]
        /\ active' = None /\ slack' = TRUE /\ UNCHANGED comparisons
    BY <1>1 DEF GiveUp, With
  <1>4. StoreInv /\ Store(captures, comparisons, reviews, active, serial, nextReview)
    BY DEF Inv, StoreInv
  <1>5. v.comparison \in {w.comparison} \union comparisons /\ (v.evicted \/ ~w.evicted) BY <1>2
  <1> HIDE DEF v
  <1>6. Store(Released(active), comparisons, [reviews EXCEPT ![active] = v], None, serial, nextReview)
    BY <1>2, <1>4, <1>5, Ends
  <1>7. StoreInv' BY <1>3, <1>6 DEF StoreInv
  <1>8. BudgetIsKept' BY <1>3 DEF BudgetIsKept
  <1>9. RestOK'
    <2>1. pipe' \in [stage : Stages, review : Nat, view : Nat]
      BY TypesOf DEF RestOK, EmptyPipe, Stages, None
    <2> QED BY <1>3, <2>1, TypesOf DEF RestOK
  <1>10. PipeInv'
    <2>1. CASE pipe' = EmptyPipe BY <2>1, PipeEmpties
    <2>2. CASE UNCHANGED pipe
      <3>1. SamePipe /\ nextReview' = nextReview BY <2>2, SamePipeOf
      <3>2. active' # None => active' = active /\ reviews'[active].captures = reviews[active].captures
        BY <1>3
      <3>3. render' = "begin" =>
              (render = "begin" /\ active' = active) \/ (active' # None /\ pipe.stage = "empty")
        OBVIOUS
      <3> QED BY <3>1, <3>2, <3>3, PipeStays
    <2> QED BY <2>1, <2>2
  <1>11. Others
    <2>1. \A r \in DOMAIN reviews : r # active => reviews'[r] = reviews[r] BY <1>3
    <2>2. \A r \in DOMAIN reviews : reviews[r] = [reviews[r] EXCEPT !.evicted = reviews[r].evicted]
      BY TypesOf DEF Review
    <2> QED BY <2>1, <2>2 DEF Others
  <1> QED BY <1>7, <1>8, <1>9, <1>10, <1>11, TypeFromStore DEF Inv

LEMMA FailedKeeps == ASSUME Inv, PollFailed \/ Copies(FALSE) PROVE Inv' /\ Others
  <1>1. CASE PollFailed
    <2>1. /\ pipe.stage # "empty" /\ active = pipe.review /\ GiveUp(pipe.review)
          /\ render' = "advance" /\ pipe' = EmptyPipe
          /\ UNCHANGED <<serial, nextReview, running, bounds>>
      BY <1>1 DEF PollFailed, ToAdvance, Taken
    <2>2. active # None BY <2>1 DEF Inv, PipeInv
    <2>3. GiveUp(active) BY <2>1
    <2>4. render' \in {"idle", "advance"} /\ (pipe' = EmptyPipe \/ UNCHANGED pipe) BY <2>1
    <2> QED BY <2>1, <2>2, <2>3, <2>4, GiveUpKeeps
  <1>2. CASE Copies(FALSE)
    <2>1. /\ render = "begin" /\ render' = "idle" /\ GiveUp(active) /\ UNCHANGED pipe
          /\ UNCHANGED <<serial, nextReview, running, bounds>>
      BY <1>2 DEF Copies
    <2>2. active # None BY <2>1 DEF Inv, PipeInv
    <2>3. render' \in {"idle", "advance"} /\ (pipe' = EmptyPipe \/ UNCHANGED pipe) BY <2>1
    <2> QED BY <2>1, <2>2, <2>3, GiveUpKeeps
  <1> QED BY <1>1, <1>2

LEMMA StartKeeps == ASSUME Inv, NEW base, StartReview(base) PROVE Inv' /\ Others
  <1>1. /\ active = None /\ active' = nextReview /\ nextReview' = nextReview + 1
        /\ UNCHANGED <<comparisons, serial, pipe, render, running, slack, bounds>>
    BY DEF StartReview
  <1>2. StoreInv BY DEF Inv
  <1>3. /\ StoreInv'
        /\ \A r \in DOMAIN reviews \intersect DOMAIN reviews' : reviews'[r] = reviews[r]
        /\ DOMAIN captures' = DOMAIN captures
        /\ \A a \in DOMAIN captures : captures[a].pins = 0
    BY <1>2, ReviewAdded
  <1>4. BudgetIsKept'
    <2>1. CASE slack BY <1>1, <2>1 DEF BudgetIsKept
    <2>2. CASE Fits(DOMAIN captures, comparisons)
      BY <1>1, <1>3, <2>2 DEF BudgetIsKept, Fits
    <2>3. CASE Evictable(captures, comparisons) = {}
      <3>1. DOMAIN captures = {} /\ comparisons = {} BY <1>3, <2>3 DEF Evictable
      <3>2. Evictable(captures, comparisons)' = {} BY <1>1, <1>3, <3>1 DEF Evictable
      <3> QED BY <3>2 DEF BudgetIsKept
    <2> QED BY <2>1, <2>2, <2>3 DEF Inv, BudgetIsKept
  <1>5. RestOK' BY <1>1, TypesOf DEF RestOK
  <1>6. PipeInv'
    <2>1. nextReview \in Nat \ {0} /\ pipe.review \in Nat BY TypesOf DEF RestOK
    <2> QED BY <1>1, <2>1 DEF Inv, PipeInv, None
  <1>7. Others
    <2>1. \A r \in DOMAIN reviews : reviews[r] = [reviews[r] EXCEPT !.evicted = reviews[r].evicted]
      BY TypesOf DEF Review
    <2> QED BY <1>3, <2>1 DEF Others
  <1> QED BY <1>3, <1>4, <1>5, <1>6, <1>7, TypeFromStore DEF Inv
-----------------------------------------------------------------------------
(* The theorems.                                                           *)

LEMMA InitInv == Init => Inv
  <1> SUFFICES ASSUME Init PROVE Inv OBVIOUS
  <1>1. captures = << >> /\ DOMAIN captures = {} /\ reviews = << >> /\ DOMAIN reviews = {}
    BY DEF Init
  <1>2. Numbered(captures, comparisons, serial) BY <1>1 DEF Init, Numbered
  <1>3. Reviewed(reviews, active, serial, nextReview) BY <1>1 DEF Init, Reviewed
  <1>4. StoreInv
    BY <1>1, <1>2, <1>3 DEF Init, StoreInv, Store, PinsMatch, Exist, Show
  <1>5. PipeInv BY DEF Init, PipeInv, EmptyPipe
  <1>6. BudgetIsKept BY <1>1 DEF Init, BudgetIsKept, Evictable
  <1>7. TypeOK
    <2>1. /\ DOMAIN captures \in SUBSET Nat
          /\ captures \in [DOMAIN captures -> [pins : Nat, review : Nat, view : Nat]]
      BY <1>1
    <2>2. /\ DOMAIN reviews \in SUBSET Nat
          /\ reviews \in [DOMAIN reviews ->
                [state : States, baseline : Nat, captures : Seq(Nat), comparison : Nat,
                 cancel : BOOLEAN, late : BOOLEAN, evicted : BOOLEAN]]
      BY <1>1
    <2>3. /\ serial = 1 /\ nextReview = 1 /\ comparisons = {} /\ active = None
          /\ running = TRUE /\ slack = FALSE /\ render = "idle"
      BY DEF Init
    <2>4. pipe \in [stage : Stages, review : Nat, view : Nat]
          /\ bounds \in [requests : Nat, stops : Nat]
      BY ReviewsAssumption DEF Init, EmptyPipe, Stages, None
    <2>5. /\ serial \in Nat \ {0} /\ nextReview \in Nat \ {0} /\ comparisons \subseteq Nat
          /\ active \in DOMAIN reviews \union {None}
          /\ render \in {"idle", "advance", "begin", "stopping"}
      BY <2>3
    <2>6. running \in BOOLEAN /\ slack \in BOOLEAN BY <2>3
    <2> QED BY <2>1, <2>2, <2>4, <2>5, <2>6 DEF TypeOK
  <1> QED BY <1>4, <1>5, <1>6, <1>7 DEF Inv

\* Every step keeps the invariant and changes no review but the active one.
LEMMA NextInv == Inv /\ [Next]_vars => Inv' /\ Others
  <1> SUFFICES ASSUME Inv, [Next]_vars PROVE Inv' /\ Others OBVIOUS
  <1>1. CASE UNCHANGED vars
    <2>1. Quiet /\ UNCHANGED <<pipe, render, running, bounds>> BY <1>1 DEF vars, Quiet
    <2>2. StoreInv' /\ BudgetIsKept' /\ Others BY <2>1, QuietKeeps
    <2>3. RestOK' BY <2>1, TypesOf DEF RestOK, Quiet
    <2>4. PipeInv' BY <2>1 DEF Inv, PipeInv, Quiet
    <2> QED BY <2>2, <2>3, <2>4, TypeFromStore DEF Inv
  <1>2. CASE \E base \in DOMAIN captures \union {None} : StartReview(base)
    BY <1>2, StartKeeps
  <1>3. CASE CancelReview \/ DeadlinePasses BY <1>3, MarkKeeps
  <1>4. CASE Compare BY <1>4, CompareKeeps
  <1>5. CASE CaptureViewport BY <1>5, ViewportKeeps
  <1>6. CASE Unstored BY <1>6, UnstoredKeeps
  <1>7. CASE PollFailed \/ Copies(FALSE) BY <1>7, FailedKeeps
  <1>8. CASE PollStored BY <1>8, StoredKeeps
  <1>9. CASE Cancelled \/ Fails BY <1>9, EndKeeps
  <1>10. CASE Analyzed BY <1>10, AnalyzedKeeps
  <1>11. CASE StopServer BY <1>11, StopServerKeeps
  <1>12. CASE \/ Advances("queued", "waiting") \/ Advances("waiting", "capturing")
              \/ Advances("capturing", "analyzing")
    <2>1. {"waiting", "capturing", "analyzing"} \subseteq States \ Terminal
      BY DEF States, Terminal
    <2> QED BY <1>12, <2>1, AdvanceKeeps
  <1>13. CASE Frame
    <2>1. CASE \E ok \in BOOLEAN : Copies(ok)
      <3>1. Copies(TRUE) \/ Copies(FALSE) BY <2>1
      <3> QED BY <1>6, <1>7, <3>1 DEF Unstored
    <2> QED BY <1>6, <1>7, <1>8, <1>9, <1>10, <1>12, <1>13, <2>1 DEF Frame, Unstored
  <1> QED BY <1>1, <1>2, <1>3, <1>4, <1>5, <1>6, <1>11, <1>13 DEF Next, Unstored

\* Clients, the render thread, the GPU, the encoder and a stopping server share
\* captures and reviews.  In every reachable state images are numbered by their
\* making, pins and references fit each other, the capture under way is the next
\* of the active review, and the budget is kept.
THEOREM Invariant == Spec => []Inv
  <1>1. Inv /\ [Next]_vars => Inv' BY NextInv
  <1> QED BY InitInv, <1>1, PTL DEF Spec

\* Every variable keeps its type, for any bounds.
THEOREM TypeCorrect == Spec => []TypeOK
  <1>1. Inv => TypeOK BY DEF Inv
  <1> QED BY <1>1, Invariant, PTL

\* However a review ends, no pin is kept, given back twice or taken from another
\* review; and what is over the budget is pinned, but for the slack a failed
\* capture leaves.
THEOREM ArtifactsAlwaysKept == Spec => []ArtifactsAreKept
  <1>1. Inv => ArtifactsAreKept
    <2> SUFFICES ASSUME Inv PROVE ArtifactsAreKept OBVIOUS
    <2>1. active # None => Pinned(active) = Pins(reviews[active])
      BY DEF Pinned, Shown, Baseline, Pins
    <2>2. PinsMatch(captures, reviews, active) BY DEF Inv, StoreInv, Store
    <2>3. PinsMatchReview BY <2>1, <2>2 DEF PinsMatch, PinsMatchReview
    <2> QED BY <2>3 DEF Inv, ArtifactsAreKept
  <1> QED BY <1>1, Invariant, PTL

\* A review whose images are not all there says so, and the others are where the
\* review says they are.
THEOREM ReviewsAlwaysTrue == Spec => []ReviewsAreTrue
  <1>1. Inv => ReviewsAreTrue
    <2> SUFFICES ASSUME Inv PROVE ReviewsAreTrue OBVIOUS
    <2>1. Exist(captures, comparisons, reviews) /\ Show(captures, reviews)
      BY DEF Inv, StoreInv, Store
    <2>2. \A r \in DOMAIN reviews : Artifacts(r) = Refs(reviews[r])
      BY DEF Artifacts, Pinned, Shown, Baseline, Pins, Refs
    <2> QED BY <2>1, <2>2 DEF Exist, Show, ReviewsAreTrue
  <1> QED BY <1>1, Invariant, PTL

\* A review that ended is never changed again, whatever readback, cancellation or
\* review comes late.
THEOREM FinishedAlwaysStay == Spec => FinishedReviewsStay
  <1> DEFINE Stay == \A r \in DOMAIN reviews \intersect DOMAIN reviews' :
                       reviews[r].state \in Terminal =>
                         reviews'[r] = [reviews[r] EXCEPT !.evicted = reviews'[r].evicted]
  <1>1. Inv /\ [Next]_vars => [Stay]_vars
    <2> SUFFICES ASSUME Inv, [Next]_vars PROVE Stay OBVIOUS
    <2>1. Others BY NextInv
    <2>2. \A r \in DOMAIN reviews : r = active => reviews[r].state \notin Terminal
      <3>1. \A r \in DOMAIN reviews : r # None
        BY DEF Inv, StoreInv, Store, Reviewed
      <3> QED BY <3>1, TypesOf
    <2> QED BY <2>1, <2>2 DEF Others
  <1>2. Spec => [][Stay]_vars BY <1>1, Invariant, PTL DEF Spec
  <1> QED BY <1>2 DEF FinishedReviewsStay

-----------------------------------------------------------------------------
(* The project, the session and the scene.                                 *)

PathsOrNone  == Paths \union {NoPath}
ScenesOrNone == {NoScene} \union Scenes
LoadStages   == {"none", "importing", "imported", "unreadable", "converted"}
Answers      == {"none", "open", "committed", "failed", "cancelled", "replaced"}
Places       == {"off", "isolating", "choosing", "trying", "restored", "rejected", "loop",
                 "commands", "stopping", "poll", "pending", "mcp", "exiting", "snapshot",
                 "settings"}
Befores      == [live : Content, proj : Projects]
Checkpoints  == [live : Content, proj : Projects, same : BOOLEAN]
Saves        == [live : Content, proj : Projects, tries : Nat, whole : BOOLEAN]
Sessions     == [restore : BOOLEAN, project : Projects]

AtMostOne(S) == {T \in SUBSET S : \A x, y \in T : x = y}

\* The types, as functions and as sets of at most one element.
ContentOK ==
  /\ live \in Content /\ proj \in Projects /\ finished \in BOOLEAN
  /\ cps \in Seq(Checkpoints) /\ Len(cps) <= KeptCheckpoints
  /\ bench \in AtMostOne(Befores)
LoadsOK ==
  /\ asked \in [project : PathsOrNone, scene : ScenesOrNone]
  /\ load \in [scene : ScenesOrNone, stage : LoadStages, cancel : BOOLEAN, queued : ScenesOrNone]
  /\ answer \in [Scenes -> Answers]
DiskOK ==
  /\ session \in Sessions
  /\ files \in [Paths -> AtMostOne(Content)]
  /\ disk \in [snapshot : AtMostOne(Saves), pending : AtMostOne(Saves), settings : Sessions]
PlaceOK ==
  /\ at \in Places /\ back \in {"off", "enable", "new"}
  /\ exit \in {"none", "saved", "isolated", "stuck", "skipped"} /\ sound \in BOOLEAN
BudgetOK == budget \in [launches : Nat, faults : Nat, crashes : Nat]
TypesOK == ContentOK /\ LoadsOK /\ DiskOK /\ PlaceOK /\ BudgetOK

\* Until a session is tried, the preview scene is all there is.
Booting == {"off", "isolating", "choosing", "trying"}
BootInv ==
  at \in Booting => live = Imported(Preview) /\ proj = Unnamed /\ cps = << >>

\* A candidate has not been tried, and belongs to the settings once they were
\* written after it.
Trying == {"trying", "restored", "rejected"}
SessionInv ==
  /\ \A s \in disk.snapshot : s.tries = 0
  /\ \A s \in disk.pending : s.tries <= 1
  /\ \A s \in disk.snapshot : s.whole =>
       /\ s.proj = disk.settings.project
       /\ at # "off" => s.proj = session.project
  /\ at \in {"isolating", "choosing"} \union Trying => session = disk.settings
  /\ at \in Trying =>
       /\ disk.snapshot = {} /\ exit # "isolated"
       /\ \A s \in disk.pending : s.whole => s.proj = session.project
  /\ at = "restored" =>
       \A s \in disk.pending : live = s.live /\ proj = session.project
  /\ at = "settings" /\ exit = "saved" =>
       \A s \in disk.snapshot : s.proj = session.project
  /\ exit = "isolated" => disk.snapshot = {}

\* A checkpoint whose fingerprint is the scene's is of this scene.
PointsInv == \A i \in DOMAIN cps : cps[i].same => cps[i].live.scene = live.scene

\* The load asked for, the one in the queue and the one that runs are in this
\* order, newest first; they are the open ones, and none that is newer has ended.
StillOpen(a, l, n) == n = a \/ n = l.queued \/ (n = l.scene /\ l.stage # "none")
Ordered(a, l, ans) ==
  /\ l.queued # NoScene => l.cancel /\ l.stage # "none" /\ l.scene < l.queued
  /\ l.stage # "none" => l.scene # NoScene
  /\ l.stage # "none" /\ a # NoScene => l.scene < a
  /\ l.queued # NoScene /\ a # NoScene => l.queued < a
  /\ \A m, n \in Scenes : m < n /\ ans[n] # "none" => ans[m] # "none"
  /\ \A n \in Scenes : ans[n] = "open" <=> StillOpen(a, l, n)
  /\ \A n \in Scenes : StillOpen(a, l, n) =>
       \A m \in Scenes : m > n => ans[m] \in {"none", "replaced", "open"}
OrderInv == Ordered(asked.scene, load, answer)

ProjectInv == TypesOK /\ BootInv /\ SessionInv /\ PointsInv /\ OrderInv /\ CleanMeansSaved
-----------------------------------------------------------------------------
(* What a load leaves.                                                     *)

Results == [ok : BOOLEAN, live : Content, dirty : BOOLEAN, geometry : BOOLEAN, fault : BOOLEAN]

\* New geometry makes every checkpoint one of another scene.
LEMMA GeometryFacts ==
  ASSUME NEW s \in Seq(Checkpoints)
  PROVE  /\ Geometry(s) \in Seq(Checkpoints) /\ Len(Geometry(s)) = Len(s)
         /\ \A i \in DOMAIN Geometry(s) : Geometry(s)[i].same = FALSE
  <1>1. Len(s) \in Nat /\ s \in [1 .. Len(s) -> Checkpoints] /\ DOMAIN s = 1 .. Len(s)
    BY LenProperties
  <1>2. Geometry(s) = [i \in 1 .. Len(s) |-> [s[i] EXCEPT !.same = FALSE]]
    BY <1>1 DEF Geometry
  <1>3. ASSUME NEW i \in 1 .. Len(s)
        PROVE  /\ [s[i] EXCEPT !.same = FALSE] \in Checkpoints
               /\ [s[i] EXCEPT !.same = FALSE].same = FALSE
    BY <1>1 DEF Checkpoints
  <1>4. Geometry(s) \in [1 .. Len(s) -> Checkpoints] BY <1>2, <1>3
  <1>5. Geometry(s) \in Seq(Checkpoints) BY <1>1, <1>4
  <1>6. Len(Geometry(s)) = Len(s) BY <1>1, <1>4, <1>5, LenProperties
  <1> QED BY <1>2, <1>3, <1>5, <1>6

\* What a load of a file with content c may leave.
LoadResult(c, r) ==
  /\ r \in Results
  /\ r.fault => MayFail
  /\ r.ok => ~r.fault /\ ~r.dirty /\ r.live = Opened(c)
  /\ ~r.ok => r.fault /\ (~r.dirty => ~proj.dirty)
  /\ ~r.geometry => r.live.scene = live.scene

LEMMA LoadFacts ==
  ASSUME ContentOK, NEW c \in Content, NEW r \in LoadsOf(c)
  PROVE  LoadResult(c, r)
  <1> DEFINE fails == [Unread EXCEPT !.fault = TRUE]
             late == [fails EXCEPT !.live = Imported(c.scene), !.dirty = TRUE, !.geometry = TRUE]
             done == [Unread EXCEPT !.ok = TRUE, !.live = Opened(c), !.dirty = FALSE,
                                    !.geometry = c.scene # Preview]
  <1>1. live \in Content /\ proj.dirty \in BOOLEAN BY DEF ContentOK, Projects
  <1>2. Unread = [ok |-> FALSE, live |-> live, dirty |-> proj.dirty, geometry |-> FALSE,
                  fault |-> FALSE]
    BY DEF Unread
  <1>3. Opened(c) \in Content /\ (c.scene = Preview => Opened(c).scene = live.scene)
    BY <1>1 DEF Opened, Content
  <1>4. CASE r = done
    <2>1. r = [ok |-> TRUE, live |-> Opened(c), dirty |-> FALSE, geometry |-> c.scene # Preview,
               fault |-> FALSE]
      BY <1>2, <1>4
    <2>2. r \in Results BY <2>1, <1>3 DEF Results
    <2> QED BY <2>1, <2>2, <1>3 DEF LoadResult
  <1>5. ASSUME MayFail, NEW l \in Looks, r = [fails EXCEPT !.live.look = l]
        PROVE  LoadResult(c, r)
    <2>1. r = [ok |-> FALSE, live |-> [live EXCEPT !.look = l], dirty |-> proj.dirty,
               geometry |-> FALSE, fault |-> TRUE]
      BY <1>2, <1>5
    <2>2. [live EXCEPT !.look = l] \in Content /\ [live EXCEPT !.look = l].scene = live.scene
      BY <1>1 DEF Content
    <2>3. r \in Results BY <2>1, <2>2, <1>1 DEF Results
    <2>4. ~r.ok /\ r.live.scene = live.scene BY <2>1, <2>2
    <2>5. r.fault /\ (~r.dirty => ~proj.dirty) BY <2>1
    <2> QED BY <2>3, <2>4, <2>5, <1>5 DEF LoadResult
  <1>6. CASE MayFail /\ r = late
    <2>1. r = [ok |-> FALSE, live |-> Imported(c.scene), dirty |-> TRUE, geometry |-> TRUE,
               fault |-> TRUE]
      BY <1>2, <1>6
    <2>2. Imported(c.scene) \in Content BY DEF Imported, Content, Looks
    <2>3. r \in Results BY <2>1, <2>2 DEF Results
    <2> QED BY <2>1, <2>3, <1>6 DEF LoadResult
  <1>7. \/ r = done
        \/ MayFail /\ \E l \in Looks : r = [fails EXCEPT !.live.look = l]
        \/ MayFail /\ r = late
    BY DEF LoadsOf
  <1> QED BY <1>4, <1>5, <1>6, <1>7

\* A file of a project holds at most one content.
LEMMA FileFacts ==
  ASSUME ContentOK, NEW file \in AtMostOne(Content), NEW r \in LoadsFrom(file)
  PROVE  \/ r = Unread
         \/ \E c \in file : file = {c} /\ c \in Content /\ LoadResult(c, r)
  <1>1. CASE file = {} BY <1>1 DEF LoadsFrom
  <1>2. CASE file # {}
    <2>1. PICK c \in file : r \in LoadsOf(c) BY <1>2 DEF LoadsFrom
    <2>2. c \in Content /\ file = {c} BY DEF AtMostOne
    <2> QED BY <2>1, <2>2, LoadFacts
  <1> QED BY <1>1, <1>2

\* The checkpoints a load leaves are of the scene it leaves if they say so.
Consistent(points, scene) == \A i \in DOMAIN points : points[i].same => points[i].live.scene = scene

LEMMA PointsFacts ==
  ASSUME ContentOK, PointsInv, NEW r \in Results, ~r.geometry => r.live.scene = live.scene
  PROVE  /\ Points(r) \in Seq(Checkpoints) /\ Len(Points(r)) <= KeptCheckpoints
         /\ Consistent(Points(r), r.live.scene)
  <1>1. cps \in Seq(Checkpoints) /\ Len(cps) <= KeptCheckpoints BY DEF ContentOK
  <1>2. CASE r.geometry
    <2>1. Points(r) = Geometry(cps) BY <1>2 DEF Points
    <2> QED BY <2>1, <1>1, GeometryFacts DEF Consistent
  <1>3. CASE ~r.geometry
    <2>1. Points(r) = cps BY <1>3 DEF Points
    <2> QED BY <2>1, <1>1, <1>3 DEF Consistent, PointsInv
  <1> QED BY <1>2, <1>3
-----------------------------------------------------------------------------
(* The order of loads.                                                     *)

LoadRecords == [scene : ScenesOrNone, stage : LoadStages, cancel : BOOLEAN, queued : ScenesOrNone]

LEMMA SceneFacts ==
  /\ Scenes \subseteq Nat /\ NoScene \notin Scenes /\ NoScene = 0
  /\ ScenesOrNone \subseteq Nat /\ Scenes = ScenesOrNone \ {NoScene}
  BY ProjectAssumption DEF Scenes, NoScene, ScenesOrNone

\* A scene is asked for; one that was asked for before is replaced.
LEMMA AskKeepsOrder ==
  ASSUME NEW a \in ScenesOrNone, NEW l \in LoadRecords, NEW ans \in [Scenes -> Answers],
         NEW new \in [Scenes -> Answers], NEW n \in Scenes,
         Ordered(a, l, ans), ans[n] = "none", \A m \in 1 .. n - 1 : ans[m] # "none",
         new[n] = "open", a # NoScene => new[a] = "replaced",
         \A m \in Scenes \ {a, n} : new[m] = ans[m]
  PROVE  Ordered(n, l, new)
  <1>1. /\ Scenes \subseteq Nat /\ NoScene \notin Scenes /\ a \in Nat /\ n \in Nat
        /\ Scenes = ScenesOrNone \ {NoScene}
    BY SceneFacts
  <1>2. /\ l.scene \in ScenesOrNone /\ l.queued \in ScenesOrNone BY DEF LoadRecords
  <1>3. /\ \A m \in Scenes : ans[m] = "open" <=> StillOpen(a, l, m)
        /\ \A p, q \in Scenes : p < q /\ ans[q] # "none" => ans[p] # "none"
    BY DEF Ordered
  <1>4. \A m \in Scenes : m > n => ans[m] = "none" BY <1>1, <1>3
  <1>5. \A m \in Scenes : m < n => ans[m] # "none" BY <1>1 DEF Scenes
  <1>6. ~StillOpen(a, l, n) BY <1>3
  <1>7. \A m \in Scenes : StillOpen(a, l, m) => m < n
    <2>1. \A m \in Scenes : StillOpen(a, l, m) => ans[m] = "open" BY <1>3
    <2>2. \A m \in Scenes : m = n \/ m > n \/ m < n BY <1>1
    <2> QED BY <2>1, <2>2, <1>4
  <1>8. a # NoScene => a \in Scenes /\ a < n BY <1>1, <1>7 DEF StillOpen
  <1>9. l.queued # NoScene => l.queued < n BY <1>1, <1>2, <1>7 DEF StillOpen
  <1>10. l.stage # "none" => l.scene < n BY <1>1, <1>2, <1>7 DEF StillOpen, Ordered
  <1>11. \A p, q \in Scenes : p < q /\ new[q] # "none" => new[p] # "none"
    <2> SUFFICES ASSUME NEW p \in Scenes, NEW q \in Scenes, p < q, new[q] # "none"
                 PROVE  new[p] # "none"
      OBVIOUS
    <2>1. CASE q = n
      <3>1. p < n BY <2>1
      <3>2. ans[p] # "none" /\ p # n BY <1>1, <1>5, <3>1
      <3> QED BY <3>2, <1>1, <1>8
    <2>2. CASE q # n
      <3>1. ans[q] # "none" BY <2>2, <1>3, <1>8 DEF StillOpen
      <3>2. ans[p] # "none" BY <3>1, <1>3
      <3> QED BY <3>2, <1>1, <1>8
    <2> QED BY <2>1, <2>2
  <1>12. \A m \in Scenes : new[m] = "open" <=> StillOpen(n, l, m)
    <2>1. a # NoScene => a # l.queued /\ ~(a = l.scene /\ l.stage # "none")
      BY <1>1, <1>2 DEF Ordered
    <2>2. new[n] = "open" /\ StillOpen(n, l, n) BY DEF StillOpen
    <2>3. ASSUME NEW m \in Scenes, m # n PROVE new[m] = "open" <=> StillOpen(n, l, m)
      <3>1. CASE m = a BY <3>1, <2>3, <2>1, <1>1 DEF StillOpen
      <3>2. CASE m # a
        <4>1. new[m] = ans[m] BY <3>2, <2>3
        <4>2. ans[m] = "open" <=> StillOpen(a, l, m) BY <1>3
        <4> QED BY <4>1, <4>2, <3>2, <2>3 DEF StillOpen
      <3> QED BY <3>1, <3>2
    <2> QED BY <2>2, <2>3
  <1>13. ASSUME NEW k \in Scenes, StillOpen(n, l, k), NEW m \in Scenes, m > k
         PROVE  new[m] \in {"none", "replaced", "open"}
    <2>1. CASE m = n BY <2>1
    <2>2. CASE m = a /\ m # n BY <2>2, <1>1
    <2>3. CASE m # n /\ m # a
      <3>1. new[m] = ans[m] BY <2>3
      <3>2. CASE k = n BY <3>1, <3>2, <1>13, <1>4
      <3>3. CASE k # n
        <4>1. StillOpen(a, l, k) BY <3>3, <1>13 DEF StillOpen
        <4> QED BY <4>1, <3>1, <1>13 DEF Ordered
      <3> QED BY <3>2, <3>3
    <2> QED BY <2>1, <2>2, <2>3
  <1>14. n # NoScene BY <1>1
  <1> QED BY <1>9, <1>10, <1>11, <1>12, <1>13 DEF Ordered

\* What was asked for is forgotten.
LEMMA ForgetKeepsOrder ==
  ASSUME NEW a \in ScenesOrNone, NEW l \in LoadRecords, NEW ans \in [Scenes -> Answers],
         NEW new \in [Scenes -> Answers],
         Ordered(a, l, ans), a # NoScene => new[a] = "replaced",
         \A m \in Scenes \ {a} : new[m] = ans[m]
  PROVE  Ordered(NoScene, l, new)
  <1>1. Scenes \subseteq Nat /\ NoScene \notin Scenes /\ Scenes = ScenesOrNone \ {NoScene}
    BY SceneFacts
  <1>2. a # NoScene => a # l.queued /\ ~(a = l.scene /\ l.stage # "none")
    BY <1>1, SceneFacts DEF Ordered, LoadRecords
  <1>3. \A p, q \in Scenes : p < q /\ new[q] # "none" => new[p] # "none"
    <2> SUFFICES ASSUME NEW p \in Scenes, NEW q \in Scenes, p < q, new[q] # "none"
                 PROVE  new[p] # "none"
      OBVIOUS
    <2>1. ans[q] # "none" BY <1>1 DEF Ordered, StillOpen
    <2>2. ans[p] # "none" BY <2>1 DEF Ordered
    <2> QED BY <2>2, <1>1
  <1>4. ASSUME NEW m \in Scenes PROVE new[m] = "open" <=> StillOpen(NoScene, l, m)
    <2>1. m # NoScene BY <1>1
    <2>2. ans[m] = "open" <=> StillOpen(a, l, m) BY DEF Ordered
    <2>3. CASE m = a BY <2>1, <2>3, <1>2 DEF StillOpen
    <2>4. CASE m # a BY <2>1, <2>2, <2>4 DEF StillOpen
    <2> QED BY <2>3, <2>4
  <1>5. ASSUME NEW k \in Scenes, StillOpen(NoScene, l, k), NEW m \in Scenes, m > k
        PROVE  new[m] \in {"none", "replaced", "open"}
    <2>1. StillOpen(a, l, k) BY <1>1, <1>5 DEF StillOpen
    <2>2. ans[m] \in {"none", "replaced", "open"} BY <2>1, <1>5 DEF Ordered
    <2> QED BY <2>2, <1>1
  <1> QED BY <1>3, <1>4, <1>5 DEF Ordered

\* The load that runs goes on, and may be cancelled.
LEMMA GoingOnKeepsOrder ==
  ASSUME NEW a, NEW l, NEW new, NEW ans, Ordered(a, l, ans),
         new.scene = l.scene, new.queued = l.queued, l.stage # "none", new.stage # "none",
         l.cancel => new.cancel
  PROVE  Ordered(a, new, ans)
  <1>1. \A n \in Scenes : StillOpen(a, new, n) <=> StillOpen(a, l, n) BY DEF StillOpen
  <1> QED BY <1>1 DEF Ordered

\* The load that runs ends, and the one in the queue begins.
LEMMA EndKeepsOrder ==
  ASSUME NEW a \in ScenesOrNone, NEW l \in LoadRecords, NEW ans \in [Scenes -> Answers],
         NEW new \in [Scenes -> Answers], NEW r \in Answers \ {"none", "open"},
         Ordered(a, l, ans), l.stage # "none", new = [ans EXCEPT ![l.scene] = r]
  PROVE  Ordered(a, Following(l), new) /\ Following(l) \in LoadRecords
  <1>1. Scenes \subseteq Nat /\ NoScene \notin Scenes /\ Scenes = ScenesOrNone \ {NoScene}
    BY SceneFacts
  <1>2. /\ l.scene \in ScenesOrNone /\ l.queued \in ScenesOrNone /\ l.scene # NoScene
        /\ l.scene \in Scenes
    BY <1>1 DEF LoadRecords, Ordered
  <1>3. new[l.scene] = r /\ \A m \in Scenes \ {l.scene} : new[m] = ans[m] BY <1>2
  <1>4. /\ Following(l).queued = NoScene /\ Following(l) \in LoadRecords
        /\ Following(l).stage # "none" <=> l.queued # NoScene
        /\ Following(l).scene = l.queued
    BY <1>2 DEF Following, Begin, Idle, LoadRecords, LoadStages, ScenesOrNone
  <1>5. \A m \in Scenes : StillOpen(a, Following(l), m) <=> m = a \/ m = l.queued
    BY <1>1, <1>4 DEF StillOpen
  <1>6. a # l.scene /\ l.queued # l.scene
    <2>1. l.scene \in Nat /\ a \in Nat /\ l.queued \in Nat BY <1>2, SceneFacts
    <2>2. l.queued # NoScene => l.scene < l.queued BY DEF Ordered
    <2>3. a # NoScene => l.scene < a BY DEF Ordered
    <2> QED BY <1>2, <2>1, <2>2, <2>3
  <1>7. \A p, q \in Scenes : p < q /\ new[q] # "none" => new[p] # "none"
    <2> SUFFICES ASSUME NEW p \in Scenes, NEW q \in Scenes, p < q, new[q] # "none"
                 PROVE  new[p] # "none"
      OBVIOUS
    <2>1. ans[l.scene] = "open" BY <1>2 DEF Ordered, StillOpen
    <2>2. ans[q] # "none" BY <1>3, <2>1
    <2>3. ans[p] # "none" BY <2>2 DEF Ordered
    <2> QED BY <2>3, <1>3
  <1>8. ASSUME NEW m \in Scenes PROVE new[m] = "open" <=> StillOpen(a, Following(l), m)
    <2>1. ans[m] = "open" <=> StillOpen(a, l, m) BY DEF Ordered
    <2>2. CASE m = l.scene BY <2>2, <1>3, <1>5, <1>6
    <2>3. CASE m # l.scene BY <2>1, <2>3, <1>3, <1>5 DEF StillOpen
    <2> QED BY <2>2, <2>3
  <1>9. ASSUME NEW k \in Scenes, StillOpen(a, Following(l), k), NEW m \in Scenes, m > k
        PROVE  new[m] \in {"none", "replaced", "open"}
    <2>1. k = a \/ k = l.queued BY <1>5, <1>9
    <2>2. StillOpen(a, l, k) BY <2>1 DEF StillOpen
    <2>3. ans[m] \in {"none", "replaced", "open"} BY <2>2, <1>9 DEF Ordered
    <2>4. l.scene < k BY <2>1, <1>1 DEF Ordered
    <2>5. m # l.scene BY <2>4, <1>9, <1>1, <1>2
    <2> QED BY <2>3, <2>5, <1>3
  <1>10. Following(l).stage # "none" => Following(l).scene # NoScene BY <1>4
  <1>11. Following(l).stage # "none" /\ a # NoScene => Following(l).scene < a
    BY <1>4 DEF Ordered
  <1> QED BY <1>4, <1>7, <1>8, <1>9, <1>10, <1>11 DEF Ordered

\* The scene asked for is handed to the loader: it begins, or takes the place in
\* the queue.
LEMMA BeginKeepsOrder ==
  ASSUME NEW a \in ScenesOrNone, NEW l \in LoadRecords, NEW ans \in [Scenes -> Answers],
         NEW new \in [Scenes -> Answers],
         Ordered(a, l, ans), a # NoScene,
         l.queued # NoScene => new[l.queued] = "replaced",
         \A m \in Scenes \ {l.queued} : new[m] = ans[m]
  PROVE  Ordered(NoScene, Begin(a, l), new) /\ Begin(a, l) \in LoadRecords
  <1>1. Scenes \subseteq Nat /\ NoScene \notin Scenes /\ Scenes = ScenesOrNone \ {NoScene}
    BY SceneFacts
  <1>2. /\ l.scene \in ScenesOrNone /\ l.queued \in ScenesOrNone /\ a \in Scenes
    BY <1>1 DEF LoadRecords
  <1>3. CASE l.stage = "none"
    <2>1. l.queued = NoScene BY <1>3 DEF Ordered
    <2>2. Begin(a, l) = [scene |-> a, stage |-> "importing", cancel |-> FALSE, queued |-> NoScene]
      BY <1>3 DEF Begin
    <2>3. \A m \in Scenes : new[m] = ans[m] BY <1>1, <2>1
    <2>4. \A m \in Scenes : StillOpen(NoScene, Begin(a, l), m) <=> StillOpen(a, l, m)
      BY <1>1, <1>3, <2>1, <2>2 DEF StillOpen
    <2>5. Begin(a, l) \in LoadRecords BY <2>2 DEF LoadRecords, LoadStages, ScenesOrNone
    <2>6. \A m \in Scenes : new[m] = "open" <=> StillOpen(NoScene, Begin(a, l), m)
      BY <2>3, <2>4 DEF Ordered
    <2>7. \A p, q \in Scenes : p < q /\ new[q] # "none" => new[p] # "none"
      BY <2>3 DEF Ordered
    <2>8. \A k \in Scenes : StillOpen(NoScene, Begin(a, l), k) =>
            \A m \in Scenes : m > k => new[m] \in {"none", "replaced", "open"}
      BY <2>3, <2>4 DEF Ordered
    <2>9. /\ Begin(a, l).queued = NoScene /\ Begin(a, l).scene = a
      BY <2>2
    <2> QED BY <2>5, <2>6, <2>7, <2>8, <2>9 DEF Ordered
  <1>4. CASE l.stage # "none"
    <2>1. Begin(a, l) = [l EXCEPT !.cancel = TRUE, !.queued = a] BY <1>4 DEF Begin
    <2>2. Begin(a, l) \in LoadRecords BY <2>1 DEF LoadRecords
    <2>3. /\ Begin(a, l).cancel = TRUE /\ Begin(a, l).queued = a
          /\ Begin(a, l).scene = l.scene /\ Begin(a, l).stage = l.stage
      BY <2>1 DEF LoadRecords
    <2>4. l.queued # NoScene => l.queued # a /\ l.queued # l.scene
      <3>1. l.scene \in Nat /\ a \in Nat /\ l.queued \in Nat BY <1>2, SceneFacts
      <3>2. l.queued # NoScene => l.scene < l.queued /\ l.queued < a BY DEF Ordered
      <3> QED BY <3>1, <3>2
    <2>5. ASSUME NEW m \in Scenes PROVE new[m] = "open" <=> StillOpen(NoScene, Begin(a, l), m)
      <3>1. ans[m] = "open" <=> StillOpen(a, l, m) BY DEF Ordered
      <3>2. CASE m = l.queued BY <3>2, <2>3, <2>4, <1>1 DEF StillOpen
      <3>3. CASE m # l.queued BY <3>1, <3>3, <2>3, <1>1 DEF StillOpen
      <3> QED BY <3>2, <3>3
    <2>6. \A p, q \in Scenes : p < q /\ new[q] # "none" => new[p] # "none"
      <3> SUFFICES ASSUME NEW p \in Scenes, NEW q \in Scenes, p < q, new[q] # "none"
                   PROVE  new[p] # "none"
        OBVIOUS
      <3>1. ans[q] # "none" BY <1>1 DEF Ordered, StillOpen
      <3>2. ans[p] # "none" BY <3>1 DEF Ordered
      <3> QED BY <3>2, <1>1
    <2>7. ASSUME NEW k \in Scenes, StillOpen(NoScene, Begin(a, l), k), NEW m \in Scenes, m > k
          PROVE  new[m] \in {"none", "replaced", "open"}
      <3>1. StillOpen(a, l, k) BY <1>1, <2>3, <2>7 DEF StillOpen
      <3>2. ans[m] \in {"none", "replaced", "open"} BY <3>1, <2>7 DEF Ordered
      <3> QED BY <3>2, <1>1
    <2>8. l.scene < a /\ l.scene # NoScene BY <1>4 DEF Ordered
    <2> QED BY <1>4, <2>2, <2>3, <2>5, <2>6, <2>7, <2>8 DEF Ordered
  <1> QED BY <1>3, <1>4

\* The process is gone, and every open load with it.
LEMMA GoneKeepsOrder ==
  ASSUME NEW a, NEW l, NEW ans, NEW new, Ordered(a, l, ans),
         new = [n \in Scenes |-> IF ans[n] = "open" THEN "cancelled" ELSE ans[n]]
  PROVE  Ordered(NoScene, Idle, new)
  <1>1. Scenes \subseteq Nat /\ NoScene \notin Scenes BY SceneFacts
  <1>2. \A n \in Scenes : new[n] # "open" /\ ~StillOpen(NoScene, Idle, n)
    BY <1>1 DEF StillOpen, Idle
  <1>3. \A m, n \in Scenes : m < n /\ new[n] # "none" => new[m] # "none" BY DEF Ordered
  <1> QED BY <1>2, <1>3 DEF Ordered, Idle
-----------------------------------------------------------------------------
(* What a step may change.                                                 *)

LoadStep ==
  \/ \E b \in BOOLEAN : NewScene(b) \/ NewSceneFails(b) \/ Import(b) \/ PollCommit(b)
  \/ CancelLoad \/ PollEnded \/ PollImported \/ PendingProject \/ PendingScene
  \/ \E n \in Scenes : AskScene(n)
  \/ \E p \in Paths : AskProject(p)
  \/ Gone

\* Every other step leaves the loads alone.
LEMMA LoadSteps == [ProjectNext]_projectVars => LoadStep \/ UNCHANGED loads
  <1> SUFFICES ASSUME [ProjectNext]_projectVars PROVE LoadStep \/ UNCHANGED loads OBVIOUS
  <1>1. CASE UNCHANGED projectVars BY <1>1 DEF projectVars, loads
  <1>2. ASSUME NEW b \in BOOLEAN, DisableRestore(b) \/ StartBenchmark(b) \/ Edit(b) \/ Launch(b)
               \/ IsolatePending(b)
        PROVE  UNCHANGED loads
    BY <1>2
       DEF DisableRestore, StartBenchmark, Edit, Launch, IsolatePending, loads
  <1>3. ASSUME NEW b \in BOOLEAN, PrepareRestore(b) \/ EndRestore(b) \/ Loop(b)
        PROVE  UNCHANGED loads
    BY <1>3
       DEF PrepareRestore, EndRestore, Loop, loads
  <1>4. ASSUME NEW b \in BOOLEAN, NEW p \in Paths, SaveProject(p, b) \/ ToolSavesProject(p, b)
        PROVE  UNCHANGED loads
    BY <1>4
       DEF SaveProject, ToolSavesProject, SaveTo, loads
  <1>5. ASSUME EnableRestore \/ CreateCheckpoint \/ CancelBenchmark \/ StopMcpServer
               \/ TryRestore
        PROVE  UNCHANGED loads
    BY <1>5
       DEF EnableRestore, CreateCheckpoint, CancelBenchmark, StopMcpServer, TryRestore,
           EndBenchmark, loads
  <1>6. ASSUME Update \/ PollIdle \/ PendingDone \/ BenchmarkFinishes \/ StopRestores
        PROVE  UNCHANGED loads
    BY <1>6
       DEF Update, PollIdle, PendingDone, BenchmarkFinishes, StopRestores, Poll, loads
  <1>7. ASSUME FrameEnds
        PROVE  UNCHANGED loads
    BY <1>7
       DEF FrameEnds, loads
  <1>8. ASSUME NEW n \in Scenes, ToolSetsScene(n)
        PROVE  UNCHANGED loads
    BY <1>8
       DEF ToolSetsScene, loads
  <1>9. ASSUME NEW p \in Paths, ToolLoadsProject(p)
        PROVE  UNCHANGED loads
    BY <1>9
       DEF ToolLoadsProject, loads
  <1>10. ASSUME NEW i \in DOMAIN cps, DeleteCheckpoint(i) \/ RestoreCheckpoint(i)
        PROVE  UNCHANGED loads
    BY <1>10
       DEF DeleteCheckpoint, RestoreCheckpoint, loads
  <1>11. /\ Crash => Gone
         /\ SaveSessionOnExit => Gone \/ UNCHANGED loads
         /\ \A b, c \in BOOLEAN : SaveSnapshot(b, c) \/ SaveSettings(b) => Gone \/ UNCHANGED loads
    BY DEF Crash, SaveSessionOnExit, SaveSnapshot, SaveSettings, loads
  <1>12. CASE Commands
    BY <1>12, <1>1, <1>2, <1>3, <1>4, <1>5, <1>6, <1>7, <1>8, <1>9, <1>10, <1>11 DEF Commands,
       LoadStep
  <1>13. CASE Steps
    BY <1>13, <1>1, <1>2, <1>3, <1>4, <1>5, <1>6, <1>7, <1>8, <1>9, <1>10, <1>11 DEF Steps,
       LoadStep
  <1> QED BY <1>1, <1>12, <1>13 DEF ProjectNext

ContentStep ==
  \/ \E b \in BOOLEAN :
       \/ NewScene(b) \/ NewSceneFails(b) \/ StartBenchmark(b) \/ Edit(b) \/ PollCommit(b)
       \/ \E p \in Paths : SaveProject(p, b) \/ ToolSavesProject(p, b)
  \/ CreateCheckpoint \/ CancelBenchmark \/ StopMcpServer \/ TryRestore \/ PendingProject
  \/ BenchmarkFinishes \/ StopRestores
  \/ \E n \in Scenes : ToolSetsScene(n)
  \/ \E p \in Paths : ToolLoadsProject(p)
  \/ \E i \in DOMAIN cps : DeleteCheckpoint(i) \/ RestoreCheckpoint(i)
  \/ Gone
Still == UNCHANGED <<content, files, sound>> /\ (at' \in Booting => at \in Booting)

\* Every other step leaves the scene, the project and the files alone.
LEMMA ContentSteps == [ProjectNext]_projectVars => ContentStep \/ Still
  <1> SUFFICES ASSUME [ProjectNext]_projectVars PROVE ContentStep \/ Still OBVIOUS
  <1>1. CASE UNCHANGED projectVars BY <1>1 DEF projectVars, Still, Booting, content, history
  <1>2. ASSUME NEW b \in BOOLEAN, DisableRestore(b) \/ Launch(b) \/ IsolatePending(b) \/
       PrepareRestore(b)
               \/ EndRestore(b)
        PROVE  Still
    BY <1>2
       DEF DisableRestore, Launch, IsolatePending, PrepareRestore, EndRestore, Still, Booting,
           content, history
  <1>3. ASSUME NEW b \in BOOLEAN, Loop(b) \/ Import(b)
        PROVE  Still
    BY <1>3
       DEF Loop, Import, Still, Booting, content, history
  <1>4. ASSUME EnableRestore \/ CancelLoad \/ Update \/ PollIdle \/ PollEnded
        PROVE  Still
    BY <1>4
       DEF EnableRestore, CancelLoad, Update, PollIdle, PollEnded, Poll, Still, Booting,
           content, history
  <1>5. ASSUME PollImported \/ PendingScene \/ PendingDone \/ FrameEnds
        PROVE  Still
    BY <1>5
       DEF PollImported, PendingScene, PendingDone, FrameEnds, Poll, Still, Booting, content,
           history
  <1>6. ASSUME NEW n \in Scenes, AskScene(n)
        PROVE  Still
    BY <1>6
       DEF AskScene, Still, Booting, content, history
  <1>7. ASSUME NEW p \in Paths, AskProject(p)
        PROVE  Still
    BY <1>7
       DEF AskProject, Still, Booting, content, history
  <1>8. /\ Crash => Gone
        /\ SaveSessionOnExit => Gone \/ Still
        /\ \A b, c \in BOOLEAN : SaveSnapshot(b, c) \/ SaveSettings(b) => Gone \/ Still
    BY DEF Crash, SaveSessionOnExit, SaveSnapshot, SaveSettings, Still, Booting, content, history
  <1>9. CASE Commands
    BY <1>9, <1>1, <1>2, <1>3, <1>4, <1>5, <1>6, <1>7, <1>8 DEF Commands, ContentStep
  <1>10. CASE Steps
    BY <1>10, <1>1, <1>2, <1>3, <1>4, <1>5, <1>6, <1>7, <1>8 DEF Steps, ContentStep
  <1> QED BY <1>1, <1>9, <1>10 DEF ProjectNext

SessionStep ==
  \/ \E b \in BOOLEAN :
       \/ Launch(b) \/ IsolatePending(b) \/ PrepareRestore(b) \/ EndRestore(b)
       \/ SaveSnapshot(TRUE, b) \/ SaveSettings(b) \/ DisableRestore(b) \/ NewScene(b)
  \/ TryRestore \/ SaveSessionOnExit \/ SaveSnapshot(FALSE, FALSE) \/ EnableRestore \/ Crash
Running == {"loop", "commands", "stopping", "poll", "pending", "mcp", "exiting"}
Away ==
  /\ UNCHANGED <<session, disk, exit>>
  /\ {at, at'} \subseteq Running \/ UNCHANGED <<at, live, proj>>

\* Every other step leaves the session alone.
LEMMA SessionSteps == [ProjectNext]_projectVars => SessionStep \/ Away
  <1> SUFFICES ASSUME [ProjectNext]_projectVars PROVE SessionStep \/ Away OBVIOUS
  <1>1. CASE UNCHANGED projectVars BY <1>1 DEF projectVars, Away, Running, content, history
  <1>2. ASSUME NEW b \in BOOLEAN, NewSceneFails(b) \/ StartBenchmark(b) \/ Edit(b) \/ Loop(b)
       \/ Import(b)
        PROVE  Away
    BY <1>2
       DEF NewSceneFails, StartBenchmark, Edit, Loop, Import, Away, Running, content, history
  <1>3. ASSUME NEW b \in BOOLEAN, PollCommit(b)
        PROVE  Away
    BY <1>3
       DEF PollCommit, Poll, Away, Running, content, history
  <1>4. ASSUME NEW b \in BOOLEAN, NEW p \in Paths, SaveProject(p, b) \/ ToolSavesProject(p, b)
        PROVE  Away
    BY <1>4
       DEF SaveProject, ToolSavesProject, SaveTo, Away, Running, content, history
  <1>5. ASSUME CancelLoad \/ CreateCheckpoint \/ CancelBenchmark \/ StopMcpServer \/ Update
        PROVE  Away
    BY <1>5
       DEF CancelLoad, CreateCheckpoint, CancelBenchmark, StopMcpServer, Update, EndBenchmark,
           Away, Running, content, history
  <1>6. ASSUME PollIdle \/ PollEnded \/ PollImported \/ PendingProject \/ PendingScene
        PROVE  Away
    BY <1>6
       DEF PollIdle, PollEnded, PollImported, PendingProject, PendingScene, Poll, Away,
           Running, content, history
  <1>7. ASSUME PendingDone \/ BenchmarkFinishes \/ StopRestores \/ FrameEnds
        PROVE  Away
    BY <1>7
       DEF PendingDone, BenchmarkFinishes, StopRestores, FrameEnds, Away, Running, content,
           history
  <1>8. ASSUME NEW n \in Scenes, AskScene(n) \/ ToolSetsScene(n)
        PROVE  Away
    BY <1>8
       DEF AskScene, ToolSetsScene, Away, Running, content, history
  <1>9. ASSUME NEW p \in Paths, AskProject(p) \/ ToolLoadsProject(p)
        PROVE  Away
    BY <1>9
       DEF AskProject, ToolLoadsProject, Away, Running, content, history
  <1>10. ASSUME NEW i \in DOMAIN cps, DeleteCheckpoint(i) \/ RestoreCheckpoint(i)
        PROVE  Away
    BY <1>10
       DEF DeleteCheckpoint, RestoreCheckpoint, Away, Running, content, history
  <1>11. CASE Commands
    BY <1>11, <1>1, <1>2, <1>3, <1>4, <1>5, <1>6, <1>7, <1>8, <1>9, <1>10 DEF Commands,
       SessionStep
  <1>12. CASE Steps
    BY <1>12, <1>1, <1>2, <1>3, <1>4, <1>5, <1>6, <1>7, <1>8, <1>9, <1>10 DEF Steps, SessionStep
  <1> QED BY <1>1, <1>11, <1>12 DEF ProjectNext
\* The loads keep their types and their order.
LEMMA LoadsKept ==
  ASSUME LoadsOK, OrderInv, [ProjectNext]_projectVars
  PROVE  LoadsOK' /\ OrderInv'
  <1> DEFINE Keep(a, l, ans) ==
               /\ a \in [project : PathsOrNone, scene : ScenesOrNone]
               /\ l \in LoadRecords /\ ans \in [Scenes -> Answers]
               /\ Ordered(a.scene, l, ans)
  <1>1. /\ asked \in [project : PathsOrNone, scene : ScenesOrNone]
        /\ asked.scene \in ScenesOrNone /\ asked.project \in PathsOrNone
        /\ load \in LoadRecords /\ answer \in [Scenes -> Answers]
    BY DEF LoadsOK, LoadRecords
  <1>2. Ordered(asked.scene, load, answer) BY DEF OrderInv
  <1>3. Scenes \subseteq ScenesOrNone /\ Paths \subseteq PathsOrNone
        /\ NoScene \in ScenesOrNone /\ NoPath \in PathsOrNone /\ NoScene \notin Scenes
    BY SceneFacts DEF ScenesOrNone, PathsOrNone
  <1>4. ASSUME NEW n \in ScenesOrNone
        PROVE  /\ Dropped(n) \in [Scenes -> Answers]
               /\ n # NoScene => Dropped(n)[n] = "replaced"
               /\ \A m \in Scenes \ {n} : Dropped(n)[m] = answer[m]
    BY <1>1, <1>3, SceneFacts DEF Dropped, Answered, Answers
  <1>5. ASSUME UNCHANGED loads PROVE Keep(asked', load', answer')
    <2>1. asked' = asked /\ load' = load /\ answer' = answer BY <1>5 DEF loads
    <2> QED BY <2>1, <1>1, <1>2
  <1>6. ASSUME NEW b \in BOOLEAN, NewScene(b) \/ NewSceneFails(b)
        PROVE  Keep(asked', load', answer')
    <2>1. asked' = NothingAsked /\ answer' = Dropped(asked.scene) /\ load' = load
      BY <1>6 DEF NewScene, NewSceneFails
    <2>2. Ordered(NoScene, load, Dropped(asked.scene)) BY <1>1, <1>2, <1>4, ForgetKeepsOrder
    <2>3. /\ NothingAsked \in [project : PathsOrNone, scene : ScenesOrNone]
          /\ NothingAsked.scene = NoScene
      BY <1>3 DEF NothingAsked
    <2> QED BY <2>1, <2>2, <2>3, <1>1, <1>4
  <1>7. ASSUME NEW b \in BOOLEAN, Import(b) \/ CancelLoad \/ PollImported
        PROVE  Keep(asked', load', answer')
    <2>1. asked' = asked /\ answer' = answer BY <1>7 DEF Import, CancelLoad, PollImported
    <2>2. \/ load' = [load EXCEPT !.stage = IF b THEN "unreadable" ELSE "imported"]
          \/ load' = [load EXCEPT !.cancel = TRUE]
          \/ load' = [load EXCEPT !.stage = "converted"]
      BY <1>7 DEF Import, CancelLoad, PollImported
    <2>3. load.stage # "none" BY <1>7 DEF Import, CancelLoad, PollImported
    <2>4. load' \in LoadRecords BY <2>2, <1>1 DEF LoadRecords, LoadStages
    <2>5. /\ load'.scene = load.scene /\ load'.queued = load.queued /\ load'.stage # "none"
          /\ load.cancel => load'.cancel
      BY <2>2, <2>3, <1>1 DEF LoadRecords
    <2>6. Ordered(asked.scene, load', answer) BY <2>3, <2>5, <1>2, GoingOnKeepsOrder
    <2> QED BY <2>1, <2>4, <2>6, <1>1
  <1>8. ASSUME NEW b \in BOOLEAN, PollEnded \/ PollCommit(b)
        PROVE  Keep(asked', load', answer')
    <2>1. asked' = asked /\ load' = Following(load) /\ load.stage # "none"
      BY <1>8 DEF PollEnded, PollCommit
    <2>2. PICK r \in Answers \ {"none", "open"} : answer' = [answer EXCEPT ![load.scene] = r]
      BY <1>8 DEF PollEnded, PollCommit, Answered, Answers
    <2>3. answer' \in [Scenes -> Answers] BY <2>2, <1>1
    <2>4. Ordered(asked.scene, Following(load), answer') /\ Following(load) \in LoadRecords
      BY <2>1, <2>2, <2>3, <1>1, <1>2, EndKeepsOrder
    <2> QED BY <2>1, <2>3, <2>4, <1>1
  <1>9. ASSUME NEW p \in PathsOrNone, PendingProject \/ AskProject(p)
        PROVE  Keep(asked', load', answer')
    <2>1. load' = load /\ answer' = answer BY <1>9 DEF PendingProject, AskProject
    <2>2. asked' = [asked EXCEPT !.project = NoPath] \/ asked' = [asked EXCEPT !.project = p]
      BY <1>9 DEF PendingProject, AskProject
    <2>3. asked' \in [project : PathsOrNone, scene : ScenesOrNone] /\ asked'.scene = asked.scene
      BY <2>2, <1>1, <1>3
    <2> QED BY <2>1, <2>3, <1>1, <1>2
  <1>10. ASSUME PendingScene PROVE Keep(asked', load', answer')
    <2>1. /\ asked' = [asked EXCEPT !.scene = NoScene] /\ load' = Begin(asked.scene, load)
          /\ answer' = Dropped(load.queued) /\ asked.scene # NoScene
      BY <1>10 DEF PendingScene
    <2>2. load.queued \in ScenesOrNone BY <1>1 DEF LoadRecords
    <2>3. /\ Ordered(NoScene, Begin(asked.scene, load), Dropped(load.queued))
          /\ Begin(asked.scene, load) \in LoadRecords
      BY <2>1, <2>2, <1>1, <1>2, <1>4, BeginKeepsOrder
    <2>4. asked' \in [project : PathsOrNone, scene : ScenesOrNone] /\ asked'.scene = NoScene
      BY <2>1, <1>1, <1>3
    <2> QED BY <2>1, <2>2, <2>3, <2>4, <1>4
  <1>11. ASSUME NEW n \in Scenes, AskScene(n)
         PROVE  Keep(asked', load', answer')
    <2> DEFINE new == [Dropped(asked.scene) EXCEPT ![n] = "open"]
    <2>1. /\ asked' = [asked EXCEPT !.scene = n] /\ load' = load /\ answer' = new
          /\ answer[n] = "none" /\ \A m \in 1 .. n - 1 : answer[m] # "none"
      BY <1>11 DEF AskScene
    <2>2. asked.scene # n
      <3>1. asked.scene # NoScene => answer[asked.scene] = "open"
        BY <1>1, <1>2, <1>3, SceneFacts DEF Ordered, StillOpen
      <3> QED BY <2>1, <3>1, <1>3
    <2>3. /\ new \in [Scenes -> Answers] /\ new[n] = "open"
          /\ asked.scene # NoScene => new[asked.scene] = "replaced"
          /\ \A m \in Scenes \ {asked.scene, n} : new[m] = answer[m]
      BY <2>2, <1>1, <1>4 DEF Answers
    <2> HIDE DEF new
    <2>4. Ordered(n, load, new) BY <2>1, <2>3, <1>1, <1>2, AskKeepsOrder
    <2>5. asked' \in [project : PathsOrNone, scene : ScenesOrNone] /\ asked'.scene = n
      BY <2>1, <1>1, <1>3
    <2> QED BY <2>1, <2>3, <2>4, <2>5, <1>1
  <1>12. ASSUME Gone PROVE Keep(asked', load', answer')
    <2>1. /\ asked' = NothingAsked /\ load' = Idle
          /\ answer' = [n \in Scenes |-> IF answer[n] = "open" THEN "cancelled" ELSE answer[n]]
      BY <1>12 DEF Gone
    <2>2. answer' \in [Scenes -> Answers] BY <2>1, <1>1 DEF Answers
    <2>3. Ordered(NoScene, Idle, answer') BY <2>1, <1>2, GoneKeepsOrder
    <2>4. /\ NothingAsked \in [project : PathsOrNone, scene : ScenesOrNone]
          /\ NothingAsked.scene = NoScene /\ Idle \in LoadRecords
      BY <1>3 DEF NothingAsked, Idle, LoadRecords, LoadStages
    <2> QED BY <2>1, <2>2, <2>3, <2>4
  <1>13. Keep(asked', load', answer')
    <2>1. LoadStep => Keep(asked', load', answer')
      <3>1. TRUE \in BOOLEAN OBVIOUS
      <3> HIDE DEF Keep
      <3>2. CancelLoad \/ PollImported \/ PollEnded => Keep(asked', load', answer')
        BY <3>1, <1>7, <1>8
      <3>3. PendingProject => Keep(asked', load', answer') BY <1>3, <1>9
      <3> QED BY <3>2, <3>3, <1>3, <1>6, <1>7, <1>8, <1>9, <1>10, <1>11, <1>12 DEF LoadStep
    <2> QED BY <2>1, <1>5, LoadSteps
  <1> QED BY <1>13 DEF LoadsOK, OrderInv, LoadRecords
-----------------------------------------------------------------------------
(* The scene, the project and its checkpoints.                             *)

FilesOK == files \in [Paths -> AtMostOne(Content)]
ContentInv == ContentOK /\ FilesOK /\ BootInv /\ PointsInv /\ CleanMeansSaved

\* What a step that changes them must leave.
LEMMA ContentFrame ==
  ASSUME live' \in Content, proj' \in Projects, finished' \in BOOLEAN,
         cps' \in Seq(Checkpoints), Len(cps') <= KeptCheckpoints,
         Consistent(cps', live'.scene), bench' \in AtMostOne(Befores),
         files' \in [Paths -> AtMostOne(Content)],
         at' \in Booting => live' = Imported(Preview) /\ proj' = Unnamed /\ cps' = << >>,
         sound' /\ ~proj'.dirty /\ proj'.path # NoPath => files'[proj'.path] = {live'}
  PROVE  ContentInv'
  <1>1. ContentOK' BY DEF ContentOK
  <1>2. FilesOK' BY DEF FilesOK
  <1>3. BootInv' BY DEF BootInv
  <1>4. PointsInv' BY DEF PointsInv, Consistent
  <1>5. CleanMeansSaved' BY DEF CleanMeansSaved
  <1> QED BY <1>1, <1>2, <1>3, <1>4, <1>5 DEF ContentInv

\* What is the case before it.
LEMMA ContentTypes ==
  ASSUME ContentInv
  PROVE  /\ live \in Content /\ live.scene \in {Preview} \union Scenes /\ live.look \in Looks
         /\ proj \in Projects /\ proj.path \in PathsOrNone /\ proj.dirty \in BOOLEAN
         /\ finished \in BOOLEAN
         /\ cps \in Seq(Checkpoints) /\ Len(cps) <= KeptCheckpoints /\ Len(cps) \in Nat
         /\ DOMAIN cps = 1 .. Len(cps) /\ \A i \in DOMAIN cps : cps[i] \in Checkpoints
         /\ Consistent(cps, live.scene)
         /\ bench \in AtMostOne(Befores) /\ files \in [Paths -> AtMostOne(Content)]
         /\ sound /\ ~proj.dirty /\ proj.path # NoPath => files[proj.path] = {live}
  <1>1. /\ live \in Content /\ proj \in Projects /\ finished \in BOOLEAN
        /\ cps \in Seq(Checkpoints) /\ Len(cps) <= KeptCheckpoints /\ bench \in AtMostOne(Befores)
    BY DEF ContentInv, ContentOK
  <1>2. live.scene \in {Preview} \union Scenes /\ live.look \in Looks BY <1>1 DEF Content
  <1>3. proj.path \in PathsOrNone /\ proj.dirty \in BOOLEAN BY <1>1 DEF Projects, PathsOrNone
  <1>4. /\ Len(cps) \in Nat /\ DOMAIN cps = 1 .. Len(cps)
        /\ \A i \in DOMAIN cps : cps[i] \in Checkpoints
    BY <1>1, LenProperties, ElementOfSeq
  <1>5. Consistent(cps, live.scene) BY DEF ContentInv, PointsInv, Consistent
  <1>6. files \in [Paths -> AtMostOne(Content)] BY DEF ContentInv, FilesOK
  <1>7. sound /\ ~proj.dirty /\ proj.path # NoPath => files[proj.path] = {live}
    BY DEF ContentInv, CleanMeansSaved
  <1> QED BY <1>1, <1>2, <1>3, <1>4, <1>5, <1>6, <1>7

\* New geometry under the checkpoints.
LEMMA GeometryConsistent ==
  ASSUME ContentInv, NEW scene
  PROVE  /\ Geometry(cps) \in Seq(Checkpoints) /\ Len(Geometry(cps)) <= KeptCheckpoints
         /\ Consistent(Geometry(cps), scene)
  BY ContentTypes, GeometryFacts DEF Consistent

LEMMA PreviewTypes ==
  /\ Imported(Preview) \in Content /\ Unnamed \in Projects
  /\ \A n \in Scenes : Imported(n) \in Content
  /\ Unnamed.path = NoPath
  BY DEF Imported, Content, Looks, Unnamed, Projects

\* A part of the checkpoints.
LEMMA PartConsistent ==
  ASSUME NEW s, NEW scene, Consistent(s, scene), NEW t,
         \A j \in DOMAIN t : \E i \in DOMAIN s : t[j] = s[i]
  PROVE  Consistent(t, scene)
  BY DEF Consistent

\* RemoveAt leaves the others.
LEMMA RemoveFacts ==
  ASSUME NEW S, NEW s \in Seq(S), NEW i \in DOMAIN s
  PROVE  /\ RemoveAt(s, i) \in Seq(S) /\ Len(RemoveAt(s, i)) <= Len(s)
         /\ \A j \in DOMAIN RemoveAt(s, i) : \E k \in DOMAIN s : RemoveAt(s, i)[j] = s[k]
  <1> DEFINE left == SubSeq(s, 1, i - 1)
             right == SubSeq(s, i + 1, Len(s))
  <1>1. Len(s) \in Nat /\ DOMAIN s = 1 .. Len(s) /\ i \in 1 .. Len(s) BY LenProperties
  <1>2. \A k \in 1 .. Len(s) : s[k] \in S BY <1>1, ElementOfSeq
  <1>3. /\ left \in Seq(S) /\ Len(left) = IF 1 <= i - 1 THEN (i - 1) - 1 + 1 ELSE 0
        /\ \A k \in 1 .. (i - 1) - 1 + 1 : left[k] = s[1 + k - 1]
    <2>1. 1 \in Int /\ i - 1 \in Int /\ \A k \in 1 .. i - 1 : s[k] \in S BY <1>1, <1>2
    <2> HIDE DEF left
    <2> QED BY <2>1, SubSeqProperties DEF left
  <1>4. /\ right \in Seq(S)
        /\ Len(right) = IF i + 1 <= Len(s) THEN Len(s) - (i + 1) + 1 ELSE 0
        /\ \A k \in 1 .. Len(s) - (i + 1) + 1 : right[k] = s[(i + 1) + k - 1]
    <2>1. i + 1 \in Int /\ Len(s) \in Int /\ \A k \in i + 1 .. Len(s) : s[k] \in S
      BY <1>1, <1>2
    <2> HIDE DEF right
    <2> QED BY <2>1, SubSeqProperties DEF right
  <1>5. RemoveAt(s, i) = left \o right BY DEF RemoveAt
  <1> HIDE DEF left, right
  <1>6. /\ left \o right \in Seq(S) /\ Len(left \o right) = Len(left) + Len(right)
        /\ \A j \in 1 .. Len(left) + Len(right) :
             (left \o right)[j] = IF j <= Len(left) THEN left[j] ELSE right[j - Len(left)]
    BY <1>3, <1>4, ConcatProperties
  <1>7. DOMAIN (left \o right) = 1 .. Len(left) + Len(right) BY <1>6, LenProperties
  <1>8. Len(left) = i - 1 /\ Len(right) = Len(s) - i BY <1>1, <1>3, <1>4
  <1>9. ASSUME NEW j \in 1 .. Len(left) + Len(right)
        PROVE  \E k \in DOMAIN s : (left \o right)[j] = s[k]
    <2>1. CASE j <= Len(left)
      <3>1. (left \o right)[j] = left[j] BY <1>6, <2>1
      <3>2. left[j] = s[j] /\ j \in DOMAIN s BY <1>1, <1>3, <1>8, <2>1
      <3> QED BY <3>1, <3>2
    <2>2. CASE ~(j <= Len(left))
      <3>1. (left \o right)[j] = right[j - Len(left)] BY <1>6, <2>2
      <3>2. j - Len(left) \in 1 .. Len(s) - (i + 1) + 1 BY <1>1, <1>8, <2>2
      <3>3. right[j - Len(left)] = s[(i + 1) + (j - Len(left)) - 1] BY <1>4, <3>2
      <3>4. (i + 1) + (j - Len(left)) - 1 \in DOMAIN s
        <4> DEFINE k == j - Len(left)
        <4>1. k \in 1 .. Len(s) - (i + 1) + 1 BY <3>2
        <4> HIDE DEF k
        <4>2. (i + 1) + k - 1 \in 1 .. Len(s) BY <4>1, <1>1
        <4> QED BY <4>2, <1>1 DEF k
      <3> QED BY <3>1, <3>3, <3>4
    <2> QED BY <2>1, <2>2
  <1>10. Len(left) + Len(right) <= Len(s) BY <1>1, <1>8
  <1> QED BY <1>5, <1>6, <1>7, <1>9, <1>10
\* A project or a checkpoint is loaded.
LEMMA TakeFacts ==
  ASSUME ContentInv, NEW c \in Content, NEW r, LoadResult(c, r), NEW p \in Projects, Take(r, p)
  PROVE  /\ live' = r.live /\ live' \in Content /\ proj' \in Projects
         /\ Points(r) \in Seq(Checkpoints) /\ Len(Points(r)) <= KeptCheckpoints
         /\ Consistent(Points(r), live'.scene)
  <1>1. r \in Results /\ (~r.geometry => r.live.scene = live.scene) BY DEF LoadResult
  <1>2. ContentOK /\ PointsInv BY DEF ContentInv
  <1>3. r.live \in Content /\ r.dirty \in BOOLEAN BY <1>1 DEF Results
  <1>4. live' = r.live /\ proj' = IF r.ok THEN p ELSE [proj EXCEPT !.dirty = r.dirty]
    BY DEF Take
  <1>5. proj' \in Projects BY <1>3, <1>4, ContentTypes DEF Projects
  <1> QED BY <1>1, <1>2, <1>3, <1>4, <1>5, PointsFacts

\* The path and the flag as they were, but for what a failed load does to it.
LEMMA OpenKeeps ==
  ASSUME ContentInv, NEW p \in Paths, OpenProject(p), UNCHANGED files, at' \notin Booting
  PROVE  ContentInv'
  <1>1. PICK r \in LoadsFrom(files[p]) :
          /\ Take(r, [path |-> p, dirty |-> FALSE])
          /\ cps' = Points(r)
          /\ sound' = IF r.ok THEN r.live \in files[p] ELSE sound /\ (r.dirty \/ r.live = live)
          /\ UNCHANGED <<bench, finished>>
    BY DEF OpenProject
  <1>2. files[p] \in AtMostOne(Content) BY ContentTypes
  <1>3. ContentOK /\ [path |-> p, dirty |-> FALSE] \in Projects BY DEF ContentInv, Projects
  <1>4. bench' \in AtMostOne(Befores) /\ finished' \in BOOLEAN
        /\ files' = files /\ files' \in [Paths -> AtMostOne(Content)]
    BY <1>1, ContentTypes
  <1>5. CASE r = Unread
    <2>1. ~r.ok /\ ~r.geometry /\ r.live = live /\ r.dirty = proj.dirty
      BY <1>5 DEF Unread
    <2>2. cps' = cps /\ live' = live BY <1>1, <2>1 DEF Points, Take
    <2>3. proj' = proj BY <1>1, <2>1, ContentTypes DEF Take, Projects
    <2>4. sound' => sound BY <1>1, <2>1
    <2> QED BY <2>2, <2>3, <2>4, <1>4, ContentTypes, ContentFrame
  <1>6. ASSUME NEW c \in files[p], files[p] = {c}, c \in Content, LoadResult(c, r)
        PROVE  ContentInv'
    <2>1. /\ live' = r.live /\ live' \in Content /\ proj' \in Projects
          /\ cps' \in Seq(Checkpoints) /\ Len(cps') <= KeptCheckpoints
          /\ Consistent(cps', live'.scene)
      BY <1>1, <1>3, <1>6, TakeFacts
    <2>2. ASSUME sound', ~proj'.dirty, proj'.path # NoPath PROVE files'[proj'.path] = {live'}
      <3>1. CASE r.ok
        <4>1. proj' = [path |-> p, dirty |-> FALSE] /\ live' = r.live BY <1>1, <3>1 DEF Take
        <4>2. r.live \in files[p] BY <1>1, <2>2, <3>1
        <4> QED BY <4>1, <4>2, <1>4, <1>6
      <3>2. CASE ~r.ok
        <4>1. proj' = [proj EXCEPT !.dirty = r.dirty] /\ live' = r.live BY <1>1, <3>2 DEF Take
        <4>2. ~r.dirty /\ proj'.path = proj.path BY <4>1, <2>2, ContentTypes DEF Projects
        <4>3. ~proj.dirty BY <4>2, <3>2, <1>6 DEF LoadResult
        <4>4. sound /\ r.live = live BY <1>1, <2>2, <3>2, <4>2
        <4> QED BY <4>1, <4>2, <4>3, <4>4, <1>4, <2>2, ContentTypes
      <3> QED BY <3>1, <3>2
    <2> QED BY <2>1, <2>2, <1>4, ContentFrame
  <1> QED BY <1>1, <1>2, <1>3, <1>5, <1>6, FileFacts

\* The project is saved, or its file torn.
LEMMA SaveKeeps ==
  ASSUME ContentInv, NEW p \in Paths, NEW b \in BOOLEAN, SaveTo(p, b), at' \notin Booting
  PROVE  ContentInv'
  <1>1. /\ files' = [files EXCEPT ![p] = IF b THEN {} ELSE {live}]
        /\ proj' = IF b THEN proj ELSE [path |-> p, dirty |-> FALSE]
        /\ sound' = IF b THEN sound /\ proj.path # p ELSE TRUE
        /\ UNCHANGED <<live, cps, bench, finished>>
    BY DEF SaveTo
  <1>2. {} \in AtMostOne(Content) /\ {live} \in AtMostOne(Content)
    BY ContentTypes DEF AtMostOne
  <1>3. files' \in [Paths -> AtMostOne(Content)] BY <1>1, <1>2, ContentTypes
  <1>4. proj' \in Projects BY <1>1, ContentTypes DEF Projects
  <1>5. ASSUME sound', ~proj'.dirty, proj'.path # NoPath PROVE files'[proj'.path] = {live'}
    <2>1. CASE b
      <3>1. proj' = proj /\ sound /\ proj.path # p BY <1>1, <1>5, <2>1
      <3>2. proj.path \in Paths BY <3>1, <1>5, ContentTypes DEF PathsOrNone
      <3>3. files'[proj.path] = files[proj.path] BY <1>1, <3>1, <3>2, ContentTypes
      <3> QED BY <3>1, <3>3, <1>1, <1>5, ContentTypes
    <2>2. CASE ~b BY <1>1, <2>2, ContentTypes
    <2> QED BY <2>1, <2>2
  <1> QED BY <1>1, <1>3, <1>4, <1>5, ContentTypes, ContentFrame

\* A benchmark ends: what it started from is loaded.
LEMMA EndBenchmarkKeeps ==
  ASSUME ContentInv, EndBenchmark, UNCHANGED files, at' \notin Booting
  PROVE  ContentInv'
  <1>1. PICK b \in bench : \E r \in LoadsOf(b.live) : Take(r, b.proj) /\ cps' = Points(r)
    BY DEF EndBenchmark
  <1>2. PICK r \in LoadsOf(b.live) : Take(r, b.proj) /\ cps' = Points(r) BY <1>1
  <1>3. b \in Befores BY ContentTypes DEF AtMostOne
  <1>4. b.live \in Content /\ b.proj \in Projects BY <1>3 DEF Befores
  <1>5. LoadResult(b.live, r) BY <1>4, LoadFacts DEF ContentInv
  <1>6. /\ live' = r.live /\ live' \in Content /\ proj' \in Projects
        /\ cps' \in Seq(Checkpoints) /\ Len(cps') <= KeptCheckpoints
        /\ Consistent(cps', live'.scene)
    BY <1>2, <1>4, <1>5, TakeFacts
  <1>7. bench' = {} /\ finished' \in BOOLEAN /\ ~sound' /\ files' = files BY DEF EndBenchmark
  <1>8. bench' \in AtMostOne(Befores) BY <1>7 DEF AtMostOne
  <1> QED BY <1>6, <1>7, <1>8, ContentTypes, ContentFrame

\* A checkpoint is loaded.
LEMMA RestoreKeeps ==
  ASSUME ContentInv, NEW i \in DOMAIN cps, NEW r \in LoadsOf(cps[i].live), Take(r, cps[i].proj),
         cps' = Points(r) \/ cps' = << >>, ~sound', UNCHANGED <<bench, finished, files>>,
         at' \notin Booting
  PROVE  ContentInv'
  <1>1. cps[i] \in Checkpoints BY ContentTypes
  <1>2. cps[i].live \in Content /\ cps[i].proj \in Projects BY <1>1 DEF Checkpoints
  <1>3. LoadResult(cps[i].live, r) BY <1>2, LoadFacts DEF ContentInv
  <1>4. /\ live' = r.live /\ live' \in Content /\ proj' \in Projects
        /\ Points(r) \in Seq(Checkpoints) /\ Len(Points(r)) <= KeptCheckpoints
        /\ Consistent(Points(r), live'.scene)
    BY <1>2, <1>3, TakeFacts
  <1>5. << >> \in Seq(Checkpoints) /\ Len(<< >>) = 0 /\ 0 <= KeptCheckpoints
    BY EmptySeq, ProjectAssumption
  <1>6. Consistent(<< >>, live'.scene) BY DEF Consistent
  <1>7. /\ cps' \in Seq(Checkpoints) /\ Len(cps') <= KeptCheckpoints
        /\ Consistent(cps', live'.scene)
    BY <1>4, <1>5, <1>6
  <1>8. bench' = bench /\ finished' = finished /\ files' = files OBVIOUS
  <1> QED BY <1>4, <1>7, <1>8, ContentTypes, ContentFrame
\* The scene, the project, the checkpoints and the files stay in order.
LEMMA ContentKept ==
  ASSUME TypesOK, ContentInv, [ProjectNext]_projectVars
  PROVE  ContentInv'
  <1>1. ASSUME Still PROVE ContentInv'
    <2>1. UNCHANGED <<live, proj, cps, bench, finished, files, sound>>
          /\ (at' \in Booting => at \in Booting)
      BY <1>1 DEF Still, content
    <2>2. at \in Booting => live = Imported(Preview) /\ proj = Unnamed /\ cps = << >>
      BY DEF ContentInv, BootInv
    <2> QED BY <2>1, <2>2, ContentTypes, ContentFrame
  <1>2. ASSUME NEW b \in BOOLEAN, NewScene(b) PROVE ContentInv'
    <2>1. at = "commands" /\ UNCHANGED files BY <1>2 DEF NewScene
    <2>2. CASE b
      <3>1. UNCHANGED <<live, proj, cps, bench, finished, sound, at>>
        BY <1>2, <2>2 DEF NewScene, content
      <3> QED BY <2>1, <3>1, ContentTypes, ContentFrame DEF Booting
    <2>3. CASE ~b
      <3>1. /\ live' = Imported(Preview) /\ proj' = Unnamed /\ cps' = Geometry(cps)
            /\ UNCHANGED <<bench, finished>> /\ at' \in {"snapshot", "commands"}
        BY <1>2, <2>1, <2>3 DEF NewScene
      <3>2. at' \notin Booting BY <3>1 DEF Booting
      <3> QED BY <2>1, <3>1, <3>2, ContentTypes, PreviewTypes, GeometryConsistent, ContentFrame
    <2> QED BY <2>2, <2>3
  <1>3. ASSUME NEW b \in BOOLEAN, NewSceneFails(b) PROVE ContentInv'
    <2>1. /\ live' = IF b THEN live ELSE Imported(Preview)
          /\ cps' = Geometry(cps) /\ sound' = (sound /\ b) /\ at' = "commands"
          /\ UNCHANGED <<proj, bench, finished, files>>
      BY <1>3 DEF NewSceneFails
    <2>2. at' \notin Booting BY <2>1 DEF Booting
    <2>3. live' \in Content BY <2>1, ContentTypes, PreviewTypes
    <2>4. sound' => sound /\ live' = live BY <2>1
    <2> QED BY <2>1, <2>2, <2>3, <2>4, ContentTypes, GeometryConsistent, ContentFrame
  <1>4. ASSUME NEW b \in BOOLEAN, StartBenchmark(b) PROVE ContentInv'
    <2>1. /\ bench' = (IF b THEN {} ELSE {Checkpoint}) /\ finished' = b /\ at' = "mcp"
          /\ UNCHANGED <<live, proj, cps, files, sound>>
      BY <1>4 DEF StartBenchmark, history
    <2>2. Checkpoint \in Befores BY ContentTypes DEF Checkpoint, Befores
    <2>3. bench' \in AtMostOne(Befores) BY <2>1, <2>2 DEF AtMostOne
    <2>4. at' \notin Booting BY <2>1 DEF Booting
    <2> QED BY <2>1, <2>3, <2>4, ContentTypes, ContentFrame
  <1>5. ASSUME NEW b \in BOOLEAN, Edit(b) PROVE ContentInv'
    <2>1. /\ live' = [live EXCEPT !.look = 1 - @] /\ proj' = [proj EXCEPT !.dirty = @ \/ b]
          /\ sound' = (sound /\ b) /\ at' \in {"commands", "mcp"}
          /\ UNCHANGED <<cps, bench, finished, files>>
      BY <1>5 DEF Edit
    <2>2. at' \notin Booting BY <2>1 DEF Booting
    <2>3. live' \in Content /\ live'.scene = live.scene
      BY <2>1, ContentTypes DEF Content, Looks
    <2>4. proj' \in Projects BY <2>1, ContentTypes DEF Projects
    <2>5. sound' => proj'.dirty BY <2>1, ContentTypes DEF Projects
    <2> QED BY <2>1, <2>2, <2>3, <2>4, <2>5, ContentTypes, ContentFrame
  <1>6. ASSUME NEW b \in BOOLEAN, PollCommit(b) PROVE ContentInv'
    <2>1. /\ live' = IF b THEN live ELSE Imported(load.scene)
          /\ proj' = [proj EXCEPT !.dirty = @ \/ ~b] /\ cps' = Geometry(cps)
          /\ at' = "pending" /\ UNCHANGED <<bench, finished, files, sound>>
      BY <1>6 DEF PollCommit, Poll, history
    <2>2. at' \notin Booting BY <2>1 DEF Booting
    <2>3. load.scene \in {NoScene} \union Scenes BY DEF TypesOK, LoadsOK, ScenesOrNone
    <2>4. Imported(load.scene) \in Content
      BY <2>3 DEF Imported, Content, Looks, NoScene, Preview
    <2>5. live' \in Content BY <2>1, <2>4, ContentTypes
    <2>6. proj' \in Projects /\ proj'.path = proj.path BY <2>1, ContentTypes DEF Projects
    <2>7. ~proj'.dirty => live' = live /\ ~proj.dirty BY <2>1, ContentTypes DEF Projects
    <2> QED BY <2>1, <2>2, <2>5, <2>6, <2>7, ContentTypes, GeometryConsistent, ContentFrame
  <1>7. ASSUME NEW b \in BOOLEAN, NEW p \in Paths, SaveProject(p, b) \/ ToolSavesProject(p, b)
        PROVE  ContentInv'
    <2>1. SaveTo(p, b) /\ at \in {"commands", "mcp"} BY <1>7 DEF SaveProject, ToolSavesProject
    <2>2. at' = at BY <2>1 DEF SaveTo
    <2>3. at' \notin Booting BY <2>1, <2>2 DEF Booting
    <2> QED BY <2>1, <2>3, SaveKeeps
  <1>8. ASSUME CreateCheckpoint PROVE ContentInv'
    <2> DEFINE point == [live |-> live, proj |-> proj, same |-> TRUE]
               new == Append(cps, point)
    <2>1. /\ cps' = IF Len(new) > KeptCheckpoints THEN Tail(new) ELSE new
          /\ at' = "mcp" /\ UNCHANGED <<live, proj, bench, finished, files, sound>>
      BY <1>8 DEF CreateCheckpoint, history
    <2>2. point \in Checkpoints BY ContentTypes DEF Checkpoints
    <2>3. point.live.scene = live.scene OBVIOUS
    <2> HIDE DEF point
    <2>4. /\ new \in Seq(Checkpoints) /\ new # << >> /\ Len(new) = Len(cps) + 1
          /\ \A i \in 1 .. Len(cps) : new[i] = cps[i]
          /\ new[Len(cps) + 1] = point
      BY <2>2, ContentTypes, AppendProperties
    <2>5. DOMAIN new = 1 .. Len(cps) + 1 BY <2>4, LenProperties
    <2> HIDE DEF new
    <2>6. Consistent(new, live.scene)
      <3> SUFFICES ASSUME NEW i \in DOMAIN new, new[i].same
                   PROVE  new[i].live.scene = live.scene
        BY DEF Consistent
      <3>1. CASE i = Len(cps) + 1 BY <3>1, <2>3, <2>4
      <3>2. CASE i # Len(cps) + 1
        <4>1. i \in 1 .. Len(cps) BY <3>2, <2>5, ContentTypes
        <4> QED BY <4>1, <2>4, ContentTypes DEF Consistent
      <3> QED BY <3>1, <3>2
    <2>7. /\ Tail(new) \in Seq(Checkpoints) /\ Len(Tail(new)) = Len(new) - 1
          /\ \A i \in 1 .. Len(Tail(new)) : Tail(new)[i] = new[i + 1]
      BY <2>4, HeadTailProperties
    <2>8. Consistent(Tail(new), live.scene)
      <3>1. DOMAIN Tail(new) = 1 .. Len(cps) BY <2>4, <2>7, LenProperties, ContentTypes
      <3>2. Len(Tail(new)) = Len(cps) BY <2>4, <2>7, ContentTypes
      <3>3. \A i \in DOMAIN Tail(new) : i + 1 \in DOMAIN new /\ Tail(new)[i] = new[i + 1]
        BY <3>1, <3>2, <2>5, <2>7, ContentTypes
      <3> QED BY <3>3, <2>6, PartConsistent
    <2>9. /\ cps' \in Seq(Checkpoints) /\ Consistent(cps', live.scene)
          /\ Len(cps') <= KeptCheckpoints
      <3>1. KeptCheckpoints \in Nat BY ProjectAssumption
      <3>2. CASE Len(new) > KeptCheckpoints
        BY <3>1, <3>2, <2>1, <2>4, <2>7, <2>8, ContentTypes
      <3>3. CASE ~(Len(new) > KeptCheckpoints)
        BY <3>1, <3>3, <2>1, <2>4, <2>6, ContentTypes
      <3> QED BY <3>2, <3>3
    <2>10. at' \notin Booting BY <2>1 DEF Booting
    <2> QED BY <2>1, <2>9, <2>10, ContentTypes, ContentFrame
  <1>9. ASSUME CancelBenchmark PROVE ContentInv'
    <2>1. EndBenchmark /\ at' = "loop" /\ UNCHANGED files BY <1>9 DEF CancelBenchmark
    <2>2. at' \notin Booting BY <2>1 DEF Booting
    <2> QED BY <2>1, <2>2, EndBenchmarkKeeps
  <1>10. ASSUME StopMcpServer PROVE ContentInv'
    <2>1. at' = "stopping" /\ UNCHANGED files BY <1>10 DEF StopMcpServer
    <2>2. at' \notin Booting BY <2>1 DEF Booting
    <2>3. CASE bench # {}
      <3>1. EndBenchmark BY <1>10, <2>3 DEF StopMcpServer
      <3> QED BY <2>1, <2>2, <3>1, EndBenchmarkKeeps
    <2>4. CASE bench = {}
      <3>1. UNCHANGED <<live, proj, cps, bench, finished, sound>>
        BY <1>10, <2>4 DEF StopMcpServer, content
      <3> QED BY <2>1, <2>2, <3>1, ContentTypes, ContentFrame
    <2> QED BY <2>3, <2>4
  <1>11. ASSUME TryRestore PROVE ContentInv'
    <2>1. PICK r \in UNION {LoadsOf(s.live) : s \in disk.pending} :
            /\ live' = IF r.ok THEN r.live ELSE Imported(Preview)
            /\ proj' = IF r.ok THEN session.project ELSE proj
            /\ at' = IF r.ok THEN "restored" ELSE "rejected"
            /\ sound' = ~r.ok
      BY <1>11 DEF TryRestore
    <2>2. PICK s \in disk.pending : r \in LoadsOf(s.live) BY <2>1
    <2>3. s \in Saves /\ session.project \in Projects
      <3>1. disk.pending \in AtMostOne(Saves) /\ session \in Sessions
        BY DEF TypesOK, DiskOK
      <3> QED BY <3>1 DEF AtMostOne, Sessions
    <2>4. s.live \in Content BY <2>3 DEF Saves
    <2>5. r.live \in Content
      <3>1. LoadResult(s.live, r) BY <2>2, <2>4, LoadFacts DEF ContentInv
      <3> QED BY <3>1 DEF LoadResult, Results
    <2>6. /\ at = "trying" /\ UNCHANGED <<cps, bench, finished, files>>
      BY <1>11 DEF TryRestore
    <2>7. proj = Unnamed /\ cps = << >> BY <2>6 DEF ContentInv, BootInv, Booting
    <2>8. at' \notin Booting BY <2>1 DEF Booting
    <2>9. live' \in Content /\ proj' \in Projects
      BY <2>1, <2>3, <2>5, ContentTypes, PreviewTypes
    <2>10. Consistent(cps', live'.scene) BY <2>6, <2>7 DEF Consistent
    <2>11. sound' => proj'.path = NoPath BY <2>1, <2>7, PreviewTypes
    <2> QED BY <2>6, <2>8, <2>9, <2>10, <2>11, ContentTypes, ContentFrame
  <1>12. ASSUME PendingProject PROVE ContentInv'
    <2>1. OpenProject(asked.project) /\ at' = "pending" /\ UNCHANGED files
          /\ asked.project # NoPath
      BY <1>12 DEF PendingProject
    <2>2. asked.project \in Paths BY <2>1 DEF TypesOK, LoadsOK, PathsOrNone
    <2>3. at' \notin Booting BY <2>1 DEF Booting
    <2> QED BY <2>1, <2>2, <2>3, OpenKeeps
  <1>13. ASSUME BenchmarkFinishes PROVE ContentInv'
    <2>1. /\ finished' = TRUE /\ at' = "mcp" /\ UNCHANGED <<live, proj, cps, bench, files, sound>>
      BY <1>13 DEF BenchmarkFinishes, history
    <2>2. at' \notin Booting BY <2>1 DEF Booting
    <2> QED BY <2>1, <2>2, ContentTypes, ContentFrame
  <1>14. ASSUME StopRestores PROVE ContentInv'
    <2>1. /\ at' = "commands" /\ cps' = << >> /\ UNCHANGED <<bench, finished, files>>
      BY <1>14 DEF StopRestores
    <2>2. at' \notin Booting BY <2>1 DEF Booting
    <2>3. CASE cps # << >> /\ cps[Len(cps)].same
      <3>1. PICK r \in LoadsOf(cps[Len(cps)].live) : Take(r, cps[Len(cps)].proj)
        BY <1>14, <2>3 DEF StopRestores
      <3>2. ~sound' BY <1>14, <2>3 DEF StopRestores
      <3>3. Len(cps) \in DOMAIN cps BY <2>3, ContentTypes, EmptySeq
      <3> QED BY <2>1, <2>2, <3>1, <3>2, <3>3, RestoreKeeps
    <2>4. CASE ~(cps # << >> /\ cps[Len(cps)].same)
      <3>1. UNCHANGED <<live, proj, sound>> BY <1>14, <2>4 DEF StopRestores
      <3>2. << >> \in Seq(Checkpoints) /\ Len(<< >>) = 0 /\ 0 <= KeptCheckpoints
        BY EmptySeq, ProjectAssumption
      <3>3. Consistent(<< >>, live'.scene) BY DEF Consistent
      <3> QED BY <2>1, <2>2, <3>1, <3>2, <3>3, ContentTypes, ContentFrame
    <2> QED BY <2>3, <2>4
  <1>15. ASSUME NEW n \in Scenes, ToolSetsScene(n) PROVE ContentInv'
    <2>1. /\ live' = Imported(n) /\ proj' = [proj EXCEPT !.dirty = TRUE] /\ cps' = Geometry(cps)
          /\ at' = "mcp" /\ UNCHANGED <<bench, finished, files>>
      BY <1>15 DEF ToolSetsScene
    <2>2. at' \notin Booting BY <2>1 DEF Booting
    <2>3. proj' \in Projects /\ proj'.dirty BY <2>1, ContentTypes DEF Projects
    <2> QED BY <2>1, <2>2, <2>3, ContentTypes, PreviewTypes, GeometryConsistent, ContentFrame
  <1>16. ASSUME NEW p \in Paths, ToolLoadsProject(p) PROVE ContentInv'
    <2>1. OpenProject(p) /\ at' = "mcp" /\ UNCHANGED files BY <1>16 DEF ToolLoadsProject
    <2>2. at' \notin Booting BY <2>1 DEF Booting
    <2> QED BY <2>1, <2>2, OpenKeeps
  <1>17. ASSUME NEW i \in DOMAIN cps, DeleteCheckpoint(i) PROVE ContentInv'
    <2>1. /\ cps' = RemoveAt(cps, i) /\ at' = "mcp"
          /\ UNCHANGED <<live, proj, bench, finished, files, sound>>
      BY <1>17 DEF DeleteCheckpoint, history
    <2>2. at' \notin Booting BY <2>1 DEF Booting
    <2>3. /\ RemoveAt(cps, i) \in Seq(Checkpoints) /\ Len(RemoveAt(cps, i)) <= Len(cps)
          /\ \A j \in DOMAIN RemoveAt(cps, i) : \E k \in DOMAIN cps : RemoveAt(cps, i)[j] = cps[k]
      <3>1. cps \in Seq(Checkpoints) /\ i \in DOMAIN cps BY ContentTypes
      <3> QED BY <3>1, RemoveFacts
    <2>4. Consistent(RemoveAt(cps, i), live.scene) BY <2>3, ContentTypes, PartConsistent
    <2>5. Len(RemoveAt(cps, i)) <= KeptCheckpoints
      <3>1. Len(RemoveAt(cps, i)) \in Nat BY <2>3, LenProperties
      <3> QED BY <3>1, <2>3, ContentTypes, ProjectAssumption
    <2> QED BY <2>1, <2>2, <2>3, <2>4, <2>5, ContentTypes, ContentFrame
  <1>18. ASSUME NEW i \in DOMAIN cps, RestoreCheckpoint(i) PROVE ContentInv'
    <2>1. PICK r \in LoadsOf(cps[i].live) : Take(r, cps[i].proj) /\ cps' = Points(r)
      BY <1>18 DEF RestoreCheckpoint
    <2>2. ~sound' /\ at' = "mcp" /\ UNCHANGED <<bench, finished, files>>
      BY <1>18 DEF RestoreCheckpoint
    <2>3. at' \notin Booting BY <2>2 DEF Booting
    <2> QED BY <2>1, <2>2, <2>3, RestoreKeeps
  <1>19. ASSUME Gone PROVE ContentInv'
    <2>1. /\ live' = Imported(Preview) /\ proj' = Unnamed /\ cps' = << >> /\ bench' = {}
          /\ finished' = FALSE /\ files' = files
      BY <1>19 DEF Gone
    <2>2. << >> \in Seq(Checkpoints) /\ Len(<< >>) = 0 /\ 0 <= KeptCheckpoints
      BY EmptySeq, ProjectAssumption
    <2>3. Consistent(<< >>, live'.scene) /\ {} \in AtMostOne(Befores)
      BY DEF Consistent, AtMostOne
    <2> QED BY <2>1, <2>2, <2>3, ContentTypes, PreviewTypes, ContentFrame
  <1>20. ASSUME ContentStep PROVE ContentInv'
    <2>1. CASE \E b \in BOOLEAN :
                 \/ NewScene(b) \/ NewSceneFails(b) \/ StartBenchmark(b) \/ Edit(b)
                 \/ PollCommit(b)
                 \/ \E p \in Paths : SaveProject(p, b) \/ ToolSavesProject(p, b)
      BY <2>1, <1>2, <1>3, <1>4, <1>5, <1>6, <1>7
    <2>2. CASE \/ CreateCheckpoint \/ CancelBenchmark \/ StopMcpServer \/ TryRestore
               \/ PendingProject \/ BenchmarkFinishes \/ StopRestores \/ Gone
      BY <2>2, <1>8, <1>9, <1>10, <1>11, <1>12, <1>13, <1>14, <1>19
    <2>3. CASE \/ \E n \in Scenes : ToolSetsScene(n)
               \/ \E p \in Paths : ToolLoadsProject(p)
               \/ \E i \in DOMAIN cps : DeleteCheckpoint(i) \/ RestoreCheckpoint(i)
      BY <2>3, <1>15, <1>16, <1>17, <1>18
    <2> QED BY <1>20, <2>1, <2>2, <2>3 DEF ContentStep
  <1> QED BY <1>1, <1>20, ContentSteps
-----------------------------------------------------------------------------
(* The session.                                                            *)

DiskRecords == [snapshot : AtMostOne(Saves), pending : AtMostOne(Saves), settings : Sessions]

LEMMA SessionTypes ==
  ASSUME TypesOK
  PROVE  /\ session \in Sessions /\ session.project \in Projects /\ session.restore \in BOOLEAN
         /\ disk \in DiskRecords /\ disk.settings \in Sessions
         /\ disk.snapshot \in AtMostOne(Saves) /\ disk.pending \in AtMostOne(Saves)
         /\ SessionOff \in Sessions
         /\ {} \in AtMostOne(Saves)
  <1>1. session \in Sessions /\ disk \in DiskRecords BY DEF TypesOK, DiskOK, DiskRecords
  <1>2. session.project \in Projects /\ session.restore \in BOOLEAN BY <1>1 DEF Sessions
  <1>3. /\ disk.settings \in Sessions /\ disk.snapshot \in AtMostOne(Saves)
        /\ disk.pending \in AtMostOne(Saves)
    BY <1>1 DEF DiskRecords
  <1>4. SessionOff \in Sessions BY PreviewTypes DEF SessionOff, Sessions
  <1>5. {} \in AtMostOne(Saves) BY DEF AtMostOne
  <1> QED BY <1>1, <1>2, <1>3, <1>4, <1>5

\* A save whose count of tries or whose mark changes.
LEMMA MarkedSaves ==
  ASSUME NEW S \in AtMostOne(Saves), NEW T,
         \/ T = {[s EXCEPT !.tries = @ + 1] : s \in S}
         \/ T = {[s EXCEPT !.tries = 0] : s \in S}
         \/ T = {[s EXCEPT !.whole = s.whole \/ exit = "saved"] : s \in S}
  PROVE  T \in AtMostOne(Saves)
  <1>1. \A s \in S : s \in Saves BY DEF AtMostOne
  <1>2. \A s \in S : s.tries \in Nat /\ s.whole \in BOOLEAN BY <1>1 DEF Saves
  <1>3. \A s \in S : (s.whole \/ exit = "saved") \in BOOLEAN OBVIOUS
  <1>4. \A s \in S : [s EXCEPT !.tries = @ + 1] \in Saves BY <1>1, <1>2 DEF Saves
  <1>5. \A s \in S : [s EXCEPT !.tries = 0] \in Saves BY <1>1 DEF Saves
  <1>6. \A s \in S : [s EXCEPT !.whole = s.whole \/ exit = "saved"] \in Saves
    BY <1>1, <1>3 DEF Saves
  <1>7. \A s, t \in S : s = t BY DEF AtMostOne
  <1>8. CASE T = {[s EXCEPT !.tries = @ + 1] : s \in S}
    BY <1>4, <1>7, <1>8 DEF AtMostOne
  <1>9. CASE T = {[s EXCEPT !.tries = 0] : s \in S}
    BY <1>5, <1>7, <1>9 DEF AtMostOne
  <1>10. CASE T = {[s EXCEPT !.whole = s.whole \/ exit = "saved"] : s \in S}
    BY <1>6, <1>7, <1>10 DEF AtMostOne
  <1> QED BY <1>8, <1>9, <1>10

SessionKeep == session' \in Sessions /\ disk' \in DiskRecords /\ SessionInv'

LEMMA LaunchKeeps ==
  ASSUME TypesOK, SessionInv, NEW b \in BOOLEAN, Launch(b) PROVE SessionKeep
  <1>1. /\ session' = disk.settings /\ disk' = disk /\ exit' = exit
        /\ at' \in {"isolating", "loop"}
    BY DEF Launch, history
  <1>2. SessionInv' BY <1>1 DEF SessionInv, Trying
  <1> QED BY <1>1, <1>2, SessionTypes DEF SessionKeep

LEMMA IsolateKeeps ==
  ASSUME TypesOK, SessionInv, NEW b \in BOOLEAN, IsolatePending(b) PROVE SessionKeep
  <1>1. /\ at = "isolating" /\ at' = "choosing" /\ session' = session /\ exit' = exit
        /\ disk' = [disk EXCEPT !.pending = IF b THEN @ ELSE {}]
    BY DEF IsolatePending, history
  <1>2. /\ disk' \in DiskRecords /\ disk'.snapshot = disk.snapshot
        /\ disk'.settings = disk.settings /\ disk'.pending \subseteq disk.pending
    BY <1>1, SessionTypes DEF DiskRecords
  <1>3. SessionInv' BY <1>1, <1>2 DEF SessionInv, Trying
  <1> QED BY <1>1, <1>2, <1>3, SessionTypes DEF SessionKeep

LEMMA PrepareKeeps ==
  ASSUME TypesOK, SessionInv, NEW b \in BOOLEAN, PrepareRestore(b) PROVE SessionKeep
  <1>1. at = "choosing" /\ session' = session /\ exit' = exit
    BY DEF PrepareRestore, history
  <1>2. CASE disk.snapshot = {} \/ b
    <2>1. at' = "loop" /\ disk' = disk BY <1>2 DEF PrepareRestore
    <2>2. SessionInv' BY <1>1, <2>1 DEF SessionInv, Trying
    <2> QED BY <1>1, <2>1, <2>2, SessionTypes DEF SessionKeep
  <1>3. CASE ~(disk.snapshot = {} \/ b)
    <2> DEFINE tried == {[s EXCEPT !.tries = @ + 1] : s \in disk.snapshot}
    <2>1. at' = "trying" /\ disk' = [disk EXCEPT !.pending = tried, !.snapshot = {}]
      BY <1>3 DEF PrepareRestore, Tried
    <2>2. tried \in AtMostOne(Saves) BY SessionTypes, MarkedSaves
    <2>3. \A s \in disk.snapshot : s \in Saves /\ s.tries = 0 /\ (s.whole => s.proj = session.project)
      BY <1>1, SessionTypes DEF SessionInv, AtMostOne
    <2>4. \A x \in tried : x.tries <= 1 /\ (x.whole => x.proj = session.project)
      BY <2>3 DEF Saves
    <2> HIDE DEF tried
    <2>5. /\ disk' \in DiskRecords /\ disk'.pending = tried /\ disk'.snapshot = {}
          /\ disk'.settings = disk.settings
      BY <2>1, <2>2, SessionTypes DEF DiskRecords
    <2>6. session = disk.settings /\ exit # "isolated" BY <1>1, <1>3 DEF SessionInv
    <2>7. SessionInv' BY <1>1, <2>1, <2>4, <2>5, <2>6 DEF SessionInv, Trying
    <2> QED BY <1>1, <2>5, <2>7, SessionTypes DEF SessionKeep
  <1> QED BY <1>2, <1>3

\* What is restored is what was saved: nothing but the preview scene was there.
LEMMA TryKeeps ==
  ASSUME TypesOK, ContentInv, SessionInv, TryRestore PROVE SessionKeep
  <1>1. /\ at = "trying" /\ session' = session /\ disk' = disk /\ exit' = exit
    BY DEF TryRestore
  <1>2. PICK r \in UNION {LoadsOf(s.live) : s \in disk.pending} :
          /\ live' = IF r.ok THEN r.live ELSE Imported(Preview)
          /\ proj' = IF r.ok THEN session.project ELSE proj
          /\ at' = IF r.ok THEN "restored" ELSE "rejected"
    BY DEF TryRestore
  <1>3. PICK s \in disk.pending : r \in LoadsOf(s.live) BY <1>2
  <1>4. s \in Saves /\ disk.pending = {s} BY SessionTypes DEF AtMostOne
  <1>5. s.live \in Content BY <1>4 DEF Saves
  <1>6. LoadResult(s.live, r) BY <1>3, <1>5, LoadFacts DEF ContentInv
  <1>7. CASE r.ok
    <2>1. live' = Opened(s.live) /\ proj' = session.project /\ at' = "restored"
      BY <1>2, <1>6, <1>7 DEF LoadResult
    <2>2. live.scene = Preview
      BY <1>1 DEF ContentInv, BootInv, Booting, Imported
    <2>3. Opened(s.live) = s.live
      <3>1. Opened(s.live) = [s.live EXCEPT !.scene = s.live.scene] BY <2>2 DEF Opened
      <3> QED BY <3>1, <1>5 DEF Content
    <2>4. \A t \in disk.pending : live' = t.live /\ proj' = session.project
      BY <1>4, <2>1, <2>3
    <2>5. SessionInv' BY <1>1, <2>1, <2>4 DEF SessionInv, Trying
    <2> QED BY <1>1, <2>5, SessionTypes DEF SessionKeep
  <1>8. CASE ~r.ok
    <2>1. at' = "rejected" BY <1>2, <1>8
    <2>2. SessionInv' BY <1>1, <2>1 DEF SessionInv, Trying
    <2> QED BY <1>1, <2>2, SessionTypes DEF SessionKeep
  <1> QED BY <1>7, <1>8

LEMMA EndRestoreKeeps ==
  ASSUME TypesOK, SessionInv, NEW b \in BOOLEAN, EndRestore(b) PROVE SessionKeep
  <1>1. /\ at \in {"restored", "rejected"} /\ at' = "loop" /\ session' = session /\ exit' = exit
    BY DEF EndRestore, history
  <1>2. CASE b
    <2>1. disk' = disk BY <1>2 DEF EndRestore
    <2>2. SessionInv' BY <1>1, <2>1 DEF SessionInv, Trying
    <2> QED BY <1>1, <2>1, <2>2, SessionTypes DEF SessionKeep
  <1>3. CASE ~b /\ at = "rejected"
    <2>1. disk' = [disk EXCEPT !.pending = {}] BY <1>3 DEF EndRestore
    <2>2. /\ disk' \in DiskRecords /\ disk'.pending = {} /\ disk'.snapshot = disk.snapshot
          /\ disk'.settings = disk.settings
      BY <2>1, SessionTypes DEF DiskRecords
    <2>3. SessionInv' BY <1>1, <2>2 DEF SessionInv, Trying
    <2> QED BY <1>1, <2>2, <2>3, SessionTypes DEF SessionKeep
  <1>4. CASE ~b /\ at = "restored"
    <2> DEFINE named == {[s EXCEPT !.tries = 0] : s \in disk.pending}
    <2>1. disk' = [disk EXCEPT !.pending = {}, !.snapshot = named] BY <1>4 DEF EndRestore
    <2>2. named \in AtMostOne(Saves) BY SessionTypes, MarkedSaves
    <2>3. \A s \in disk.pending : s \in Saves /\ (s.whole => s.proj = session.project)
      BY <1>4, SessionTypes DEF SessionInv, AtMostOne, Trying
    <2>4. \A x \in named : x.tries = 0 /\ (x.whole => x.proj = session.project)
      BY <2>3 DEF Saves
    <2> HIDE DEF named
    <2>5. /\ disk' \in DiskRecords /\ disk'.pending = {} /\ disk'.snapshot = named
          /\ disk'.settings = disk.settings
      BY <2>1, <2>2, SessionTypes DEF DiskRecords
    <2>6. session = disk.settings /\ exit # "isolated" BY <1>4 DEF SessionInv, Trying
    <2>7. SessionInv' BY <1>1, <2>4, <2>5, <2>6 DEF SessionInv, Trying
    <2> QED BY <1>1, <2>5, <2>7, SessionTypes DEF SessionKeep
  <1> QED BY <1>1, <1>2, <1>3, <1>4

\* The end of the process leaves the disk to the next launch.
LEMMA GoneKeeps ==
  ASSUME TypesOK, SessionInv, Gone, disk' \in DiskRecords,
         disk'.settings = disk.settings \/ disk'.settings = session,
         \A s \in disk'.snapshot : s.tries = 0 /\ (s.whole => s.proj = disk'.settings.project),
         disk'.pending = disk.pending,
         exit' = "isolated" => disk'.snapshot = {}
  PROVE  SessionKeep
  <1>1. at' = "off" /\ session' = SessionOff BY DEF Gone
  <1>2. SessionInv' BY <1>1 DEF SessionInv, Trying
  <1> QED BY <1>1, <1>2, SessionTypes DEF SessionKeep

LEMMA SnapshotFails ==
  ASSUME TypesOK, SessionInv, NEW b \in BOOLEAN, SaveSnapshot(TRUE, b) PROVE SessionKeep
  <1>1. /\ at = "snapshot" /\ exit' = IF b THEN "stuck" ELSE "isolated"
        /\ disk' = [disk EXCEPT !.snapshot = IF b THEN @ ELSE {}]
    BY DEF SaveSnapshot, Isolated
  <1>2. /\ disk' \in DiskRecords /\ disk'.snapshot = IF b THEN disk.snapshot ELSE {}
        /\ disk'.pending = disk.pending /\ disk'.settings = disk.settings
    BY <1>1, SessionTypes DEF DiskRecords
  <1>3. \A s \in disk'.snapshot :
          s.tries = 0 /\ (s.whole => s.proj = disk.settings.project /\ s.proj = session.project)
    BY <1>1, <1>2 DEF SessionInv
  <1>4. exit' = "isolated" => disk'.snapshot = {} BY <1>1, <1>2
  <1>5. CASE Gone BY <1>2, <1>3, <1>4, <1>5, GoneKeeps
  <1>6. CASE ~Gone
    <2>1. at' \in {"commands", "settings"} /\ session' = session
      BY <1>6 DEF SaveSnapshot
    <2>2. exit' # "saved" BY <1>1
    <2>3. SessionInv' BY <1>2, <1>3, <1>4, <2>1, <2>2 DEF SessionInv, Trying
    <2> QED BY <1>2, <2>1, <2>3, SessionTypes DEF SessionKeep
  <1> QED BY <1>5, <1>6

LEMMA SnapshotIsSaved ==
  ASSUME TypesOK, ContentInv, SessionInv, SaveSnapshot(FALSE, FALSE) PROVE SessionKeep
  <1>1. /\ at = "snapshot" /\ exit' = "saved" /\ at' = "settings"
        /\ disk' = [disk EXCEPT !.snapshot = {Snapshot}]
        /\ session' = [session EXCEPT !.project = proj]
    BY DEF SaveSnapshot
  <1>2. /\ Snapshot \in Saves /\ Snapshot.tries = 0 /\ ~Snapshot.whole /\ Snapshot.proj = proj
    BY ContentTypes DEF Snapshot, Saves
  <1>3. {Snapshot} \in AtMostOne(Saves) BY <1>2 DEF AtMostOne
  <1>4. /\ disk' \in DiskRecords /\ disk'.snapshot = {Snapshot}
        /\ disk'.pending = disk.pending /\ disk'.settings = disk.settings
    BY <1>1, <1>3, SessionTypes DEF DiskRecords
  <1>5. session' \in Sessions /\ session'.project = proj
    BY <1>1, SessionTypes, ContentTypes DEF Sessions
  <1>6. SessionInv' BY <1>1, <1>2, <1>4, <1>5 DEF SessionInv, Trying
  <1> QED BY <1>4, <1>5, <1>6 DEF SessionKeep

LEMMA SettingsKeep ==
  ASSUME TypesOK, SessionInv, NEW b \in BOOLEAN, SaveSettings(b) PROVE SessionKeep
  <1> DEFINE marked == {[s EXCEPT !.whole = s.whole \/ exit = "saved"] : s \in disk.snapshot}
  <1>1. at = "settings" /\ exit' = exit BY DEF SaveSettings
  <1>2. \A s \in disk.snapshot :
          /\ s \in Saves /\ s.tries = 0
          /\ s.whole => s.proj = disk.settings.project /\ s.proj = session.project
          /\ exit = "saved" => s.proj = session.project
    BY <1>1, SessionTypes DEF SessionInv, AtMostOne
  <1>3. \A x \in marked : x.tries = 0 /\ (x.whole => x.proj = session.project)
    <2>1. ASSUME NEW s \in disk.snapshot, NEW x, x = [s EXCEPT !.whole = s.whole \/ exit = "saved"]
          PROVE  x.tries = 0 /\ (x.whole => x.proj = session.project)
      <3>1. s \in Saves BY <1>2
      <3>2. x.tries = s.tries /\ x.proj = s.proj /\ x.whole = (s.whole \/ exit = "saved")
        BY <2>1, <3>1 DEF Saves
      <3>3. x.whole => s.whole \/ exit = "saved" BY <3>2
      <3> QED BY <3>2, <3>3, <1>2
    <2> QED BY <2>1
  <1>4. marked \in AtMostOne(Saves) BY SessionTypes, MarkedSaves
  <1>5. disk' = IF b THEN disk ELSE [disk EXCEPT !.settings = session, !.snapshot = marked]
    BY DEF SaveSettings, Settled
  <1> HIDE DEF marked
  <1>6. /\ disk' \in DiskRecords /\ disk'.pending = disk.pending
        /\ disk'.settings = disk.settings \/ disk'.settings = session
        /\ \A s \in disk'.snapshot :
             s.tries = 0 /\ (s.whole => s.proj = disk'.settings.project /\ s.proj = session.project)
        /\ disk.snapshot = {} => disk'.snapshot = {}
    <2>1. CASE b BY <2>1, <1>2, <1>5, SessionTypes
    <2>2. CASE ~b
      <3>1. /\ disk' \in DiskRecords /\ disk'.pending = disk.pending
            /\ disk'.settings = session /\ disk'.snapshot = marked
        BY <2>2, <1>4, <1>5, SessionTypes DEF DiskRecords
      <3>2. disk.snapshot = {} => marked = {} BY DEF marked
      <3> QED BY <3>1, <3>2, <1>3
    <2> QED BY <2>1, <2>2
  <1>7. exit' = "isolated" => disk'.snapshot = {} BY <1>1, <1>6 DEF SessionInv
  <1>8. CASE Gone BY <1>6, <1>7, <1>8, GoneKeeps
  <1>9. CASE ~Gone
    <2>1. at' = "commands" /\ session' = session BY <1>9 DEF SaveSettings
    <2>2. SessionInv' BY <1>6, <1>7, <2>1 DEF SessionInv, Trying
    <2> QED BY <1>6, <2>1, <2>2, SessionTypes DEF SessionKeep
  <1> QED BY <1>8, <1>9

LEMMA OnExitKeeps ==
  ASSUME TypesOK, SessionInv, SaveSessionOnExit PROVE SessionKeep
  <1>1. at = "exiting" /\ disk' = disk BY DEF SaveSessionOnExit
  <1>2. \A s \in disk'.snapshot : s.tries = 0 /\ (s.whole => s.proj = disk'.settings.project)
    BY <1>1 DEF SessionInv
  <1>3. CASE session.restore /\ bench = {}
    <2>1. at' = "snapshot" /\ session' = session /\ exit' = exit
      BY <1>3 DEF SaveSessionOnExit, history
    <2>2. SessionInv' BY <1>1, <2>1 DEF SessionInv, Trying
    <2> QED BY <1>1, <2>1, <2>2, SessionTypes DEF SessionKeep
  <1>4. CASE ~(session.restore /\ bench = {})
    <2>1. Gone /\ exit' # "isolated" BY <1>4 DEF SaveSessionOnExit
    <2> QED BY <1>1, <1>2, <2>1, SessionTypes, GoneKeeps
  <1> QED BY <1>3, <1>4

LEMMA CommandsKeep ==
  ASSUME TypesOK, SessionInv, NEW b \in BOOLEAN, EnableRestore \/ DisableRestore(b) \/ NewScene(b)
  PROVE  SessionKeep
  <1>1. at = "commands" BY DEF EnableRestore, DisableRestore, NewScene
  <1>2. CASE EnableRestore
    <2>1. /\ at' = "snapshot" /\ disk' = disk /\ exit' = exit
          /\ session' = [session EXCEPT !.restore = TRUE]
      BY <1>2 DEF EnableRestore, history
    <2>2. session' \in Sessions /\ session'.project = session.project
      BY <2>1, SessionTypes DEF Sessions
    <2>3. SessionInv' BY <1>1, <2>1, <2>2 DEF SessionInv, Trying
    <2> QED BY <2>1, <2>2, <2>3, SessionTypes DEF SessionKeep
  <1>3. NoSnapshot(disk) \in DiskRecords /\ NoSnapshot(disk).snapshot = {}
        /\ NoSnapshot(disk).pending = {}
    BY SessionTypes DEF NoSnapshot, DiskRecords
  <1>4. CASE DisableRestore(b)
    <2>1. /\ at' = "commands" /\ exit' = "none" /\ session' = SessionOff
          /\ disk' = [NoSnapshot(disk) EXCEPT !.settings = IF b THEN @ ELSE SessionOff]
      BY <1>4 DEF DisableRestore
    <2>2. disk' \in DiskRecords /\ disk'.snapshot = {} /\ disk'.pending = {}
      BY <2>1, <1>3, SessionTypes DEF DiskRecords
    <2>3. SessionInv' BY <2>1, <2>2 DEF SessionInv, Trying
    <2> QED BY <2>1, <2>2, <2>3, SessionTypes DEF SessionKeep
  <1>5. CASE NewScene(b)
    <2>1. /\ at' \in {"commands", "snapshot"} /\ exit' = exit /\ session' = session
          /\ disk' = disk \/ disk' = NoSnapshot(disk)
      BY <1>1, <1>5 DEF NewScene
    <2>2. disk' \in DiskRecords BY <2>1, <1>3, SessionTypes
    <2>3. CASE disk' = disk
      <3>1. SessionInv' BY <1>1, <2>1, <2>3 DEF SessionInv, Trying
      <3> QED BY <2>1, <2>2, <3>1, SessionTypes DEF SessionKeep
    <2>4. CASE disk' = NoSnapshot(disk)
      <3>1. disk'.snapshot = {} /\ disk'.pending = {} BY <2>4, <1>3
      <3>2. SessionInv' BY <2>1, <3>1 DEF SessionInv, Trying
      <3> QED BY <2>1, <2>2, <3>2, SessionTypes DEF SessionKeep
    <2> QED BY <2>1, <2>3, <2>4
  <1> QED BY <1>2, <1>4, <1>5

LEMMA SessionKept ==
  ASSUME TypesOK, ContentInv, SessionInv, [ProjectNext]_projectVars
  PROVE  SessionKeep
  <1>1. CASE Away
    <2>1. session' = session /\ disk' = disk /\ exit' = exit BY <1>1 DEF Away
    <2>2. SessionInv'
      <3>1. CASE {at, at'} \subseteq Running BY <2>1, <3>1 DEF SessionInv, Running, Trying
      <3>2. CASE UNCHANGED <<at, live, proj>> BY <2>1, <3>2 DEF SessionInv, Trying
      <3> QED BY <1>1, <3>1, <3>2 DEF Away
    <2> QED BY <2>1, <2>2, SessionTypes DEF SessionKeep
  <1>2. CASE Crash
    <2>1. Gone /\ disk' = disk /\ exit' = exit BY <1>2 DEF Crash
    <2>2. \A s \in disk'.snapshot : s.tries = 0 /\ (s.whole => s.proj = disk'.settings.project)
      BY <2>1 DEF SessionInv
    <2>3. exit' = "isolated" => disk'.snapshot = {} BY <2>1 DEF SessionInv
    <2> QED BY <2>1, <2>2, <2>3, SessionTypes, GoneKeeps
  <1>3. CASE EnableRestore
    <2>1. TRUE \in BOOLEAN OBVIOUS
    <2> QED BY <2>1, <1>3, CommandsKeep
  <1>4. CASE SessionStep
    BY <1>2, <1>3, <1>4, LaunchKeeps, IsolateKeeps, PrepareKeeps, TryKeeps, EndRestoreKeeps,
       SnapshotFails, SnapshotIsSaved, SettingsKeep, OnExitKeeps, CommandsKeep DEF SessionStep
  <1> QED BY <1>1, <1>4, SessionSteps
-----------------------------------------------------------------------------
(* Where the render thread is, and what may still go wrong.                *)

Budgets == [launches : Nat, faults : Nat, crashes : Nat]
Placed == /\ at' \in Places /\ back' \in {"off", "enable", "new"}
          /\ exit' \in {"none", "saved", "isolated", "stuck", "skipped"}

\* What is left of the faults is a number: an operation fails only while some are.
LEMMA FaultyFacts ==
  ASSUME BudgetOK, NEW f \in BOOLEAN, f => MayFail
  PROVE  Faulty(f) \in Budgets /\ (f => Faulty(f) # budget)
  <1>1. budget \in Budgets /\ budget.faults \in Nat BY DEF BudgetOK, Budgets
  <1>2. CASE f
    <2>1. Faulty(f) = [budget EXCEPT !.faults = @ - 1] BY <1>2 DEF Faulty
    <2>2. budget.faults - 1 \in Nat /\ budget.faults - 1 # budget.faults
      BY <1>1, <1>2 DEF MayFail
    <2>3. Faulty(f).faults = budget.faults - 1 BY <1>1, <2>1 DEF Budgets
    <2> QED BY <1>1, <2>1, <2>2, <2>3 DEF Budgets
  <1>3. CASE ~f
    <2>1. Faulty(f) = [budget EXCEPT !.faults = @] BY <1>3 DEF Faulty
    <2> QED BY <1>1, <1>3, <2>1 DEF Budgets
  <1> QED BY <1>2, <1>3

LEMMA TakeSpends ==
  ASSUME BudgetOK, NEW c, NEW r, LoadResult(c, r), NEW p, Take(r, p)
  PROVE  budget' \in Budgets /\ (budget' = budget => r.ok /\ live' = Opened(c) /\ proj' = p)
  <1>1. r.fault \in BOOLEAN /\ r.ok \in BOOLEAN /\ (r.fault => MayFail) /\ (~r.ok => r.fault)
        /\ (r.ok => r.live = Opened(c))
    BY DEF LoadResult, Results
  <1>2. budget' = Faulty(r.fault) /\ live' = r.live /\ (r.ok => proj' = p) BY DEF Take
  <1> QED BY <1>1, <1>2, FaultyFacts

\* A load of a project file, a benchmark's or a checkpoint spends no fault it has not.
LEMMA LoadsSpend ==
  ASSUME BudgetOK, ContentInv
  PROVE  /\ \A p \in Paths : OpenProject(p) => budget' \in Budgets
         /\ EndBenchmark => budget' \in Budgets
         /\ \A i \in DOMAIN cps : \A r \in LoadsOf(cps[i].live) :
              Take(r, cps[i].proj) => budget' \in Budgets
  <1>1. ASSUME NEW p \in Paths, OpenProject(p) PROVE budget' \in Budgets
    <2>1. PICK r \in LoadsFrom(files[p]) : Take(r, [path |-> p, dirty |-> FALSE])
      BY <1>1 DEF OpenProject
    <2>2. files[p] \in AtMostOne(Content) BY ContentTypes
    <2>3. CASE r = Unread
      <3>1. budget' = Faulty(FALSE) BY <2>1, <2>3 DEF Take, Unread
      <3> QED BY <3>1, FaultyFacts
    <2>4. ASSUME NEW c \in files[p], LoadResult(c, r) PROVE budget' \in Budgets
      BY <2>1, <2>4, TakeSpends
    <2> QED BY <2>2, <2>3, <2>4, FileFacts DEF ContentInv
  <1>2. ASSUME EndBenchmark PROVE budget' \in Budgets
    <2>1. PICK b \in bench : \E r \in LoadsOf(b.live) : Take(r, b.proj)
      BY <1>2 DEF EndBenchmark
    <2>2. PICK r \in LoadsOf(b.live) : Take(r, b.proj) BY <2>1
    <2>3. b \in Befores BY ContentTypes DEF AtMostOne
    <2>4. b.live \in Content BY <2>3 DEF Befores
    <2>5. LoadResult(b.live, r) BY <2>2, <2>4, LoadFacts DEF ContentInv
    <2> QED BY <2>2, <2>5, TakeSpends
  <1>3. ASSUME NEW i \in DOMAIN cps, NEW r \in LoadsOf(cps[i].live), Take(r, cps[i].proj)
        PROVE  budget' \in Budgets
    <2>1. cps[i] \in Checkpoints BY ContentTypes
    <2>2. cps[i].live \in Content BY <2>1 DEF Checkpoints
    <2>3. LoadResult(cps[i].live, r) BY <2>2, LoadFacts DEF ContentInv
    <2> QED BY <1>3, <2>3, TakeSpends
  <1> QED BY <1>1, <1>2, <1>3

LEMMA PlaceKept ==
  ASSUME PlaceOK, [ProjectNext]_projectVars
  PROVE  Placed
  <1> USE DEF PlaceOK, Placed, Places
  <1>1. CASE UNCHANGED projectVars BY <1>1 DEF projectVars, history
  <1>2. ASSUME NEW b \in BOOLEAN,
               DisableRestore(b) \/ NewScene(b) \/ NewSceneFails(b) \/ StartBenchmark(b)
        PROVE  Placed
    BY <1>2 DEF DisableRestore, NewScene, NewSceneFails, StartBenchmark, history
  <1>3. ASSUME NEW b \in BOOLEAN, Edit(b) \/ Launch(b) \/ IsolatePending(b) \/ PrepareRestore(b)
        PROVE  Placed
    BY <1>3 DEF Edit, Launch, IsolatePending, PrepareRestore, history
  <1>4. ASSUME NEW b \in BOOLEAN, EndRestore(b) \/ Loop(b) \/ Import(b) \/ PollCommit(b)
        PROVE  Placed
    BY <1>4 DEF EndRestore, Loop, Import, PollCommit, Poll, history
  <1>5. ASSUME NEW b \in BOOLEAN, NEW p \in Paths, SaveProject(p, b) \/ ToolSavesProject(p, b)
        PROVE  Placed
    BY <1>5 DEF SaveProject, ToolSavesProject, SaveTo
  <1>6. ASSUME EnableRestore \/ CancelLoad \/ CreateCheckpoint \/ CancelBenchmark
        PROVE  Placed
    BY <1>6 DEF EnableRestore, CancelLoad, CreateCheckpoint, CancelBenchmark, history
  <1>7. ASSUME StopMcpServer \/ TryRestore \/ Update \/ PollIdle
        PROVE  Placed
    BY <1>7 DEF StopMcpServer, TryRestore, Update, PollIdle, Poll, history
  <1>8. ASSUME PollEnded \/ PollImported \/ PendingProject \/ PendingScene
        PROVE  Placed
    BY <1>8 DEF PollEnded, PollImported, PendingProject, PendingScene, Poll, history
  <1>9. ASSUME PendingDone \/ BenchmarkFinishes \/ StopRestores \/ FrameEnds
        PROVE  Placed
    BY <1>9 DEF PendingDone, BenchmarkFinishes, StopRestores, FrameEnds, history
  <1>10. ASSUME SaveSessionOnExit \/ Crash PROVE Placed
    BY <1>10 DEF SaveSessionOnExit, Crash, Gone, history
  <1>11. ASSUME NEW f \in BOOLEAN, NEW b \in BOOLEAN, SaveSnapshot(f, b) \/ SaveSettings(b)
         PROVE  Placed
    BY <1>11 DEF SaveSnapshot, SaveSettings, Gone, history
  <1>12. ASSUME NEW n \in Scenes, AskScene(n) \/ ToolSetsScene(n) PROVE Placed
    BY <1>12 DEF AskScene, ToolSetsScene, history
  <1>13. ASSUME NEW p \in Paths, AskProject(p) \/ ToolLoadsProject(p) PROVE Placed
    BY <1>13 DEF AskProject, ToolLoadsProject, history
  <1>14. ASSUME NEW i \in DOMAIN cps, DeleteCheckpoint(i) \/ RestoreCheckpoint(i) PROVE Placed
    BY <1>14 DEF DeleteCheckpoint, RestoreCheckpoint, history
  <1> HIDE DEF PlaceOK, Placed, Places
  <1>15. TRUE \in BOOLEAN /\ FALSE \in BOOLEAN OBVIOUS
  <1>16. ASSUME Commands PROVE Placed
    BY <1>16, <1>2, <1>3, <1>5, <1>6, <1>7, <1>12, <1>13, <1>14 DEF Commands
  <1>17. ASSUME Steps PROVE Placed
    BY <1>17, <1>3, <1>4, <1>7, <1>8, <1>9, <1>10, <1>11, <1>15 DEF Steps
  <1> QED BY <1>1, <1>16, <1>17 DEF ProjectNext

LEMMA BudgetKept ==
  ASSUME TypesOK, ContentInv, [ProjectNext]_projectVars
  PROVE  BudgetOK'
  <1> DEFINE Spent == budget' \in Budgets
  <1>1. /\ budget \in Budgets /\ budget.launches \in Nat /\ budget.faults \in Nat
        /\ budget.crashes \in Nat /\ BudgetOK
    BY DEF TypesOK, BudgetOK, Budgets
  <1>2. ASSUME budget' = budget PROVE Spent BY <1>1, <1>2
  <1>3. ASSUME NEW f \in BOOLEAN, f => MayFail, budget' = Faulty(f) PROVE Spent
    BY <1>1, <1>3, FaultyFacts
  <1>4. CASE UNCHANGED projectVars BY <1>1, <1>4 DEF projectVars, BudgetOK, Budgets
  <1>5. ASSUME NEW b \in BOOLEAN,
               \/ DisableRestore(b) \/ NewScene(b) \/ StartBenchmark(b) \/ IsolatePending(b)
               \/ PrepareRestore(b) \/ EndRestore(b)
        PROVE  Spent
    <2>1. (b => MayFail) /\ budget' = Faulty(b)
      BY <1>5 DEF DisableRestore, NewScene, StartBenchmark, IsolatePending, PrepareRestore,
                  EndRestore
    <2> HIDE DEF Spent
    <2> QED BY <2>1, <1>3
  <1>6. ASSUME NEW b \in BOOLEAN,
               SaveSettings(b) \/ Import(b) \/ PollCommit(b)
        PROVE  Spent
    <2>1. (b => MayFail) /\ budget' = Faulty(b)
      BY <1>6 DEF SaveSettings, Import, PollCommit
    <2> HIDE DEF Spent
    <2> QED BY <2>1, <1>3
  <1>7. ASSUME NEW b \in BOOLEAN, NEW p \in Paths, SaveProject(p, b) \/ ToolSavesProject(p, b)
        PROVE  Spent
    <2>1. (b => MayFail) /\ budget' = Faulty(b)
      BY <1>7 DEF SaveProject, ToolSavesProject, SaveTo
    <2> HIDE DEF Spent
    <2> QED BY <2>1, <1>3
  <1>8. ASSUME NEW b \in BOOLEAN, Edit(b) \/ NewSceneFails(b) PROVE Spent
    <2>1. CASE Edit(b)
      <3>1. /\ (~b /\ at = "mcp" => MayFail) /\ budget' = Faulty(~b /\ at = "mcp")
        BY <2>1 DEF Edit
      <3>2. (~b /\ at = "mcp") \in BOOLEAN OBVIOUS
      <3> HIDE DEF Spent
      <3> QED BY <3>1, <3>2, <1>3
    <2>2. CASE NewSceneFails(b)
      <3>1. MayFail /\ budget' = Faulty(TRUE) BY <2>2 DEF NewSceneFails
      <3> QED BY <3>1, <1>3
    <2> QED BY <1>8, <2>1, <2>2
  <1>9. ASSUME NEW b \in BOOLEAN, Launch(b) \/ Crash PROVE Spent
    <2>1. \/ budget.launches > 0 /\ budget' = [budget EXCEPT !.launches = @ - 1]
          \/ budget.crashes > 0 /\ budget' = [budget EXCEPT !.crashes = @ - 1]
      BY <1>9 DEF Launch, Crash
    <2> QED BY <1>1, <2>1 DEF Budgets
  <1>10. ASSUME NEW f \in BOOLEAN, NEW b \in BOOLEAN, SaveSnapshot(f, b) PROVE Spent
    <2>1. /\ (f => MayFail) /\ (b => f /\ budget.faults > 1)
          /\ budget' = [budget EXCEPT !.faults = @ - (IF b THEN 2 ELSE IF f THEN 1 ELSE 0)]
      BY <1>10 DEF SaveSnapshot
    <2>2. budget.faults - (IF b THEN 2 ELSE IF f THEN 1 ELSE 0) \in Nat
      BY <1>1, <2>1 DEF MayFail
    <2> QED BY <1>1, <2>1, <2>2 DEF Budgets
  <1>11. ASSUME CancelBenchmark \/ StopMcpServer PROVE Spent
    <2>1. EndBenchmark \/ budget' = budget BY <1>11 DEF CancelBenchmark, StopMcpServer
    <2> QED BY <2>1, <1>2, <1>1, LoadsSpend
  <1>12. ASSUME NEW p \in Paths, ToolLoadsProject(p) PROVE Spent
    BY <1>12, <1>1, LoadsSpend DEF ToolLoadsProject
  <1>13. ASSUME PendingProject PROVE Spent
    <2>1. asked.project \in Paths BY <1>13 DEF PendingProject, TypesOK, LoadsOK, PathsOrNone
    <2> QED BY <1>13, <2>1, <1>1, LoadsSpend DEF PendingProject
  <1>14. ASSUME NEW i \in DOMAIN cps, RestoreCheckpoint(i) PROVE Spent
    BY <1>14, <1>1, LoadsSpend DEF RestoreCheckpoint
  <1>15. ASSUME StopRestores PROVE Spent
    <2>1. CASE cps # << >> /\ cps[Len(cps)].same
      <3>1. \E r \in LoadsOf(cps[Len(cps)].live) : Take(r, cps[Len(cps)].proj)
        BY <1>15, <2>1 DEF StopRestores
      <3>2. Len(cps) \in DOMAIN cps BY <2>1, ContentTypes, EmptySeq
      <3> QED BY <3>1, <3>2, <1>1, LoadsSpend
    <2>2. CASE ~(cps # << >> /\ cps[Len(cps)].same)
      BY <1>2, <1>15, <2>2 DEF StopRestores
    <2> QED BY <2>1, <2>2
  <1>16. ASSUME NEW i \in DOMAIN cps, DeleteCheckpoint(i) PROVE Spent
    BY <1>2, <1>16 DEF DeleteCheckpoint
  <1>17. ASSUME NEW n \in Scenes, AskScene(n) \/ ToolSetsScene(n) PROVE Spent
    BY <1>2, <1>17 DEF AskScene, ToolSetsScene
  <1>18. ASSUME NEW p \in Paths, AskProject(p) PROVE Spent
    BY <1>2, <1>18 DEF AskProject
  <1>19. ASSUME EnableRestore \/ CancelLoad \/ CreateCheckpoint \/ SaveSessionOnExit \/ Update
         PROVE  Spent
    BY <1>2, <1>19 DEF EnableRestore, CancelLoad, CreateCheckpoint, SaveSessionOnExit, Update
  <1>20. ASSUME PollIdle \/ PollEnded \/ PollImported \/ PendingScene \/ PendingDone PROVE Spent
    BY <1>2, <1>20 DEF PollIdle, PollEnded, PollImported, PendingScene, PendingDone
  <1>21. ASSUME NEW b \in BOOLEAN, BenchmarkFinishes \/ FrameEnds \/ Loop(b) PROVE Spent
    BY <1>2, <1>21 DEF BenchmarkFinishes, FrameEnds, Loop
  <1>22. ASSUME TryRestore PROVE Spent
    <2>1. PICK r \in UNION {LoadsOf(s.live) : s \in disk.pending} : budget' = Faulty(r.fault)
      BY <1>22 DEF TryRestore
    <2>2. PICK s \in disk.pending : r \in LoadsOf(s.live) BY <2>1
    <2>3. s \in Saves BY SessionTypes DEF AtMostOne
    <2>4. s.live \in Content BY <2>3 DEF Saves
    <2>5. LoadResult(s.live, r) BY <2>2, <2>4, LoadFacts DEF ContentInv
    <2>6. r.fault \in BOOLEAN /\ (r.fault => MayFail) BY <2>5 DEF LoadResult, Results
    <2> HIDE DEF Spent
    <2> QED BY <2>1, <2>6, <1>3
  <1>23. TRUE \in BOOLEAN /\ FALSE \in BOOLEAN OBVIOUS
  <1> HIDE DEF Spent
  <1>24. ASSUME Commands PROVE Spent
    BY <1>24, <1>5, <1>7, <1>8, <1>11, <1>12, <1>14, <1>16, <1>17, <1>18, <1>19 DEF Commands
  <1>25. Crash \/ BenchmarkFinishes \/ FrameEnds => Spent BY <1>9, <1>21, <1>23
  <1>26. ASSUME Steps PROVE Spent
    BY <1>26, <1>5, <1>6, <1>9, <1>10, <1>13, <1>15, <1>19, <1>20, <1>21, <1>23, <1>25,
       <1>22 DEF Steps
  <1> QED BY <1>4, <1>24, <1>26 DEF ProjectNext, Spent, BudgetOK, Budgets
-----------------------------------------------------------------------------
(* The invariant.                                                          *)

LEMMA ProjectInitInv == ProjectInit => ProjectInv
  <1> SUFFICES ASSUME ProjectInit PROVE ProjectInv OBVIOUS
  <1>1. ContentInv
    <2>1. /\ live = Imported(Preview) /\ proj = Unnamed /\ cps = << >> /\ bench = {}
          /\ finished = FALSE /\ files = [p \in Paths |-> {}]
      BY DEF ProjectInit
    <2>2. << >> \in Seq(Checkpoints) /\ Len(<< >>) = 0 /\ 0 <= KeptCheckpoints
      BY EmptySeq, ProjectAssumption
    <2>3. {} \in AtMostOne(Befores) /\ {} \in AtMostOne(Content) BY DEF AtMostOne
    <2>4. ContentOK BY <2>1, <2>2, <2>3, PreviewTypes DEF ContentOK
    <2>5. FilesOK BY <2>1, <2>3 DEF FilesOK
    <2>6. BootInv /\ PointsInv /\ CleanMeansSaved
      BY <2>1, PreviewTypes DEF BootInv, PointsInv, CleanMeansSaved
    <2> QED BY <2>4, <2>5, <2>6 DEF ContentInv
  <1>2. LoadsOK /\ OrderInv
    <2>1. asked = NothingAsked /\ load = Idle /\ answer = [n \in Scenes |-> "none"]
      BY DEF ProjectInit
    <2>2. NothingAsked \in [project : PathsOrNone, scene : ScenesOrNone] /\ Idle \in LoadRecords
      BY DEF NothingAsked, Idle, LoadRecords, LoadStages, PathsOrNone, ScenesOrNone
    <2>3. answer \in [Scenes -> Answers] BY <2>1 DEF Answers
    <2>4. \A n \in Scenes : ~StillOpen(NoScene, Idle, n) BY SceneFacts DEF StillOpen, Idle
    <2>5. Ordered(NoScene, Idle, answer) BY <2>1, <2>4 DEF Ordered, Idle
    <2> QED BY <2>1, <2>2, <2>3, <2>5 DEF LoadsOK, LoadRecords, OrderInv, NothingAsked
  <1>3. DiskOK /\ SessionInv
    <2>1. /\ session = SessionOff /\ files = [p \in Paths |-> {}] /\ exit = "none" /\ at = "off"
          /\ disk = [snapshot |-> {}, pending |-> {}, settings |-> SessionOff]
      BY DEF ProjectInit
    <2>2. SessionOff \in Sessions BY PreviewTypes DEF SessionOff, Sessions
    <2>3. {} \in AtMostOne(Saves) /\ {} \in AtMostOne(Content) BY DEF AtMostOne
    <2>4. DiskOK BY <2>1, <2>2, <2>3 DEF DiskOK
    <2>5. SessionInv BY <2>1 DEF SessionInv, Trying
    <2> QED BY <2>4, <2>5
  <1>4. PlaceOK BY DEF ProjectInit, PlaceOK, Places
  <1>5. BudgetOK BY ProjectAssumption DEF ProjectInit, BudgetOK
  <1> QED BY <1>1, <1>2, <1>3, <1>4, <1>5 DEF ProjectInv, TypesOK, ContentInv

\* sound stays a Boolean.
LEMMA SoundKept ==
  ASSUME TypesOK, ContentInv, [ProjectNext]_projectVars
  PROVE  sound' \in BOOLEAN
  <1>1. sound \in BOOLEAN BY DEF TypesOK, PlaceOK
  <1>2. CASE Still BY <1>1, <1>2 DEF Still
  <1>3. ASSUME NEW p \in Paths, OpenProject(p) PROVE sound' \in BOOLEAN
    <2>1. PICK r \in LoadsFrom(files[p]) :
            sound' = IF r.ok THEN r.live \in files[p] ELSE sound /\ (r.dirty \/ r.live = live)
      BY <1>3 DEF OpenProject
    <2>2. (r.live \in files[p]) \in BOOLEAN /\ (sound /\ (r.dirty \/ r.live = live)) \in BOOLEAN
      OBVIOUS
    <2>3. CASE r.ok BY <2>1, <2>2, <2>3
    <2>4. CASE ~r.ok BY <2>1, <2>2, <2>4
    <2> QED BY <2>3, <2>4
  <1>4. ASSUME NEW b \in BOOLEAN, NewScene(b) \/ NewSceneFails(b) \/ StartBenchmark(b)
        PROVE  sound' \in BOOLEAN
    BY <1>1, <1>4 DEF NewScene, NewSceneFails, StartBenchmark, history
  <1>5. ASSUME NEW b \in BOOLEAN, Edit(b) \/ PollCommit(b) PROVE sound' \in BOOLEAN
    BY <1>1, <1>5 DEF Edit, PollCommit, history
  <1>6. ASSUME NEW b \in BOOLEAN, NEW p \in Paths, SaveProject(p, b) \/ ToolSavesProject(p, b)
        PROVE  sound' \in BOOLEAN
    <2>1. sound' = IF b THEN sound /\ proj.path # p ELSE TRUE
      BY <1>6 DEF SaveProject, ToolSavesProject, SaveTo
    <2>2. (sound /\ proj.path # p) \in BOOLEAN OBVIOUS
    <2> QED BY <2>1, <2>2
  <1>7. ASSUME CreateCheckpoint \/ CancelBenchmark \/ StopMcpServer \/ TryRestore
        PROVE  sound' \in BOOLEAN
    <2>1. CASE CreateCheckpoint BY <1>1, <2>1 DEF CreateCheckpoint, history
    <2>2. CASE CancelBenchmark BY <2>2 DEF CancelBenchmark, EndBenchmark
    <2>3. CASE StopMcpServer BY <1>1, <2>3 DEF StopMcpServer, EndBenchmark
    <2>4. CASE TryRestore
      <3>1. PICK r \in UNION {LoadsOf(s.live) : s \in disk.pending} : sound' = ~r.ok
        BY <2>4 DEF TryRestore
      <3>2. (~r.ok) \in BOOLEAN OBVIOUS
      <3> QED BY <3>1, <3>2
    <2> QED BY <1>7, <2>1, <2>2, <2>3, <2>4
  <1>8. ASSUME BenchmarkFinishes \/ StopRestores \/ Gone PROVE sound' \in BOOLEAN
    BY <1>1, <1>8 DEF BenchmarkFinishes, StopRestores, Gone, history
  <1>9. ASSUME PendingProject PROVE sound' \in BOOLEAN
    <2>1. asked.project \in Paths /\ OpenProject(asked.project)
      BY <1>9 DEF PendingProject, TypesOK, LoadsOK, PathsOrNone
    <2> QED BY <2>1, <1>3
  <1>10. ASSUME NEW n \in Scenes, ToolSetsScene(n) PROVE sound' \in BOOLEAN
    BY <1>1, <1>10 DEF ToolSetsScene, history
  <1>11. ASSUME NEW p \in Paths, ToolLoadsProject(p) PROVE sound' \in BOOLEAN
    BY <1>3, <1>11 DEF ToolLoadsProject
  <1>12. ASSUME NEW i \in DOMAIN cps, DeleteCheckpoint(i) \/ RestoreCheckpoint(i)
         PROVE  sound' \in BOOLEAN
    BY <1>1, <1>12 DEF DeleteCheckpoint, RestoreCheckpoint, history
  <1>13. CASE ContentStep
    BY <1>13, <1>4, <1>5, <1>6, <1>7, <1>8, <1>9, <1>10, <1>11, <1>12 DEF ContentStep
  <1> QED BY <1>2, <1>13, ContentSteps

\* Every step keeps the invariant.
LEMMA ProjectNextInv == ProjectInv /\ [ProjectNext]_projectVars => ProjectInv'
  <1> SUFFICES ASSUME ProjectInv, [ProjectNext]_projectVars PROVE ProjectInv' OBVIOUS
  <1>1. TypesOK /\ SessionInv /\ OrderInv /\ LoadsOK /\ PlaceOK BY DEF ProjectInv, TypesOK
  <1>2. ContentInv BY DEF ProjectInv, TypesOK, DiskOK, ContentInv, FilesOK
  <1>3. ContentInv' BY <1>1, <1>2, ContentKept
  <1>4. LoadsOK' /\ OrderInv' BY <1>1, LoadsKept
  <1>5. SessionKeep BY <1>1, <1>2, SessionKept
  <1>6. BudgetOK' BY <1>1, <1>2, BudgetKept
  <1>7. PlaceOK'
    <2>1. Placed BY <1>1, PlaceKept
    <2>2. sound' \in BOOLEAN BY <1>1, <1>2, SoundKept
    <2> QED BY <2>1, <2>2 DEF Placed, PlaceOK
  <1>8. DiskOK' BY <1>3, <1>5 DEF SessionKeep, DiskOK, DiskRecords, ContentInv, FilesOK
  <1>9. TypesOK' BY <1>3, <1>4, <1>6, <1>7, <1>8 DEF TypesOK, ContentInv
  <1> QED BY <1>3, <1>4, <1>5, <1>9 DEF ProjectInv, ContentInv, SessionKeep

\* The inductive invariant holds in every reachable state, for any paths and bounds.
THEOREM ProjectInvariant == ProjectSpec => []ProjectInv
  <1>1. ProjectInv /\ [ProjectNext]_projectVars => ProjectInv' BY ProjectNextInv
  <1> QED BY ProjectInitInv, <1>1, PTL DEF ProjectSpec

LEMMA SizeOfAtMostOne ==
  ASSUME NEW S, NEW T \in AtMostOne(S)
  PROVE  T \subseteq S /\ Cardinality(T) <= 1
  <1>1. T \subseteq S /\ \A x, y \in T : x = y BY DEF AtMostOne
  <1>2. CASE T = {} BY <1>2, FS_EmptySet
  <1>3. CASE T # {}
    <2>1. PICK x \in T : T = {x} BY <1>1, <1>3
    <2> QED BY <2>1, FS_Singleton, <1>1
  <1> QED BY <1>1, <1>2, <1>3

\* Every variable keeps its type: no more checkpoints are kept than the limit, and
\* a file, a snapshot and a benchmark's checkpoint are one at most.
THEOREM ProjectTypeCorrect == ProjectSpec => []ProjectTypeOK
  <1>1. ProjectInv => ProjectTypeOK
    <2> SUFFICES ASSUME ProjectInv PROVE ProjectTypeOK OBVIOUS
    <2>1. ContentOK /\ LoadsOK /\ DiskOK /\ PlaceOK BY DEF ProjectInv, TypesOK
    <2>2. bench \in AtMostOne(Befores) BY <2>1 DEF ContentOK
    <2>3. Cardinality(bench) <= 1 BY <2>2, SizeOfAtMostOne
    <2>4. TypesOK BY DEF ProjectInv
    <2>5. Cardinality(disk.snapshot) <= 1 /\ Cardinality(disk.pending) <= 1
      BY <2>4, SessionTypes, SizeOfAtMostOne
    <2>6. \A p \in Paths : files[p] \subseteq Content /\ Cardinality(files[p]) <= 1
      BY <2>1, SizeOfAtMostOne DEF DiskOK
    <2>7. live \in Content /\ proj \in Projects /\ Len(cps) <= KeptCheckpoints
          /\ finished \in BOOLEAN
      BY <2>1 DEF ContentOK
    <2>8. /\ asked \in [project : Paths \union {NoPath}, scene : {NoScene} \union Scenes]
          /\ load \in [scene : {NoScene} \union Scenes, cancel : BOOLEAN,
                       stage : {"none", "importing", "imported", "unreadable", "converted"},
                       queued : {NoScene} \union Scenes]
          /\ answer \in [Scenes -> {"none", "open", "committed", "failed", "cancelled",
                                    "replaced"}]
      BY <2>1 DEF LoadsOK, PathsOrNone, ScenesOrNone, LoadStages, Answers
    <2>9. session \in [restore : BOOLEAN, project : Projects] BY <2>1 DEF DiskOK, Sessions
    <2>10. /\ at \in Places /\ back \in {"off", "enable", "new"}
           /\ exit \in {"none", "saved", "isolated", "stuck", "skipped"} /\ sound \in BOOLEAN
      BY <2>1 DEF PlaceOK
    <2> QED BY <2>3, <2>5, <2>6, <2>7, <2>8, <2>9, <2>10 DEF ProjectTypeOK, Places
  <1> QED BY <1>1, ProjectInvariant, PTL

\* A launch restores what a session saved, under the project it was saved with, and
\* a candidate that was refused or cut short by a crash is never tried again.
THEOREM RestoresAlwaysTrue == ProjectSpec => []RestoresAreTrue
  <1>1. ProjectInv => RestoresAreTrue
    <2> SUFFICES ASSUME ProjectInv PROVE RestoresAreTrue OBVIOUS
    <2>1. SessionInv BY DEF ProjectInv
    <2>2. RestoreNotRetried BY <2>1 DEF SessionInv, RestoreNotRetried
    <2>3. RestoreIsTrue BY <2>1 DEF SessionInv, RestoreIsTrue, Trying
    <2> QED BY <2>2, <2>3 DEF RestoresAreTrue
  <1> QED BY <1>1, ProjectInvariant, PTL

\* A project shown as saved is what its file holds, whatever loads, commits, failures
\* and new scenes came before.
THEOREM CleanAlwaysSaved == ProjectSpec => []CleanMeansSaved
  <1>1. ProjectInv => CleanMeansSaved BY DEF ProjectInv
  <1> QED BY <1>1, ProjectInvariant, PTL

\* A checkpoint that the fingerprint lets through puts back the scene, the settings,
\* the project and the flag it was made of, unless its load fails.
THEOREM CheckpointAlwaysExact == ProjectSpec => CheckpointIsExact
  <1> DEFINE Exact == \A i \in DOMAIN cps :
                        RestoreCheckpoint(i) => budget' # budget
                                                \/ (live' = cps[i].live /\ proj' = cps[i].proj)
  <1>1. ProjectInv /\ [ProjectNext]_projectVars => [Exact]_projectVars
    <2> SUFFICES ASSUME ProjectInv, NEW i \in DOMAIN cps, RestoreCheckpoint(i), budget' = budget
                 PROVE  live' = cps[i].live /\ proj' = cps[i].proj
      OBVIOUS
    <2>1. TypesOK /\ BudgetOK /\ ContentInv
      BY DEF ProjectInv, TypesOK, DiskOK, ContentInv, FilesOK
    <2>2. PICK r \in LoadsOf(cps[i].live) : Take(r, cps[i].proj) BY DEF RestoreCheckpoint
    <2>3. cps[i] \in Checkpoints /\ Consistent(cps, live.scene) BY <2>1, ContentTypes
    <2>4. cps[i].live \in Content BY <2>3 DEF Checkpoints
    <2>5. LoadResult(cps[i].live, r) BY <2>1, <2>2, <2>4, LoadFacts DEF ContentInv
    <2>6. live' = Opened(cps[i].live) /\ proj' = cps[i].proj BY <2>1, <2>2, <2>5, TakeSpends
    <2>7. cps[i].live.scene = live.scene BY <2>3 DEF RestoreCheckpoint, Consistent
    <2>8. Opened(cps[i].live) = cps[i].live
      <3>1. Opened(cps[i].live) = [cps[i].live EXCEPT !.scene = cps[i].live.scene]
        BY <2>7 DEF Opened
      <3> QED BY <3>1, <2>4 DEF Content
    <2> QED BY <2>6, <2>8
  <1>2. ProjectSpec => [][Exact]_projectVars BY <1>1, ProjectInvariant, PTL DEF ProjectSpec
  <1> QED BY <1>2 DEF CheckpointIsExact

\* No load is lost, and none is committed once a newer one was handed to the loader.
THEOREM LatestLoadAlwaysWins == ProjectSpec => LatestLoadWins
  <1> DEFINE Kept == \A n \in Scenes : answer[n] = "open" =>
                       n \in {asked.scene, load.queued} \/ (n = load.scene /\ load.stage # "none")
             Newest == \A n \in Scenes : answer'[n] = "committed" /\ answer[n] # "committed" =>
                         \A m \in n + 1 .. MaxLoads :
                           m = asked.scene \/ answer[m] \in {"none", "replaced"}
  <1>1. ProjectInv => Kept BY DEF ProjectInv, OrderInv, Ordered, StillOpen
  <1>2. ProjectInv /\ [ProjectNext]_projectVars => [Newest]_projectVars
    <2> SUFFICES ASSUME ProjectInv, [ProjectNext]_projectVars, NEW n \in Scenes,
                        answer'[n] = "committed", answer[n] # "committed",
                        NEW m \in n + 1 .. MaxLoads
                 PROVE  m = asked.scene \/ answer[m] \in {"none", "replaced"}
      OBVIOUS
    <2>1. LoadsOK /\ OrderInv BY DEF ProjectInv, TypesOK
    <2>2. answer \in [Scenes -> Answers] /\ load \in LoadRecords /\ asked.scene \in ScenesOrNone
      BY <2>1 DEF LoadsOK, LoadRecords
    <2>3. n \in Nat /\ m \in Scenes /\ m > n /\ m # NoScene
      BY ProjectAssumption DEF Scenes, NoScene
    <2>4. n = load.scene /\ load.stage # "none" /\ ~load.cancel
      <3>1. answer' # answer OBVIOUS
      <3>2. PollCommit(FALSE)
        <4>1. ~UNCHANGED loads BY <3>1 DEF loads
        <4>2. \A k \in ScenesOrNone : Dropped(k)[n] # "committed"
          BY <2>2 DEF Dropped, Answered
        <4>3. ASSUME NEW b \in BOOLEAN, NewScene(b) \/ NewSceneFails(b) \/ Import(b) PROVE FALSE
          BY <2>2, <4>2, <4>3 DEF NewScene, NewSceneFails, Import
        <4>4. ASSUME CancelLoad \/ PollImported \/ PendingProject \/ PendingScene PROVE FALSE
          <5>1. load.queued \in ScenesOrNone BY <2>2 DEF LoadRecords
          <5> QED
            BY <3>1, <4>2, <4>4, <5>1
               DEF CancelLoad, PollImported, PendingProject, PendingScene
        <4>5. ASSUME PollEnded PROVE FALSE
          BY <2>2, <4>5 DEF PollEnded, Answered
        <4>6. ASSUME NEW k \in Scenes, AskScene(k) PROVE FALSE
          <5>1. answer' = [Dropped(asked.scene) EXCEPT ![k] = "open"] BY <4>6 DEF AskScene
          <5>2. Dropped(asked.scene) \in [Scenes -> Answers]
            BY <2>2 DEF Dropped, Answered, Answers
          <5> QED BY <2>2, <4>2, <5>1, <5>2
        <4>7. ASSUME NEW p \in Paths, AskProject(p) PROVE FALSE
          BY <3>1, <4>7 DEF AskProject
        <4>8. ASSUME Gone PROVE FALSE BY <2>2, <4>8 DEF Gone
        <4>9. ASSUME PollCommit(TRUE) PROVE FALSE
          BY <2>2, <4>9 DEF PollCommit, Answered
        <4> QED BY <4>1, <4>3, <4>4, <4>5, <4>6, <4>7, <4>8, <4>9, LoadSteps DEF LoadStep
      <3>3. answer' = [answer EXCEPT ![load.scene] = "committed"]
            /\ load.stage # "none" /\ ~load.cancel
        BY <3>2 DEF PollCommit, Answered, Discards
      <3> QED BY <2>2, <3>3
    <2>5. StillOpen(asked.scene, load, n) BY <2>4 DEF StillOpen
    <2>6. answer[m] \in {"none", "replaced", "open"}
      BY <2>1, <2>3, <2>5 DEF OrderInv, Ordered
    <2>7. answer[m] = "open" => m = asked.scene
      <3>1. load.queued = NoScene BY <2>1, <2>4 DEF OrderInv, Ordered
      <3>2. answer[m] = "open" => StillOpen(asked.scene, load, m)
        BY <2>1, <2>3 DEF OrderInv, Ordered
      <3> QED BY <3>1, <3>2, <2>3, <2>4 DEF StillOpen
    <2> QED BY <2>6, <2>7
  <1>3. ProjectSpec => []Kept BY <1>1, ProjectInvariant, PTL
  <1>4. ProjectSpec => [][Newest]_projectVars
    BY <1>2, ProjectInvariant, PTL DEF ProjectSpec
  <1> QED BY <1>3, <1>4 DEF LatestLoadWins
================================================================================
