--------------------------- MODULE FrameBufferProofs ---------------------------
(***************************************************************************)
(* Theorems about FrameBuffer, for any set of consumers, any capacity and  *)
(* any lifetime: its invariants, which TLC checks on a small instance.     *)
(*                                                                         *)
(* Each invariant is inductive together with those before it, so there is  *)
(* one lemma "the steps keep it" for each, and the theorems follow.        *)
(***************************************************************************)
EXTENDS FrameBuffer, FiniteSetTheorems, TLAPS

(* Expiring leaves a subset of a finite set. *)
LEMMA FreshIsSubset ==
    ASSUME NEW S, IsFiniteSet(S)
    PROVE  /\ Fresh(S) \subseteq S /\ IsFiniteSet(Fresh(S))
           /\ Cardinality(Fresh(S)) \in Nat /\ Cardinality(S) \in Nat
           /\ Cardinality(Fresh(S)) <= Cardinality(S)
    BY FS_Subset, FS_CardinalityType DEF Fresh

(* What put() keeps is a subset of what it had with the new candidate, and   *)
(* is within the capacity if what it had before was.                         *)
LEMMA KeptIsBounded ==
    ASSUME NEW S, IsFiniteSet(S), Cardinality(S) <= Capacity, NEW c,
           NEW K \in Kept(Fresh(S) \cup {c})
    PROVE  /\ K \subseteq S \cup {c}
           /\ IsFiniteSet(K)
           /\ Cardinality(K) <= Capacity
           /\ Cardinality(K) <= Cardinality(S) + 1
  <1> DEFINE F == Fresh(S)
             T == F \cup {c}
  <1>1. /\ F \subseteq S /\ IsFiniteSet(F)
        /\ Cardinality(F) \in Nat /\ Cardinality(S) \in Nat
        /\ Cardinality(F) <= Cardinality(S)
    BY FreshIsSubset
  <1>2. /\ IsFiniteSet(T) /\ Cardinality(T) \in Nat
        /\ Cardinality(T) <= Cardinality(F) + 1
    <2>1. IsFiniteSet(T)
          /\ Cardinality(T) = IF c \in F THEN Cardinality(F) ELSE Cardinality(F) + 1
      BY <1>1, FS_AddElement
    <2> QED
      BY <1>1, <2>1
  <1>3. CASE Cardinality(T) > Capacity
    <2>1. PICK d \in Worst(T) : K = T \ {d}
      BY <1>3 DEF Kept
    <2>2. d \in T
      BY <2>1 DEF Worst
    <2>3. IsFiniteSet(K) /\ Cardinality(K) = Cardinality(T) - 1
      BY <1>2, <2>1, <2>2, FS_RemoveElement
    <2> QED
      BY <1>1, <1>2, <2>1, <2>3, ConstantsAssumption
  <1>4. CASE ~(Cardinality(T) > Capacity)
    <2>1. K = T
      BY <1>4 DEF Kept
    <2> QED
      BY <1>1, <1>2, <1>4, <2>1, ConstantsAssumption
  <1> QED
    BY <1>3, <1>4
--------------------------------------------------------------------------------
(* What the induction below keeps: types and the bound belong together, since *)
(* what put() evicts is known to be enough only within the bound.             *)
TypesAndBound == TypeOK /\ Bounded

LEMMA InitTypesAndBound == Init => TypesAndBound
  <1> SUFFICES ASSUME Init PROVE TypesAndBound
    OBVIOUS
  <1>1. IsFiniteSet({}) /\ Cardinality({}) = 0
    BY FS_EmptySet
  <1>2. Bounded
    BY <1>1, ConstantsAssumption DEF Init, Bounded
  <1>3. taken \in Candidate
    BY DEF Init, NoCandidate, Candidate, Unmeasured
  <1>4. /\ grab \in [busy : BOOLEAN, at : Nat, under : Nat]
        /\ grab.at <= now /\ grab.under <= epoch
    BY DEF Init, NoGrab
  <1> QED
    BY <1>1, <1>2, <1>3, <1>4 DEF Init, TypesAndBound, TypeOK, Phases

LEMMA NextTypesAndBound == TypesAndBound /\ [Next]_vars => TypesAndBound'
  <1> SUFFICES ASSUME TypeOK, Bounded, [Next]_vars
               PROVE  TypeOK' /\ Bounded'
    BY DEF TypesAndBound
  <1> USE ConstantsAssumption
  <1>0. /\ IsFiniteSet({}) /\ Cardinality({}) = 0
        /\ IsFiniteSet(items) /\ Cardinality(items) \in Nat
        /\ Cardinality(items) <= Capacity
    BY FS_EmptySet, FS_CardinalityType DEF TypeOK, Bounded
  <1>1. CASE BeginGrab
    BY <1>0, <1>1 DEF BeginGrab, TypeOK, Bounded
  <1>2. ASSUME NEW score \in Scores \cup {Unmeasured}, Put(score)
        PROVE  TypeOK' /\ Bounded'
    <2> DEFINE c == [at |-> grab.at, score |-> score, under |-> grab.under]
    <2>1. c \in Candidate
      BY DEF TypeOK, Candidate
    <2>2. grab' = NoGrab /\ now' = now /\ epoch' = epoch /\ closed' = closed
          /\ taken' = taken
      BY <1>2 DEF Put
    <2>3. consumer' \in [Consumers -> Phases]
      BY <1>2 DEF Put, NotifyOne, TypeOK, Phases
    <2>4. CASE closed \/ grab.under # epoch
      <3>1. items' = items
        BY <1>2, <2>4 DEF Put
      <3> QED
        BY <2>2, <2>3, <3>1 DEF TypeOK, Bounded, NoGrab
    <2>5. CASE ~(closed \/ grab.under # epoch)
      <3>1. items' \in Kept(Fresh(items) \cup {c})
        BY <1>2, <2>5 DEF Put
      <3> HIDE DEF c
      <3>2. items' \subseteq items \cup {c} /\ IsFiniteSet(items')
            /\ Cardinality(items') <= Capacity
        BY <1>0, <3>1, KeptIsBounded
      <3> QED
        BY <2>1, <2>2, <2>3, <2>5, <3>2 DEF TypeOK, Bounded, NoGrab
    <2> QED
      BY <2>4, <2>5
  <1>3. ASSUME NEW c \in Consumers, Take(c)
        PROVE  TypeOK' /\ Bounded'
    <2>1. Fresh(items) \subseteq items /\ IsFiniteSet(Fresh(items))
          /\ Cardinality(Fresh(items)) \in Nat
          /\ Cardinality(Fresh(items)) <= Cardinality(items)
      BY <1>0, FreshIsSubset
    <2>2. now' = now /\ epoch' = epoch /\ closed' = closed /\ grab' = grab
          /\ consumer' \in [Consumers -> Phases]
      BY <1>3 DEF Take, TypeOK, Phases
    <2>3. CASE Fresh(items) # {}
      <3>1. taken' \in Fresh(items) /\ items' = Fresh(items) \ {taken'}
        BY <1>3, <2>3 DEF Take, Best
      <3>2. IsFiniteSet(items') /\ Cardinality(items') = Cardinality(Fresh(items)) - 1
        BY <2>1, <3>1, FS_RemoveElement
      <3> QED
        BY <1>0, <2>1, <2>2, <3>1, <3>2 DEF TypeOK, Bounded
    <2>4. CASE Fresh(items) = {}
      <3>1. taken' = taken /\ items' = {}
        BY <1>3, <2>4 DEF Take
      <3> QED
        BY <1>0, <2>2, <3>1 DEF TypeOK, Bounded
    <2> QED
      BY <2>3, <2>4
  <1>4. CASE Look
    <2>1. items' \subseteq items /\ IsFiniteSet(items')
          /\ Cardinality(items') \in Nat /\ Cardinality(items') <= Cardinality(items)
      BY <1>0, <1>4, FreshIsSubset DEF Look
    <2> QED
      BY <1>0, <1>4, <2>1 DEF Look, TypeOK, Bounded
  <1>5. CASE BumpEpoch
    BY <1>0, <1>5 DEF BumpEpoch, TypeOK, Bounded
  <1>6. CASE Clear
    BY <1>0, <1>6 DEF Clear, TypeOK, Bounded
  <1>7. CASE Close
    <2>1. consumer' \in [Consumers -> Phases]
      BY <1>7 DEF Close, TypeOK, Phases
    <2> QED
      BY <1>0, <1>7, <2>1 DEF Close, TypeOK, Bounded
  <1>8. CASE Reopen
    <2>1. ~closed' /\ closed' \in BOOLEAN
      BY <1>8 DEF Reopen
    <2>2. /\ items' = {} /\ now' = now /\ epoch' = epoch /\ grab' = grab
          /\ consumer' = consumer /\ taken' = taken
      BY <1>8 DEF Reopen
    <2> QED
      BY <1>0, <2>1, <2>2 DEF TypeOK, Bounded
  <1>9. CASE Tick
    BY <1>0, <1>9 DEF Tick, TypeOK, Bounded
  <1>10. CASE UNCHANGED vars
    BY <1>10 DEF vars, TypeOK, Bounded
  <1> QED
    BY <1>1, <1>2, <1>3, <1>4, <1>5, <1>6, <1>7, <1>8, <1>9, <1>10 DEF Next

(* Types and the bound, for every reachable state. *)
LEMMA TypesAndBoundInvariant == Spec => []TypesAndBound
  BY InitTypesAndBound, NextTypesAndBound, PTL DEF Spec

(* FrameBuffer's variables have their types whatever the threads do. *)
THEOREM TypeCorrect == Spec => []TypeOK
  <1>1. TypesAndBound => TypeOK
    BY DEF TypesAndBound
  <1> QED
    BY <1>1, TypesAndBoundInvariant, PTL

(* The buffer never holds more than its capacity, and nothing once closed:    *)
(* one eviction per put() is enough.                                          *)
THEOREM CapacityKept == Spec => []Bounded
  <1>1. TypesAndBound => Bounded
    BY DEF TypesAndBound
  <1> QED
    BY <1>1, TypesAndBoundInvariant, PTL
--------------------------------------------------------------------------------
(* What a step leaves in the buffer was there, or is the frame offered under  *)
(* the epoch in force.                                                        *)
LEMMA ItemsComeFromPut ==
    ASSUME TypesAndBound, [Next]_vars
    PROVE  \/ items' \subseteq items /\ (items' = {} \/ epoch' = epoch)
           \/ \E c : /\ c.under = grab.under /\ c.at = grab.at
                    /\ grab.busy /\ grab' = NoGrab
                    /\ grab.under = epoch /\ epoch' = epoch /\ now' = now
                    /\ items' \subseteq items \cup {c}
  <1>0. IsFiniteSet(items) /\ Cardinality(items) <= Capacity
    BY DEF TypesAndBound, TypeOK, Bounded
  <1>1. Fresh(items) \subseteq items
    BY DEF Fresh
  <1>2. ASSUME NEW score \in Scores \cup {Unmeasured}, Put(score),
               items' # items
        PROVE  \E c : /\ c.under = grab.under /\ c.at = grab.at
                     /\ grab.busy /\ grab' = NoGrab
                     /\ grab.under = epoch /\ epoch' = epoch /\ now' = now
                     /\ items' \subseteq items \cup {c}
    <2> DEFINE c == [at |-> grab.at, score |-> score, under |-> grab.under]
    <2>1. /\ items' \in Kept(Fresh(items) \cup {c})
          /\ grab.busy /\ grab' = NoGrab
          /\ grab.under = epoch /\ epoch' = epoch /\ now' = now
      BY <1>2 DEF Put
    <2>2. c.under = grab.under /\ c.at = grab.at
      OBVIOUS
    <2> HIDE DEF c
    <2>3. items' \subseteq items \cup {c}
      BY <1>0, <2>1, KeptIsBounded
    <2> QED
      BY <2>1, <2>2, <2>3
  <1>3. ASSUME NEW c \in Consumers, Take(c)
        PROVE  items' \subseteq items /\ epoch' = epoch
    BY <1>1, <1>3 DEF Take
  <1> QED
    BY <1>1, <1>2, <1>3
    DEF Next, vars, BeginGrab, Put, Look, BumpEpoch, Clear, Close, Reopen, Tick

(* No frame whose grab began under an earlier epoch is ever in the buffer:    *)
(* after a change of the detection criteria or a new print, what was buffered *)
(* and what was in flight are both gone.                                      *)
THEOREM OnlyCurrentEpoch == Spec => []HeldIsCurrent
  <1>1. Init => HeldIsCurrent
    BY DEF Init, HeldIsCurrent
  <1>2. TypesAndBound /\ HeldIsCurrent /\ [Next]_vars => HeldIsCurrent'
    BY ItemsComeFromPut DEF HeldIsCurrent
  <1> QED
    BY <1>1, <1>2, TypesAndBoundInvariant, PTL DEF Spec

(* No two candidates have the same capture time, so the best and the worst of *)
(* them are unique: the frame in flight is newer than everything held.        *)
THEOREM CapturesAreDistinct == Spec => []DistinctCaptures
  <1>1. Init => DistinctCaptures
    BY DEF Init, DistinctCaptures
  <1>2. TypesAndBound /\ DistinctCaptures /\ [Next]_vars => DistinctCaptures'
    <2> SUFFICES ASSUME TypesAndBound, DistinctCaptures, [Next]_vars
                 PROVE  DistinctCaptures'
      OBVIOUS
    <2>1. /\ now \in Nat /\ grab.at \in Nat /\ grab.at <= now
          /\ \A c \in items : c.at \in Nat
      BY DEF TypesAndBound, TypeOK, Candidate
    <2>2. CASE BeginGrab
      BY <2>1, <2>2 DEF BeginGrab, DistinctCaptures
    <2>3. CASE ~BeginGrab
      <3>1. /\ now' = now \/ now' = now + 1
            /\ grab' = grab \/ grab' = NoGrab
        BY <2>3
        DEF Next, vars, Put, Take, Look, BumpEpoch, Clear, Close, Reopen, Tick
      <3>2. CASE items' \subseteq items
        BY <2>1, <3>1, <3>2 DEF DistinctCaptures, NoGrab
      <3>3. ASSUME NEW c, c.at = grab.at, grab.busy, grab' = NoGrab, now' = now,
                   items' \subseteq items \cup {c}
            PROVE  DistinctCaptures'
        BY <2>1, <3>1, <3>3 DEF DistinctCaptures, NoGrab
      <3> QED
        BY <3>2, <3>3, ItemsComeFromPut
    <2> QED
      BY <2>2, <2>3
  <1> QED
    BY <1>1, <1>2, TypesAndBoundInvariant, PTL DEF Spec

(* close() wakes every consumer, and one that calls take() afterwards returns *)
(* at once: nobody waits for a sampler that is gone.                          *)
THEOREM ClosedWakesAll == Spec => []NobodySleepsOnClosed
  <1>1. Init => NobodySleepsOnClosed
    BY DEF Init, NobodySleepsOnClosed
  <1>2. TypesAndBound /\ NobodySleepsOnClosed /\ [Next]_vars
           => NobodySleepsOnClosed'
    <2> SUFFICES ASSUME TypesAndBound, NobodySleepsOnClosed, [Next]_vars, closed',
                        NEW d \in Consumers
                 PROVE  consumer'[d] # "waiting"
      BY DEF NobodySleepsOnClosed, Waiting
    <2>1. consumer \in [Consumers -> Phases]
      BY DEF TypesAndBound, TypeOK
    <2>2. closed => consumer[d] # "waiting"
      BY DEF NobodySleepsOnClosed, Waiting
    <2>3. ASSUME NEW score \in Scores \cup {Unmeasured}, Put(score)
          PROVE  consumer'[d] # "waiting"
      BY <2>2, <2>3 DEF Put
    <2>4. ASSUME NEW c \in Consumers, Take(c)
          PROVE  consumer'[d] # "waiting"
      BY <2>1, <2>2, <2>4 DEF Take
    <2>5. CASE Close
      BY <2>1, <2>5 DEF Close
    <2> QED
      BY <2>2, <2>3, <2>4, <2>5
      DEF Next, vars, BeginGrab, Look, BumpEpoch, Clear, Reopen, Tick
  <1> QED
    BY <1>1, <1>2, TypesAndBoundInvariant, PTL DEF Spec
--------------------------------------------------------------------------------
LEMMA NotifiedIsFinite ==
    IsFiniteSet(Notified) /\ Cardinality(Notified) \in Nat
  <1>1. Notified \in SUBSET Consumers
    BY DEF Notified
  <1>2. IsFiniteSet(Notified)
    BY <1>1, FS_Subset, ConstantsAssumption
  <1> QED
    BY <1>2, FS_CardinalityType

(* put() adds at most one candidate, and wakes one consumer if one sleeps. *)
LEMMA PutKeepsWakeups ==
    ASSUME TypesAndBound, NoLostWakeup, NEW score \in Scores \cup {Unmeasured},
           Put(score)
    PROVE  NoLostWakeup'
  <1> DEFINE cand == [at |-> grab.at, score |-> score, under |-> grab.under]
  <1>1. CASE closed \/ grab.under # epoch
    <2>1. items' = items /\ consumer' = consumer
      BY <1>1 DEF Put
    <2> QED
      BY <2>1 DEF NoLostWakeup, Waiting, Notified
  <1>2. CASE ~(closed \/ grab.under # epoch)
    <2>1. items' \in Kept(Fresh(items) \cup {cand}) /\ NotifyOne
      BY <1>2 DEF Put
    <2> HIDE DEF cand
    <2>2. /\ IsFiniteSet(items) /\ Cardinality(items) <= Capacity
          /\ Cardinality(items) \in Nat
      BY FS_CardinalityType DEF TypesAndBound, TypeOK, Bounded
    <2>3. IsFiniteSet(items') /\ Cardinality(items') <= Cardinality(items) + 1
      BY <2>1, <2>2, KeptIsBounded
    <2>4. Cardinality(items') \in Nat
      BY <2>3, FS_CardinalityType
    <2>5. CASE Waiting = {}
      <3>1. Waiting' = {}
        BY <2>1, <2>5 DEF NotifyOne, Waiting
      <3> QED
        BY <3>1 DEF NoLostWakeup
    <2>6. CASE Waiting # {}
      <3>1. PICK d \in Waiting : consumer' = [consumer EXCEPT ![d] = "notified"]
        BY <2>1, <2>6 DEF NotifyOne
      <3>2. d \notin Notified /\ Notified' = Notified \cup {d}
        BY <3>1 DEF TypesAndBound, TypeOK, Waiting, Notified
      <3>3. Cardinality(Notified') = Cardinality(Notified) + 1
        BY <3>2, NotifiedIsFinite, FS_AddElement
      <3>4. Cardinality(items) <= Cardinality(Notified)
        BY <2>6 DEF NoLostWakeup
      <3> QED
        BY <2>2, <2>3, <2>4, <3>3, <3>4, NotifiedIsFinite DEF NoLostWakeup
    <2> QED
      BY <2>5, <2>6
  <1> QED
    BY <1>1, <1>2

(* A consumer that stops being awake has taken a candidate, or found none. *)
LEMMA TakeKeepsWakeups ==
    ASSUME TypesAndBound, NoLostWakeup, NEW c \in Consumers, Take(c)
    PROVE  NoLostWakeup'
  <1>1. /\ Fresh(items) \subseteq items /\ IsFiniteSet(Fresh(items))
        /\ Cardinality(Fresh(items)) \in Nat /\ Cardinality(items) \in Nat
        /\ Cardinality(Fresh(items)) <= Cardinality(items)
    BY FreshIsSubset DEF TypesAndBound, TypeOK
  <1>2. consumer \in [Consumers -> Phases]
    BY DEF TypesAndBound, TypeOK
  <1>3. CASE Fresh(items) = {}
    <2>1. items' = {} /\ consumer' \in [Consumers -> Phases]
      BY <1>2, <1>3 DEF Take, Phases
    <2>2. Notified' \in SUBSET Consumers
      BY DEF Notified
    <2>3. IsFiniteSet(Notified')
      BY <2>2, FS_Subset, ConstantsAssumption
    <2>4. Cardinality(Notified') \in Nat /\ Cardinality(items') = 0
      BY <2>1, <2>3, FS_CardinalityType, FS_EmptySet
    <2> QED
      BY <2>4 DEF NoLostWakeup
  <1>4. CASE Fresh(items) # {}
    <2>1. /\ taken' \in Fresh(items) /\ items' = Fresh(items) \ {taken'}
          /\ consumer' = [consumer EXCEPT ![c] = "idle"]
      BY <1>4 DEF Take, Best
    <2>2. Cardinality(items') = Cardinality(Fresh(items)) - 1
      BY <1>1, <2>1, FS_RemoveElement
    <2>3. Waiting' \subseteq Waiting /\ Notified' = Notified \ {c}
      BY <1>2, <2>1 DEF Waiting, Notified
    <2>4. Cardinality(Notified') >= Cardinality(Notified) - 1
          /\ Cardinality(Notified') \in Nat
      <3>1. IsFiniteSet(Notified \ {c})
            /\ Cardinality(Notified \ {c}) = IF c \in Notified
                                            THEN Cardinality(Notified) - 1
                                            ELSE Cardinality(Notified)
        BY NotifiedIsFinite, FS_RemoveElement
      <3>2. Cardinality(Notified \ {c}) \in Nat
        BY <3>1, FS_CardinalityType
      <3> QED
        BY <2>3, <3>1, <3>2, NotifiedIsFinite
    <2> QED
      BY <1>1, <2>2, <2>3, <2>4, NotifiedIsFinite DEF NoLostWakeup
  <1> QED
    BY <1>3, <1>4

(* Every other step takes candidates away and leaves who is awake awake. *)
LEMMA OthersKeepWakeups ==
    ASSUME TypesAndBound, NoLostWakeup,
           BeginGrab \/ Look \/ BumpEpoch \/ Clear \/ Close \/ Reopen \/ Tick
             \/ UNCHANGED vars
    PROVE  NoLostWakeup'
  <1>1. CASE BumpEpoch \/ Clear \/ Close \/ Reopen
    <2>1. items' = {}
      BY <1>1 DEF BumpEpoch, Clear, Close, Reopen
    <2>2. Notified' \in SUBSET Consumers
      BY DEF Notified
    <2>3. IsFiniteSet(Notified')
      BY <2>2, FS_Subset, ConstantsAssumption
    <2>4. Cardinality(Notified') \in Nat /\ Cardinality(items') = 0
      BY <2>1, <2>3, FS_CardinalityType, FS_EmptySet
    <2> QED
      BY <2>4 DEF NoLostWakeup
  <1>2. CASE Look
    <2>1. items' = Fresh(items) /\ consumer' = consumer
      BY <1>2 DEF Look
    <2>2. /\ Cardinality(items') <= Cardinality(items)
          /\ Cardinality(items') \in Nat /\ Cardinality(items) \in Nat
      BY <2>1, FreshIsSubset DEF TypesAndBound, TypeOK
    <2>3. Waiting' = Waiting /\ Notified' = Notified
      BY <2>1 DEF Waiting, Notified
    <2> QED
      BY <2>2, <2>3, NotifiedIsFinite DEF NoLostWakeup
  <1>3. CASE BeginGrab \/ Tick \/ UNCHANGED vars
    <2>1. items' = items /\ consumer' = consumer
      BY <1>3 DEF BeginGrab, Tick, vars
    <2> QED
      BY <2>1 DEF NoLostWakeup, Waiting, Notified
  <1> QED
    BY <1>1, <1>2, <1>3

(* Between put()'s notify() and take()'s wait() no wake-up is lost, for any   *)
(* number of consumers: candidates never pile up before sleeping consumers.   *)
THEOREM WakeupsAreKept == Spec => []NoLostWakeup
  <1>1. Init => NoLostWakeup
    BY DEF Init, NoLostWakeup, Waiting
  <1>2. TypesAndBound /\ NoLostWakeup /\ [Next]_vars => NoLostWakeup'
    BY PutKeepsWakeups, TakeKeepsWakeups, OthersKeepWakeups DEF Next
  <1> QED
    BY <1>1, <1>2, TypesAndBoundInvariant, PTL DEF Spec
--------------------------------------------------------------------------------
(* take() hands out the best candidate that is not too old, of the epoch in   *)
(* force, whatever the score order and ties.                                  *)
THEOREM BestIsTaken == Spec => TakesBestEligible
  <1> DEFINE Step == taken' # taken =>
                       /\ taken' \in items
                       /\ taken'.at >= now - MaxAge
                       /\ taken'.under = epoch
                       /\ \A c \in items \ {taken'} :
                             c.at >= now - MaxAge => Below(c, taken')
  <1>1. HeldIsCurrent /\ [Next]_vars => [Step]_vars
    <2> SUFFICES ASSUME HeldIsCurrent, [Next]_vars, taken' # taken
                 PROVE  Step
      OBVIOUS
    <2>1. PICK c \in Consumers : Take(c)
      BY DEF Next, vars, BeginGrab, Put, Look, BumpEpoch, Clear, Close, Reopen, Tick
    <2>2. taken' \in Best(Fresh(items))
      BY <2>1 DEF Take
    <2> QED
      BY <2>2 DEF Best, Fresh, HeldIsCurrent
  <1> QED
    BY <1>1, OnlyCurrentEpoch, PTL DEF Spec, TakesBestEligible

(* put() gives up a usable candidate only for Capacity better usable ones.    *)
(* That the new one is usable itself follows from its being the newest: it is *)
(* not too old if the one given up is not.                                    *)
THEOREM EvictionIsFair == Spec => EvictsOnlyWhenFull
  <1> DEFINE Step == grab.busy /\ ~grab'.busy =>
                       \A c \in Fresh(items) \ items' :
                          /\ Cardinality(items') = Capacity
                          /\ \A d \in items' : d.at >= now - MaxAge /\ Below(c, d)
  <1>1. TypesAndBound /\ DistinctCaptures /\ [Next]_vars => [Step]_vars
    <2> SUFFICES ASSUME TypesAndBound, DistinctCaptures, [Next]_vars, grab.busy, ~grab'.busy,
                        NEW c \in Fresh(items), c \notin items'
                 PROVE  /\ Cardinality(items') = Capacity
                        /\ \A d \in items' : d.at >= now - MaxAge /\ Below(c, d)
      OBVIOUS
    <2>1. PICK score \in Scores \cup {Unmeasured} : Put(score)
      BY DEF Next, vars, BeginGrab, Take, Look, BumpEpoch, Clear, Close, Reopen, Tick
    <2> DEFINE new == [at |-> grab.at, score |-> score, under |-> grab.under]
               T == Fresh(items) \cup {new}
    <2>2. items' \in Kept(T)
      BY <2>1 DEF Put, Fresh
    <2>3. grab.at <= now /\ grab.at \in Nat /\ now \in Nat
      BY DEF TypesAndBound, TypeOK
    <2>4. /\ IsFiniteSet(items) /\ Cardinality(items) <= Capacity
          /\ IsFiniteSet(Fresh(items))
          /\ Cardinality(Fresh(items)) \in Nat /\ Cardinality(items) \in Nat
          /\ Cardinality(Fresh(items)) <= Cardinality(items)
      BY FreshIsSubset DEF TypesAndBound, TypeOK, Bounded
    <2>11. new.at >= now - MaxAge
      BY <2>3, ConstantsAssumption DEF Fresh, DistinctCaptures, TypesAndBound, TypeOK,
                                       Candidate
    <2> HIDE DEF new
    <2>5. /\ IsFiniteSet(T)
          /\ Cardinality(T) = IF new \in Fresh(items) THEN Cardinality(Fresh(items))
                              ELSE Cardinality(Fresh(items)) + 1
      BY <2>4, FS_AddElement
    <2>6. Cardinality(T) > Capacity /\ \E d \in Worst(T) : items' = T \ {d}
      BY <2>2 DEF Kept
    <2>7. c \in Worst(T) /\ items' = T \ {c}
      BY <2>6 DEF Worst
    <2>8. Cardinality(items') = Cardinality(T) - 1
      BY <2>5, <2>7, FS_RemoveElement
    <2>9. Cardinality(items') = Capacity
      BY <2>4, <2>5, <2>6, <2>8, ConstantsAssumption
    <2>10. \A d \in items' : d.at >= now - MaxAge /\ Below(c, d)
      BY <2>11, <2>7 DEF Worst, Fresh
    <2> QED
      BY <2>9, <2>10
  <1> QED
    BY <1>1, TypesAndBoundInvariant, CapturesAreDistinct, PTL DEF Spec, EvictsOnlyWhenFull
================================================================================
