------------------------------ MODULE FrameBuffer ------------------------------
(***************************************************************************)
(* framebuffer.py: the bounded, ageing cache of candidate frames between   *)
(* the sampler thread and the consumers, with its condition variable.      *)
(*                                                                         *)
(* The image is left out.  A candidate is its capture time, its sharpness  *)
(* score and, as history, the epoch its producer read before the grab.     *)
(* No two frames have the same capture time (one camera reader, monotonic  *)
(* clock), so the list of the code is a set.                               *)
(***************************************************************************)
EXTENDS Integers, FiniteSets

CONSTANTS
    Consumers,   \* threads that call take()
    Scores,      \* sharpness scores that are told apart
    Capacity,    \* max(1, capacity)
    MaxAge,      \* max_age
    MaxTime,     \* bound: the clock stops here
    MaxEpoch     \* bound: no bump past this epoch

ASSUME ConstantsAssumption ==
    /\ IsFiniteSet(Consumers)
    /\ Scores \subseteq Nat
    /\ Capacity \in Nat \ {0}
    /\ MaxAge \in Nat /\ MaxTime \in Nat /\ MaxEpoch \in Nat

VARIABLES
    now,        \* time.monotonic()
    items,      \* _items
    epoch,      \* _epoch
    closed,     \* _closed
    grab,       \* the producer's frame between reading epoch and put()
    consumer,   \* where each consumer is in take()
    taken       \* history: the last candidate handed out

vars == <<now, items, epoch, closed, grab, consumer, taken>>

Unmeasured == -1                                   \* -inf: below every score
Candidate == [at : Nat, score : Scores \cup {Unmeasured}, under : Nat]
NoGrab == [busy |-> FALSE, at |-> 0, under |-> 0]
NoCandidate == [at |-> 0, score |-> Unmeasured, under |-> 0]
Phases == {"idle", "waiting", "notified"}

Waiting == {c \in Consumers : consumer[c] = "waiting"}
Notified == {c \in Consumers : consumer[c] = "notified"}
--------------------------------------------------------------------------------
(* The order of min and max with key (score, captured_at). *)
Below(c, d) == c.score < d.score \/ (c.score = d.score /\ c.at < d.at)

Worst(S) == {c \in S : \A d \in S \ {c} : Below(c, d)}
Best(S) == {c \in S : \A d \in S \ {c} : Below(d, c)}

Fresh(S) == {c \in S : c.at >= now - MaxAge}       \* _expire

(* What put() keeps of the candidates.  The buffer never holds more than    *)
(* Capacity before, so it evicts at most one.                                *)
Kept(S) == IF Cardinality(S) > Capacity THEN {S \ {c} : c \in Worst(S)} ELSE {S}

(* Condition.notify: wakes one waiting consumer if there is one. *)
NotifyOne ==
    IF Waiting = {}
    THEN UNCHANGED consumer
    ELSE \E c \in Waiting : consumer' = [consumer EXCEPT ![c] = "notified"]
--------------------------------------------------------------------------------
Init ==
    /\ now = 0
    /\ items = {} /\ epoch = 0 /\ closed = FALSE
    /\ grab = NoGrab
    /\ consumer = [c \in Consumers |-> "idle"]
    /\ taken = NoCandidate

(* The producer reads the epoch, then starts on a frame captured now. *)
BeginGrab ==
    /\ ~grab.busy
    /\ now < MaxTime
    /\ now' = now + 1
    /\ grab' = [busy |-> TRUE, at |-> now + 1, under |-> epoch]
    /\ UNCHANGED <<items, epoch, closed, consumer, taken>>

(* Mutant: put() forgets notify(). *)
PutSilently(score) ==
    LET c == [at |-> grab.at, score |-> score, under |-> grab.under]
    IN  /\ grab.busy /\ grab' = NoGrab
        /\ IF closed \/ grab.under # epoch
           THEN UNCHANGED items
           ELSE items' \in Kept(Fresh(items) \cup {c})
        /\ UNCHANGED <<now, epoch, closed, consumer, taken>>

(* Mutant: put() evicts before it expires. *)
PutExpiringLast(score) ==
    LET c == [at |-> grab.at, score |-> score, under |-> grab.under]
    IN  /\ grab.busy
        /\ grab' = NoGrab
        /\ IF closed \/ grab.under # epoch
           THEN UNCHANGED <<items, consumer>>
           ELSE /\ \E kept \in Kept(items \cup {c}) : items' = Fresh(kept)
                /\ NotifyOne
        /\ UNCHANGED <<now, epoch, closed, taken>>

(* put() *)
Put(score) ==
    LET c == [at |-> grab.at, score |-> score, under |-> grab.under]
    IN  /\ grab.busy
        /\ grab' = NoGrab
        /\ IF closed \/ grab.under # epoch
           THEN UNCHANGED <<items, consumer>>
           ELSE /\ items' \in Kept(Fresh(items) \cup {c})
                /\ NotifyOne
        /\ UNCHANGED <<now, epoch, closed, taken>>

(* Mutant: take() does not expire first. *)
TakeUnexpired(c) ==
    /\ items # {}
    /\ taken' \in Best(items) /\ items' = items \ {taken'}
    /\ consumer' = [consumer EXCEPT ![c] = "idle"]
    /\ UNCHANGED <<now, epoch, closed, grab>>

(* One pass of the loop in take(): the call itself, or a wake-up of a       *)
(* consumer that was notified or whose wait() timed out.  A woken consumer  *)
(* may find that its deadline has passed meanwhile.                         *)
Take(c) ==
    LET fresh == Fresh(items)
        back == IF consumer[c] = "idle" THEN {"waiting"}
                ELSE IF consumer[c] = "notified" THEN {"waiting", "idle"}
                ELSE {"idle"}
    IN  /\ IF fresh # {}
           THEN /\ taken' \in Best(fresh)
                /\ items' = fresh \ {taken'}
                /\ consumer' = [consumer EXCEPT ![c] = "idle"]
           ELSE /\ items' = fresh
                /\ \E p \in IF closed THEN {"idle"} ELSE back :
                      consumer' = [consumer EXCEPT ![c] = p]
                /\ UNCHANGED taken
        /\ UNCHANGED <<now, epoch, closed, grab>>

(* should_measure() and depth(): only their expiry changes anything. *)
Look ==
    /\ items' = Fresh(items)
    /\ UNCHANGED <<now, epoch, closed, grab, consumer, taken>>

BumpEpoch ==
    /\ epoch < MaxEpoch
    /\ epoch' = epoch + 1
    /\ items' = {}
    /\ UNCHANGED <<now, closed, grab, consumer, taken>>

Clear ==
    /\ items' = {}
    /\ UNCHANGED <<now, epoch, closed, grab, consumer, taken>>

Close ==
    /\ closed' = TRUE
    /\ items' = {}
    /\ consumer' = [c \in Consumers |-> IF consumer[c] = "waiting"
                                        THEN "notified" ELSE consumer[c]]
    /\ UNCHANGED <<now, epoch, grab, taken>>

Reopen ==
    /\ closed' = FALSE
    /\ items' = {}
    /\ UNCHANGED <<now, epoch, grab, consumer, taken>>

Tick ==
    /\ now < MaxTime
    /\ now' = now + 1
    /\ UNCHANGED <<items, epoch, closed, grab, consumer, taken>>

Next ==
    \/ BeginGrab
    \/ \E score \in Scores \cup {Unmeasured} : Put(score)
    \/ \E c \in Consumers : Take(c)
    \/ Look \/ BumpEpoch \/ Clear \/ Close \/ Reopen
    \/ Tick

Spec == Init /\ [][Next]_vars
--------------------------------------------------------------------------------
(* Types; nothing is captured in the future or under an epoch yet to come. *)
TypeOK ==
    /\ now \in Nat
    /\ items \subseteq Candidate /\ IsFiniteSet(items)
    /\ epoch \in Nat
    /\ closed \in BOOLEAN
    /\ grab \in [busy : BOOLEAN, at : Nat, under : Nat]
    /\ grab.at <= now /\ grab.under <= epoch
    /\ consumer \in [Consumers -> Phases]
    /\ taken \in Candidate

(* Every candidate held was grabbed under the current epoch: what was in    *)
(* flight when the epoch moved never enters the buffer.                     *)
HeldIsCurrent == \A c \in items : c.under = epoch

(* Never more than Capacity candidates, and none once closed. *)
Bounded == Cardinality(items) <= Capacity /\ (closed => items = {})

(* No two candidates tie, so "the best" and "the worst" are unambiguous,    *)
(* and the frame in flight is newer than everything held.                   *)
DistinctCaptures ==
    /\ \A c, d \in items : c.at = d.at => c = d
    /\ \A c \in items : c.at <= now /\ (grab.busy => c.at < grab.at)

(* No wake-up is lost: while a consumer sleeps in take(), every candidate   *)
(* held has a consumer that was woken and is on its way to it.              *)
NoLostWakeup == Waiting # {} => Cardinality(items) <= Cardinality(Notified)

(* What take() hands out is the best of the candidates held that are not    *)
(* too old, and was grabbed under the epoch in force.                       *)
TakesBestEligible ==
    [][taken' # taken =>
          /\ taken' \in items
          /\ taken'.at >= now - MaxAge
          /\ taken'.under = epoch
          /\ \A c \in items \ {taken'} : c.at >= now - MaxAge => Below(c, taken')]_vars

(* put() drops a candidate that is not too old only when the buffer is full *)
(* of better ones that are not too old either: an old sharp frame never     *)
(* drives out a usable one.                                                 *)
EvictsOnlyWhenFull ==
    [][grab.busy /\ ~grab'.busy =>
          \A c \in Fresh(items) \ items' :
              /\ Cardinality(items') = Capacity
              /\ \A d \in items' : d.at >= now - MaxAge /\ Below(c, d)]_vars

(* Nobody sleeps on a closed buffer: take() returns at once, which is how a *)
(* consumer learns that the sampler is gone.                                *)
NobodySleepsOnClosed == closed => Waiting = {}
================================================================================
