----------------------------- MODULE FailureWindow -----------------------------
(***************************************************************************)
(* window.py: the sliding window of per-frame verdicts that decides when a *)
(* print has failed, together with the three callers that change it:       *)
(* Detector._score (one frame judged), Detector._refresh (settings saved)  *)
(* and Detector.start (a new print).                                       *)
(*                                                                         *)
(* Time is the monotonic clock in whole ticks.  The failure ratio is       *)
(* counted in tenths.  "log" is a history variable: every verdict recorded *)
(* since the last reset, including those the deque has already forgotten.  *)
(***************************************************************************)
EXTENDS Integers, Sequences, FiniteSets

CONSTANTS
    CountTimes,    \* values the setting count_time may take
    Ratios,        \* values the setting failure_ratio may take, in tenths
    MinFrames,     \* INIT_MIN_FRAMES
    MinSeconds,    \* INIT_MIN_SECONDS
    MaxTime,       \* bound: the clock stops here
    MaxFrames,     \* bound: frames judged since the last reset
    MaxSkew        \* bound: clock ticks between add() and decide()

ASSUME WindowAssumption ==
    /\ CountTimes \subseteq Nat /\ CountTimes # {}
    /\ Ratios \subseteq Nat /\ Ratios # {}
    /\ MinFrames \in Nat \ {0}
    /\ MinSeconds \in Nat
    /\ MaxTime \in Nat /\ MaxFrames \in Nat /\ MaxSkew \in Nat

VARIABLES
    now,         \* time.monotonic()
    countTime,   \* window.count_time
    ratio,       \* window.failure_ratio
    entries,     \* window._entries, oldest first
    startedAt,   \* window._started_at
    frames,      \* window._frames
    verdict,     \* what decide() returned for the frame just judged
    log          \* history: every verdict added since the last reset

windowVars == <<now, countTime, ratio, entries, startedAt, frames, verdict, log>>

NotStarted == -1
NoVerdict == [judged |-> FALSE, met |-> FALSE, alarming |-> 0, total |-> 0]

Entry == [at : Nat, alarming : BOOLEAN]
--------------------------------------------------------------------------------
(* _prune pops from the left while the oldest entry is too old. *)
FirstKept(es, cutoff) ==
    CHOOSE i \in 1..(Len(es) + 1) :
        /\ \A j \in 1..(i - 1) : es[j].at < cutoff
        /\ i <= Len(es) => es[i].at >= cutoff

Prune(es, cutoff) == SubSeq(es, FirstKept(es, cutoff), Len(es))

AlarmingIn(es) == Cardinality({i \in DOMAIN es : es[i].alarming})

Armed(n, started, t) ==
    /\ started # NotStarted
    /\ n >= MinFrames
    /\ t - started >= MinSeconds

(* ratio >= failure_ratio; an empty window has ratio 0 *)
RatioReached(alarming, total) ==
    IF total = 0 THEN ratio = 0 ELSE alarming * 10 >= ratio * total

Decide(es, n, started, t) ==
    [judged |-> TRUE,
     met |-> Armed(n, started, t) /\ RatioReached(AlarmingIn(es), Len(es)),
     alarming |-> AlarmingIn(es),
     total |-> Len(es)]
--------------------------------------------------------------------------------
WindowInit ==
    /\ now = 0
    /\ countTime \in CountTimes
    /\ ratio \in Ratios
    /\ entries = <<>> /\ startedAt = NotStarted /\ frames = 0
    /\ verdict = NoVerdict
    /\ log = <<>>

(* Mutant: reset() leaves the frame counter. *)
ResetKeepingFrames ==
    /\ entries' = <<>> /\ startedAt' = NotStarted
    /\ verdict' = NoVerdict /\ log' = <<>>
    /\ UNCHANGED frames

Reset ==
    /\ entries' = <<>>
    /\ startedAt' = NotStarted
    /\ frames' = 0
    /\ verdict' = NoVerdict
    /\ log' = <<>>

(* _score: window.add(alarming) at now, window.decide() d ticks later.  Each *)
(* reads the clock for itself, and each prunes.                              *)
Judge(alarming, d) ==
    LET entry == [at |-> now, alarming |-> alarming]
        started == IF startedAt = NotStarted THEN now ELSE startedAt
        added == Prune(Append(entries, entry), now - countTime)
        kept == Prune(added, now + d - countTime)
    IN  /\ frames < MaxFrames
        /\ now + d <= MaxTime
        /\ now' = now + d
        /\ startedAt' = started
        /\ frames' = frames + 1
        /\ entries' = kept
        /\ verdict' = Decide(kept, frames + 1, started, now + d)
        /\ log' = Append(log, entry)
        /\ UNCHANGED <<countTime, ratio>>

(* Mutant: a longer count_time keeps what the shorter one had pruned. *)
RefreshKeepingWindow(c, r, otherCriterion) ==
    /\ ratio' = r /\ countTime' = c
    /\ IF otherCriterion
       THEN Reset
       ELSE verdict' = NoVerdict /\ UNCHANGED <<entries, startedAt, frames, log>>
    /\ UNCHANGED now

(* _refresh: a new failure ratio moves the line and keeps the window; a new *)
(* count_time, or another criterion that changes what a verdict means       *)
(* (img_sensitivity, scores_threshold), empties it.                         *)
Refresh(c, r, otherCriterion) ==
    /\ ratio' = r
    /\ countTime' = c
    /\ IF c # countTime \/ otherCriterion
       THEN Reset
       ELSE /\ verdict' = NoVerdict
            /\ UNCHANGED <<entries, startedAt, frames, log>>
    /\ UNCHANGED now

(* Detector.start(fresh): a resume keeps the window, a new print empties it. *)
Start(fresh) ==
    /\ IF fresh
       THEN Reset
       ELSE /\ verdict' = NoVerdict
            /\ UNCHANGED <<entries, startedAt, frames, log>>
    /\ UNCHANGED <<now, countTime, ratio>>

(* Nothing is judged: a pause, a camera outage, inference under way. *)
Tick ==
    /\ now < MaxTime
    /\ now' = now + 1
    /\ UNCHANGED <<countTime, ratio, entries, startedAt, frames, verdict, log>>

WindowNext ==
    \/ \E alarming \in BOOLEAN, d \in 0..MaxSkew : Judge(alarming, d)
    \/ \E c \in CountTimes, r \in Ratios, o \in BOOLEAN : Refresh(c, r, o)
    \/ \E fresh \in BOOLEAN : Start(fresh)
    \/ Tick

WindowSpec == WindowInit /\ [][WindowNext]_windowVars
--------------------------------------------------------------------------------
(* Every value has its type, and the warm-up clock and the frame counter are *)
(* reset together: one is running exactly when the other has counted a frame. *)
WindowTypeOK ==
    /\ now \in Nat
    /\ countTime \in CountTimes
    /\ ratio \in Ratios
    /\ entries \in Seq(Entry)
    /\ startedAt \in {NotStarted} \cup 0..now
    /\ frames \in Nat
    /\ verdict \in [judged : BOOLEAN, met : BOOLEAN, alarming : Nat, total : Nat]
    /\ log \in Seq(Entry)
    /\ startedAt = NotStarted <=> frames = 0

(* The declarative meaning of a verdict, over everything recorded.         *)
InTime == {i \in DOMAIN log : log[i].at >= now - countTime}
Alarming == {i \in InTime : log[i].alarming}

(* The verdict decide() returns for a frame is the one the whole history   *)
(* gives: warmed up since the first frame recorded after the last reset,   *)
(* and the share of alarming frames among those of the last count_time at  *)
(* least the failure ratio.  Stated of the step that judges the frame.     *)
VerdictIsReference ==
    [][(frames' = frames + 1) =>
          verdict' = [judged |-> TRUE,
                      met |-> /\ Len(log') >= MinFrames
                              /\ now' - log'[1].at >= MinSeconds
                              /\ RatioReached(Cardinality(Alarming'),
                                              Cardinality(InTime')),
                      alarming |-> Cardinality(Alarming'),
                      total |-> Cardinality(InTime')]]_windowVars
================================================================================
