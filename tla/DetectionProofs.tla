-------------------------- MODULE DetectionProofs --------------------------
(***************************************************************************)
(* What the detector makes of its frames, for every warm-up, window        *)
(* length, ratio and number of saves: the verdict of FailureWindow is the  *)
(* one the whole history gives, and FramePipeline never scores a frame     *)
(* under other criteria than those it was begun under.                     *)
(***************************************************************************)
EXTENDS FailureWindow, FramePipeline, FiniteSetTheorems, FunctionTheorems,
        SequenceTheorems, TLAPS

(* The failure window *)

\* s is the end of t: what is left when entries are taken off the front.
EndOf(s, t) ==
    /\ Len(s) <= Len(t)
    /\ \A i \in 1..Len(s) : s[i] = t[Len(t) - Len(s) + i]

\* What EndOf leaves out is older than the cutoff.
OldBefore(s, t, cutoff) ==
    \A i \in 1..(Len(t) - Len(s)) : t[i].at < cutoff

InOrder(s) == \A i, j \in 1..Len(s) : i <= j => s[i].at <= s[j].at

\* The deque is the end of the log, what it has forgotten is too old to count, and
\* the warm-up clock and the frame counter are those of the log.
WindowInv ==
    /\ WindowTypeOK
    /\ InOrder(log)
    /\ \A i \in 1..Len(log) : log[i].at <= now
    /\ EndOf(entries, log)
    /\ OldBefore(entries, log, now - countTime)
    /\ frames = Len(log)
    /\ frames > 0 => startedAt = log[1].at

LEMMA LeastOf ==
    ASSUME NEW S \in SUBSET Nat, S # {}
    PROVE  \E n \in S : \A m \in S : n <= m
  <1> DEFINE R == {ss \in Nat \X Nat : ss[1] < ss[2]}
  <1>1. IsWellFoundedOn(R, Nat)
    BY NatLessThanWellFounded DEF OpToRel
  <1>2. \E n \in S : \A m \in S : ~ (<<m, n>> \in R)
    <2> HIDE DEF R
    <2> QED
      BY <1>1, WFMin
  <1>3. \A m, n \in S : <<m, n>> \in R <=> m < n
    OBVIOUS
  <1>4. PICK n \in S : \A m \in S : ~ (m < n)
    BY <1>2, <1>3
  <1>5. QED
    BY <1>4

LEMMA EntryFields ==
    ASSUME NEW t \in Seq(Entry), NEW i \in 1..Len(t)
    PROVE  t[i] \in Entry /\ t[i].at \in Nat
  <1>1. t[i] \in Entry
    OBVIOUS
  <1>2. QED
    BY <1>1 DEF Entry

\* Popping what is too old from the left leaves the end, and nothing too old in it.
LEMMA PruneKeepsEnd ==
    ASSUME NEW es \in Seq(Entry), NEW cutoff \in Int, InOrder(es)
    PROVE  /\ Prune(es, cutoff) \in Seq(Entry)
           /\ EndOf(Prune(es, cutoff), es)
           /\ OldBefore(Prune(es, cutoff), es, cutoff)
           /\ \A i \in 1..Len(Prune(es, cutoff)) : Prune(es, cutoff)[i].at >= cutoff
  <1> DEFINE n == Len(es)
             f == FirstKept(es, cutoff)
             S == {i \in 1..(n + 1) : i <= n => es[i].at >= cutoff}
             Kept(i) == /\ \A j \in 1..(i - 1) : es[j].at < cutoff
                        /\ i <= n => es[i].at >= cutoff
  <1>0. n \in Nat /\ \A i \in 1..n : es[i] \in Entry /\ es[i].at \in Nat
    BY EntryFields
  <1>1. \E i \in 1..(n + 1) : Kept(i)
    <2>1. S \in SUBSET Nat /\ n + 1 \in S
      BY <1>0
    <2>2. PICK i \in S : \A m \in S : i <= m
      BY <2>1, LeastOf
    <2>3. \A j \in 1..(i - 1) : es[j].at < cutoff
      BY <1>0, <2>2
    <2>4. QED
      BY <2>2, <2>3
  <1>2. f \in 1..(n + 1) /\ Kept(f)
    BY <1>1 DEF FirstKept
  <1> HIDE DEF f
  <1>3. /\ Prune(es, cutoff) \in Seq(Entry)
        /\ Len(Prune(es, cutoff)) = n - f + 1
        /\ \A i \in 1..(n - f + 1) : Prune(es, cutoff)[i] = es[f + i - 1]
    <2>1. Prune(es, cutoff) = SubSeq(es, f, n)
      BY DEF Prune, f
    <2>2. \A i \in f..n : es[i] \in Entry
      BY <1>0, <1>2
    <2>3. QED
      BY <1>0, <1>2, <2>1, <2>2, SubSeqProperties
  <1> DEFINE p == Prune(es, cutoff)
  <1>4. Len(p) \in Nat /\ n - Len(p) = f - 1
    BY <1>0, <1>2, <1>3
  <1>5. EndOf(p, es)
    <2>1. \A i \in 1..Len(p) : p[i] = es[n - Len(p) + i]
      BY <1>0, <1>2, <1>3, <1>4
    <2>2. QED
      BY <1>0, <1>2, <1>4, <2>1 DEF EndOf
  <1>6. OldBefore(p, es, cutoff)
    BY <1>2, <1>4 DEF OldBefore
  <1>7. ASSUME NEW i \in 1..Len(p)
        PROVE  p[i].at >= cutoff
    <2>1. /\ f \in 1..n /\ f + i - 1 \in 1..n /\ f <= f + i - 1
          /\ p[i] = es[f + i - 1]
      BY <1>0, <1>2, <1>3, <1>4
    <2>2. es[f].at <= es[f + i - 1].at
      BY <2>1 DEF InOrder
    <2>3. QED
      BY <1>0, <1>2, <2>1, <2>2
  <1>8. QED
    BY <1>3, <1>5, <1>6, <1>7

LEMMA EndOfEnd ==
    ASSUME NEW r \in Seq(Entry), NEW s \in Seq(Entry), NEW t \in Seq(Entry),
           NEW c \in Int, NEW d \in Int, c <= d,
           EndOf(r, s), OldBefore(r, s, d), EndOf(s, t), OldBefore(s, t, c)
    PROVE  EndOf(r, t) /\ OldBefore(r, t, d)
  <1>1. Len(r) \in Nat /\ Len(s) \in Nat /\ Len(t) \in Nat
    OBVIOUS
  <1>2. \A i \in 1..Len(t) : t[i].at \in Nat
    BY EntryFields
  <1>3. EndOf(r, t)
    BY <1>1 DEF EndOf
  <1>4. ASSUME NEW i \in 1..(Len(t) - Len(r))
        PROVE  t[i].at < d
    <2>1. CASE i <= Len(t) - Len(s)
      <3>1. i \in 1..(Len(t) - Len(s))
        BY <1>1, <2>1
      <3>2. t[i].at < c
        BY <3>1 DEF OldBefore
      <3>3. t[i].at \in Nat
        BY <1>1, <1>2, <2>1
      <3>4. QED
        BY <3>2, <3>3
    <2>2. CASE i > Len(t) - Len(s)
      <3> DEFINE j == i - (Len(t) - Len(s))
      <3>1. j \in 1..(Len(s) - Len(r)) /\ j \in 1..Len(s)
        BY <1>1, <2>2 DEF EndOf
      <3>2. s[j] = t[i]
        BY <1>1, <3>1 DEF EndOf
      <3>3. QED
        BY <3>1, <3>2 DEF OldBefore
    <2>3. QED
      BY <1>1, <2>1, <2>2
  <1>5. QED
    BY <1>3, <1>4 DEF OldBefore

LEMMA EndInOrder ==
    ASSUME NEW s \in Seq(Entry), NEW t \in Seq(Entry), EndOf(s, t), InOrder(t)
    PROVE  InOrder(s)
  <1>1. Len(s) \in Nat /\ Len(t) \in Nat
    OBVIOUS
  <1>2. QED
    BY <1>1 DEF EndOf, InOrder

LEMMA AppendKeepsEnd ==
    ASSUME NEW s \in Seq(Entry), NEW t \in Seq(Entry), NEW e \in Entry, NEW c \in Int,
           EndOf(s, t), OldBefore(s, t, c)
    PROVE  EndOf(Append(s, e), Append(t, e)) /\ OldBefore(Append(s, e), Append(t, e), c)
  <1>1. Len(s) \in Nat /\ Len(t) \in Nat
    OBVIOUS
  <1>2. /\ Len(Append(s, e)) = Len(s) + 1 /\ Len(Append(t, e)) = Len(t) + 1
        /\ \A i \in 1..Len(s) : Append(s, e)[i] = s[i]
        /\ \A i \in 1..Len(t) : Append(t, e)[i] = t[i]
        /\ Append(s, e)[Len(s) + 1] = e /\ Append(t, e)[Len(t) + 1] = e
    BY AppendProperties
  <1>3. OldBefore(Append(s, e), Append(t, e), c)
    BY <1>1, <1>2 DEF EndOf, OldBefore
  <1>4. ASSUME NEW i \in 1..(Len(s) + 1)
        PROVE  Append(s, e)[i] = Append(t, e)[Len(t) - Len(s) + i]
    BY <1>1, <1>2 DEF EndOf
  <1>5. EndOf(Append(s, e), Append(t, e))
    <2> DEFINE ss == Append(s, e)
               tt == Append(t, e)
    <2>1. /\ Len(ss) <= Len(tt) /\ Len(tt) - Len(ss) = Len(t) - Len(s)
          /\ Len(ss) = Len(s) + 1
      BY <1>1, <1>2 DEF EndOf
    <2>2. \A i \in 1..Len(ss) : ss[i] = tt[Len(tt) - Len(ss) + i]
      BY <1>4, <2>1
    <2> HIDE DEF ss, tt
    <2>3. EndOf(ss, tt)
      BY <2>1, <2>2 DEF EndOf
    <2>4. QED
      BY <2>3 DEF ss, tt
  <1>6. QED
    BY <1>3, <1>5

\* What counts of the log is what the window holds.
LEMMA EndCounts ==
    ASSUME NEW s \in Seq(Entry), NEW t \in Seq(Entry), NEW c \in Int,
           EndOf(s, t), OldBefore(s, t, c), \A i \in 1..Len(s) : s[i].at >= c
    PROVE  LET inTime == {i \in DOMAIN t : t[i].at >= c}
           IN  /\ Cardinality(inTime) = Len(s)
               /\ Cardinality({i \in inTime : t[i].alarming}) = AlarmingIn(s)
  <1> DEFINE inTime == {i \in DOMAIN t : t[i].at >= c}
             k == Len(t) - Len(s)
             mine == {i \in DOMAIN s : s[i].alarming}
             all == {i \in inTime : t[i].alarming}
             move == [i \in mine |-> k + i]
  <1>1. Len(s) \in Nat /\ Len(t) \in Nat /\ k \in Nat
    BY DEF EndOf
  <1>2. DOMAIN s = 1..Len(s) /\ DOMAIN t = 1..Len(t)
    OBVIOUS
  <1>3. \A i \in 1..Len(t) : t[i].at \in Nat
    BY EntryFields
  <1>4. inTime = (k + 1)..Len(t)
    <2>1. \A i \in 1..k : t[i].at < c
      BY DEF OldBefore
    <2>2. ASSUME NEW i \in (k + 1)..Len(t)
          PROVE  t[i].at >= c
      <3>1. i - k \in 1..Len(s) /\ t[i] = s[i - k]
        BY <1>1 DEF EndOf
      <3>2. QED
        BY <3>1
    <2>3. QED
      BY <1>1, <1>2, <1>3, <2>1, <2>2
  <1>5. Cardinality(inTime) = Len(s)
    <2>1. k + 1 \in Int /\ Len(t) \in Int /\ Len(t) - (k + 1) + 1 = Len(s)
          /\ (k + 1 > Len(t) => Len(s) = 0)
      BY <1>1
    <2>2. Cardinality((k + 1)..Len(t)) = Len(s)
      <3> HIDE DEF k
      <3>1. Cardinality((k + 1)..Len(t))
               = IF k + 1 > Len(t) THEN 0 ELSE Len(t) - (k + 1) + 1
        BY <2>1, FS_Interval
      <3>2. QED
        BY <2>1, <3>1
    <2> HIDE DEF inTime
    <2>3. QED
      BY <1>4, <2>2
  <1>6. Cardinality(all) = Cardinality(mine)
    <2>1. IsFiniteSet(mine)
      <3>1. IsFiniteSet(1..Len(s)) /\ mine \in SUBSET (1..Len(s))
        BY <1>1, <1>2, FS_Interval
      <3>2. QED
        BY <3>1, FS_Subset
    <2>2. move \in [mine -> all]
      BY <1>1, <1>2, <1>4 DEF EndOf
    <2>3. \A a, b \in mine : move[a] = move[b] => a = b
      BY <1>1, <1>2
    <2>4. ASSUME NEW j \in all
          PROVE  \E i \in mine : move[i] = j
      <3>1. j - k \in 1..Len(s) /\ t[j] = s[j - k]
        BY <1>1, <1>4 DEF EndOf
      <3>2. j - k \in mine /\ move[j - k] = j
        BY <1>1, <1>2, <1>4, <3>1
      <3>3. QED
        BY <3>2
    <2>5. move \in Bijection(mine, all)
      <3> HIDE DEF move, mine, all
      <3> QED
        BY <2>2, <2>3, <2>4, Fun_IsBij
    <2>6. ExistsBijection(mine, all)
      BY <2>5 DEF ExistsBijection
    <2>7. QED
      BY <2>1, <2>6, FS_Bijection
  <1>7. QED
    BY <1>5, <1>6 DEF AlarmingIn

LEMMA AlarmingType ==
    ASSUME NEW s \in Seq(Entry)
    PROVE  AlarmingIn(s) \in Nat
  <1>1. IsFiniteSet(1..Len(s)) /\ {i \in DOMAIN s : s[i].alarming} \in SUBSET (1..Len(s))
    BY FS_Interval
  <1>2. QED
    BY <1>1, FS_Subset, FS_CardinalityType DEF AlarmingIn

\* What a step that judges a frame does, and the verdict it gives.
Reference(judgedLog, t, ct, r) ==
    LET inTime == {i \in DOMAIN judgedLog : judgedLog[i].at >= t - ct}
        alarming == {i \in inTime : judgedLog[i].alarming}
    IN  [judged |-> TRUE,
         met |-> /\ Len(judgedLog) >= MinFrames
                 /\ t - judgedLog[1].at >= MinSeconds
                 /\ RatioReached(Cardinality(alarming), Cardinality(inTime)),
         alarming |-> Cardinality(alarming),
         total |-> Cardinality(inTime)]

LEMMA JudgeStep ==
    ASSUME WindowInv, NEW alarming \in BOOLEAN, NEW d \in 0..MaxSkew, Judge(alarming, d)
    PROVE  /\ WindowInv' /\ countTime' = countTime
           /\ verdict' = Reference(log', now', countTime, ratio)
  <1> USE WindowAssumption
  <1> DEFINE entry == [at |-> now, alarming |-> alarming]
             started == IF startedAt = NotStarted THEN now ELSE startedAt
             longer == Append(entries, entry)
             before == now - countTime
             after == now + d - countTime
             added == Prune(longer, before)
             kept == Prune(added, after)
  <1>1. /\ now \in Nat /\ countTime \in Nat /\ d \in Nat /\ now + d \in Nat
        /\ before \in Int /\ after \in Int /\ before <= after
        /\ entry \in Entry /\ entry.at = now
        /\ entries \in Seq(Entry) /\ log \in Seq(Entry) /\ frames \in Nat
    BY DEF WindowInv, WindowTypeOK, Entry
  <1>2. /\ now' = now + d /\ startedAt' = started /\ frames' = frames + 1
        /\ entries' = kept /\ verdict' = Decide(kept, frames + 1, started, now + d)
        /\ log' = Append(log, entry) /\ countTime' = countTime /\ ratio' = ratio
    BY DEF Judge
  <1> HIDE DEF entry, started, before, after
  <1>3. /\ log' \in Seq(Entry) /\ Len(log') = Len(log) + 1
        /\ \A i \in 1..Len(log) : log'[i] = log[i]
        /\ log'[Len(log) + 1] = entry
    BY <1>1, <1>2, AppendProperties
  <1>4. InOrder(log') /\ \A i \in 1..Len(log') : log'[i].at <= now'
    <2>1. \A i \in 1..Len(log) : log[i].at \in Nat /\ log[i].at <= now
      <3>1. \A i \in 1..Len(log) : log[i].at \in Nat
        BY <1>1, EntryFields
      <3>2. QED
        BY <3>1 DEF WindowInv
    <2>2. Len(log) \in Nat
      BY <1>1
    <2>3. \A i \in 1..Len(log') : log'[i].at \in Nat /\ log'[i].at <= now
      BY <1>1, <1>3, <2>1, <2>2
    <2>4. InOrder(log')
      <3>1. ASSUME NEW i \in 1..Len(log'), NEW j \in 1..Len(log'), i <= j
            PROVE  log'[i].at <= log'[j].at
        <4>1. CASE j <= Len(log)
          <5>1. i \in 1..Len(log) /\ j \in 1..Len(log)
            BY <1>3, <2>2, <3>1, <4>1
          <5>2. log'[i] = log[i] /\ log'[j] = log[j]
            BY <1>3, <5>1
          <5>3. QED
            BY <3>1, <5>1, <5>2 DEF WindowInv, InOrder
        <4>2. CASE j = Len(log) + 1
          BY <1>1, <1>3, <2>3, <4>2
        <4>3. QED
          BY <1>3, <2>2, <4>1, <4>2
      <3>2. QED
        BY <3>1 DEF InOrder
    <2>5. QED
      BY <1>1, <1>2, <2>3, <2>4
  <1>5. longer \in Seq(Entry) /\ EndOf(longer, log') /\ OldBefore(longer, log', before)
    BY <1>1, <1>2, AppendKeepsEnd DEF WindowInv, before
  <1> HIDE DEF longer
  <1>6. /\ added \in Seq(Entry) /\ EndOf(added, log') /\ OldBefore(added, log', before)
    <2>1. InOrder(longer)
      BY <1>3, <1>4, <1>5, EndInOrder
    <2>2. /\ added \in Seq(Entry) /\ EndOf(added, longer)
          /\ OldBefore(added, longer, before)
      BY <1>1, <1>5, <2>1, PruneKeepsEnd
    <2> HIDE DEF added
    <2>3. QED
      BY <1>1, <1>3, <1>5, <2>2, EndOfEnd
  <1> HIDE DEF added
  <1>7. /\ kept \in Seq(Entry) /\ EndOf(kept, log') /\ OldBefore(kept, log', after)
        /\ \A i \in 1..Len(kept) : kept[i].at >= after
    <2>1. InOrder(added)
      BY <1>3, <1>4, <1>6, EndInOrder
    <2>2. /\ kept \in Seq(Entry) /\ EndOf(kept, added) /\ OldBefore(kept, added, after)
          /\ \A i \in 1..Len(kept) : kept[i].at >= after
      BY <1>1, <1>6, <2>1, PruneKeepsEnd
    <2> HIDE DEF kept
    <2>3. QED
      BY <1>1, <1>3, <1>6, <2>2, EndOfEnd
  <1> HIDE DEF kept
  <1>8. started = log'[1].at /\ started \in 0..now /\ started # NotStarted
    <2>1. CASE frames = 0
      <3>1. startedAt = NotStarted /\ Len(log) = 0
        BY <2>1 DEF WindowInv, WindowTypeOK
      <3>2. QED
        BY <1>1, <1>3, <3>1 DEF started, NotStarted
    <2>2. CASE frames # 0
      <3>1. startedAt # NotStarted /\ startedAt = log[1].at /\ 1 \in 1..Len(log)
            /\ startedAt \in 0..now
        BY <1>1, <2>2 DEF WindowInv, WindowTypeOK
      <3>2. QED
        BY <1>1, <1>3, <3>1 DEF started, NotStarted
    <2>3. QED
      BY <2>1, <2>2
  <1>9. Decide(kept, frames + 1, started, now + d) = Reference(log', now', countTime, ratio)
    <2> DEFINE inTime == {i \in DOMAIN log' : log'[i].at >= after}
               hits == {i \in inTime : log'[i].alarming}
    <2>1. Cardinality(inTime) = Len(kept) /\ Cardinality(hits) = AlarmingIn(kept)
      BY <1>1, <1>3, <1>7, EndCounts
    <2>2. Len(log') = frames + 1
      BY <1>3 DEF WindowInv
    <2>3. Armed(frames + 1, started, now + d)
             <=> Len(log') >= MinFrames /\ now' - log'[1].at >= MinSeconds
      BY <1>2, <1>8, <2>2 DEF Armed
    <2>4. after = now' - countTime
      BY <1>1, <1>2 DEF after
    <2> HIDE DEF inTime, hits
    <2>5. Reference(log', now', countTime, ratio)
             = [judged |-> TRUE,
                met |-> /\ Len(log') >= MinFrames
                        /\ now' - log'[1].at >= MinSeconds
                        /\ RatioReached(Cardinality(hits), Cardinality(inTime)),
                alarming |-> Cardinality(hits),
                total |-> Cardinality(inTime)]
      BY <2>4, Zenon DEF Reference, inTime, hits
    <2>6. QED
      BY <2>1, <2>3, <2>5, Zenon DEF Decide
  <1>10. verdict' \in [judged : BOOLEAN, met : BOOLEAN, alarming : Nat, total : Nat]
    <2>1. AlarmingIn(kept) \in Nat /\ Len(kept) \in Nat
      BY <1>7, AlarmingType
    <2>2. (Armed(frames + 1, started, now + d) /\ RatioReached(AlarmingIn(kept), Len(kept)))
             \in BOOLEAN
      BY Zenon DEF Armed
    <2>3. QED
      BY <1>2, <2>1, <2>2 DEF Decide
  <1>11. WindowTypeOK'
    <2>1. startedAt' \in {NotStarted} \cup 0..now'
      BY <1>1, <1>2, <1>8
    <2>2. startedAt' # NotStarted /\ frames' # 0
      BY <1>1, <1>2, <1>8
    <2>3. QED
      BY <1>1, <1>2, <1>3, <1>7, <1>10, <2>1, <2>2 DEF WindowInv, WindowTypeOK
  <1>12. frames' = Len(log')
    BY <1>2, <1>3 DEF WindowInv
  <1>13. WindowInv'
    <2>1. OldBefore(entries', log', now' - countTime')
      <3>1. after = now' - countTime'
        BY <1>1, <1>2 DEF after
      <3>2. QED
        BY <1>2, <1>7, <3>1
    <2>2. QED
      BY <1>2, <1>4, <1>7, <1>8, <1>11, <1>12, <2>1 DEF WindowInv
  <1>14. QED
    BY <1>2, <1>9, <1>13

LEMMA ResetKeepsWindow ==
    ASSUME WindowInv, Reset, UNCHANGED now, countTime' \in CountTimes, ratio' \in Ratios
    PROVE  WindowInv'
  <1> USE DEF WindowInv
  <1>1. log' = <<>> /\ entries' = <<>> /\ frames' = 0 /\ startedAt' = NotStarted
        /\ verdict' = NoVerdict /\ now' = now /\ now \in Nat
    BY DEF Reset, WindowTypeOK
  <1>2. verdict' \in [judged : BOOLEAN, met : BOOLEAN, alarming : Nat, total : Nat]
    BY <1>1 DEF NoVerdict
  <1>3. log' \in Seq(Entry) /\ entries' \in Seq(Entry) /\ Len(log') = 0 /\ Len(entries') = 0
    BY <1>1
  <1>4. WindowTypeOK'
    BY <1>1, <1>2, <1>3 DEF WindowTypeOK
  <1>5. InOrder(log') /\ EndOf(entries', log')
        /\ OldBefore(entries', log', now' - countTime')
    BY <1>3 DEF InOrder, EndOf, OldBefore
  <1>6. QED
    BY <1>1, <1>3, <1>4, <1>5

LEMMA KeepingKeepsWindow ==
    ASSUME WindowInv, UNCHANGED <<entries, startedAt, frames, log, countTime>>,
           now' \in Nat, now <= now', ratio' \in Ratios,
           verdict' \in [judged : BOOLEAN, met : BOOLEAN, alarming : Nat, total : Nat]
    PROVE  WindowInv'
  <1> USE WindowAssumption
  <1>1. now \in Nat /\ countTime \in Nat
    BY DEF WindowInv, WindowTypeOK
  <1>2. WindowTypeOK'
    BY <1>1 DEF WindowInv, WindowTypeOK
  <1>3. \A i \in 1..Len(log) : log[i].at \in Nat
    BY EntryFields DEF WindowInv, WindowTypeOK
  <1>4. \A i \in 1..Len(log) : log[i].at <= now'
    BY <1>1, <1>3 DEF WindowInv
  <1>5. OldBefore(entries, log, now' - countTime)
    <2>1. Len(log) \in Nat /\ Len(entries) \in Nat
      BY DEF WindowInv, WindowTypeOK
    <2>2. \A i \in 1..(Len(log) - Len(entries)) : log[i].at < now - countTime
      BY DEF WindowInv, OldBefore
    <2>3. ASSUME NEW i \in 1..(Len(log) - Len(entries))
          PROVE  log[i].at < now' - countTime
      <3>1. i \in 1..Len(log)
        BY <2>1
      <3>2. QED
        BY <1>1, <1>3, <2>2, <3>1
    <2>4. QED
      BY <2>3 DEF OldBefore
  <1>6. QED
    BY <1>2, <1>4, <1>5 DEF WindowInv

LEMMA WindowStep ==
    ASSUME WindowInv, [WindowNext]_windowVars
    PROVE  /\ WindowInv'
           /\ frames' = frames + 1 => /\ countTime' = countTime
                                      /\ verdict' = Reference(log', now', countTime, ratio)
  <1> USE WindowAssumption
  <1>0. /\ now \in Nat /\ frames \in Nat /\ countTime \in CountTimes /\ ratio \in Ratios
        /\ NoVerdict \in [judged : BOOLEAN, met : BOOLEAN, alarming : Nat, total : Nat]
        /\ verdict \in [judged : BOOLEAN, met : BOOLEAN, alarming : Nat, total : Nat]
    BY DEF WindowInv, WindowTypeOK, NoVerdict
  <1>1. CASE \E alarming \in BOOLEAN, d \in 0..MaxSkew : Judge(alarming, d)
    BY <1>1, JudgeStep
  <1>2. ASSUME NEW c \in CountTimes, NEW r \in Ratios, NEW o \in BOOLEAN, Refresh(c, r, o)
        PROVE  WindowInv' /\ frames' # frames + 1
    <2>1. now' = now /\ ratio' = r /\ countTime' = c
      BY <1>2 DEF Refresh
    <2>2. CASE c # countTime \/ o
      <3>1. Reset
        BY <1>2, <2>2 DEF Refresh
      <3>2. WindowInv'
        BY <2>1, <3>1, ResetKeepsWindow
      <3>3. QED
        BY <1>0, <3>1, <3>2 DEF Reset
    <2>3. CASE ~(c # countTime \/ o)
      <3>1. verdict' = NoVerdict /\ UNCHANGED <<entries, startedAt, frames, log>>
        BY <1>2, <2>3 DEF Refresh
      <3>2. QED
        BY <1>0, <2>1, <2>3, <3>1, KeepingKeepsWindow
    <2>4. QED
      BY <2>2, <2>3
  <1>3. ASSUME NEW fresh \in BOOLEAN, Start(fresh)
        PROVE  WindowInv' /\ frames' # frames + 1
    <2>1. now' = now /\ ratio' = ratio /\ countTime' = countTime
      BY <1>3 DEF Start
    <2>2. CASE fresh
      <3>1. Reset
        BY <1>3, <2>2 DEF Start
      <3>2. WindowInv'
        BY <1>0, <2>1, <3>1, ResetKeepsWindow
      <3>3. QED
        BY <1>0, <3>1, <3>2 DEF Reset
    <2>3. CASE ~fresh
      <3>1. verdict' = NoVerdict /\ UNCHANGED <<entries, startedAt, frames, log>>
        BY <1>3, <2>3 DEF Start
      <3>2. QED
        BY <1>0, <2>1, <3>1, KeepingKeepsWindow
    <2>4. QED
      BY <2>2, <2>3
  <1>4. CASE Tick
    BY <1>0, <1>4, KeepingKeepsWindow DEF Tick
  <1>5. CASE UNCHANGED windowVars
    BY <1>0, <1>5, KeepingKeepsWindow DEF windowVars
  <1>6. QED
    BY <1>1, <1>2, <1>3, <1>4, <1>5 DEF WindowNext

LEMMA WindowInitInv == WindowInit => WindowInv
  <1> SUFFICES ASSUME WindowInit PROVE WindowInv
    OBVIOUS
  <1>1. log \in Seq(Entry) /\ entries \in Seq(Entry) /\ Len(log) = 0 /\ Len(entries) = 0
    BY DEF WindowInit
  <1>2. WindowTypeOK
    BY <1>1, WindowAssumption DEF WindowInit, WindowTypeOK, NoVerdict, NotStarted
  <1>3. QED
    BY <1>1, <1>2 DEF WindowInit, WindowInv, InOrder, EndOf, OldBefore

\* The window always has its types, for every choice of the settings and bounds.
THEOREM WindowTypeCorrect == WindowSpec => []WindowTypeOK
  <1>1. WindowInv => WindowTypeOK
    BY DEF WindowInv
  <1>2. WindowInv /\ [WindowNext]_windowVars => WindowInv'
    BY WindowStep
  <1>3. QED
    BY <1>1, <1>2, WindowInitInv, PTL DEF WindowSpec

\* The deque never loses an entry that still counts and never invents one: it is the
\* end of all that was recorded since the last reset.
THEOREM WindowIsEndOfLog ==
    WindowSpec => [](EndOf(entries, log) /\ OldBefore(entries, log, now - countTime))
  <1>1. WindowInv => EndOf(entries, log) /\ OldBefore(entries, log, now - countTime)
    BY DEF WindowInv
  <1>2. WindowInv /\ [WindowNext]_windowVars => WindowInv'
    BY WindowStep
  <1>3. QED
    BY <1>1, <1>2, WindowInitInv, PTL DEF WindowSpec

\* Pruning on both sides of a clock that moves, resets and changed settings never
\* make decide() answer anything else than the whole history does.
THEOREM VerdictIsOfHistory == WindowSpec => VerdictIsReference
  <1>1. WindowInv /\ [WindowNext]_windowVars => WindowInv'
    BY WindowStep
  <1>2. WindowInv /\ [WindowNext]_windowVars
          => [frames' = frames + 1 =>
                verdict' = [judged |-> TRUE,
                            met |-> /\ Len(log') >= MinFrames
                                    /\ now' - log'[1].at >= MinSeconds
                                    /\ RatioReached(Cardinality(Alarming'),
                                                    Cardinality(InTime')),
                            alarming |-> Cardinality(Alarming'),
                            total |-> Cardinality(InTime')]]_windowVars
    <2> SUFFICES ASSUME WindowInv, [WindowNext]_windowVars, frames' = frames + 1
                 PROVE  verdict' = [judged |-> TRUE,
                            met |-> /\ Len(log') >= MinFrames
                                    /\ now' - log'[1].at >= MinSeconds
                                    /\ RatioReached(Cardinality(Alarming'),
                                                    Cardinality(InTime')),
                            alarming |-> Cardinality(Alarming'),
                            total |-> Cardinality(InTime')]
      OBVIOUS
    <2>1. countTime' = countTime /\ verdict' = Reference(log', now', countTime, ratio)
      BY WindowStep
    <2>2. QED
      BY <2>1, Zenon DEF Reference, InTime, Alarming
  <1>3. QED
    BY <1>1, <1>2, WindowInitInv, PTL DEF WindowSpec, VerdictIsReference

-----------------------------------------------------------------------------
(* The pipeline *)

\* A buffer that was not yet made is empty, and each refresh makes at most one and
\* bumps the current one's epoch at most once.
BuffersAreCounted ==
    /\ cur <= applied.generation + 1 /\ applied.generation <= saved.generation
    /\ \A b \in Buffers : b > cur => bufs[b] = EmptyBuffer
    /\ sampler.buf <= cur
    /\ \A b \in Buffers : bufs[b].epoch <= applied.generation
    /\ loop.pc = "criteria" => bufs[cur].epoch < applied.generation

\* The sampler never holds an epoch its buffer has not reached; while it is still
\* the epoch of the current buffer, the criteria have not changed since.
InFlightIsCurrent ==
    /\ sampler.epoch <= bufs[sampler.buf].epoch
    /\ sampler.pc = "grab" /\ sampler.buf = cur /\ sampler.epoch = bufs[cur].epoch
          => sampler.begun = applied.criteria

\* What can still be taken, or has been taken and not yet scored, was begun under
\* the criteria in force.
HeldIsBegunUnderCriteria ==
    /\ \A c \in bufs[cur].items : c = applied.criteria
    /\ loop.pc = "score" => loop.candidate = applied.criteria

PipelineInv ==
    /\ PipelineTypeOK
    /\ BuffersAreCounted
    /\ sampler.pc = "grab" => InFlightIsCurrent
    /\ HeldIsBegunUnderCriteria
    /\ ScoredBegunUnderCriteria

LEMMA PipelineInitInv == PipelineInit => PipelineInv
  <1> SUFFICES ASSUME PipelineInit PROVE PipelineInv
    OBVIOUS
  <1>1. PICK k \in Capacities :
            saved = [generation |-> 0, criteria |-> 0, capacity |-> k, enabled |-> TRUE]
    BY DEF PipelineInit
  <1>2. PipelineTypeOK
    <2>1. 0 \in Versions /\ 1 \in Buffers
      BY PipelineAssumption DEF Versions, Buffers
    <2>2. saved \in Settings /\ applied \in Settings /\ slot \in BOOLEAN
      BY <1>1, <2>1 DEF PipelineInit, Settings
    <2>3. bufs \in [Buffers -> [epoch : Versions, items : SUBSET Versions]]
      BY <2>1 DEF PipelineInit, EmptyBuffer
    <2>4. QED
      BY <2>1, <2>2, <2>3 DEF PipelineInit, PipelineTypeOK
  <1>3. BuffersAreCounted /\ HeldIsBegunUnderCriteria /\ ScoredBegunUnderCriteria
    BY <1>1, PipelineAssumption DEF PipelineInit, BuffersAreCounted, HeldIsBegunUnderCriteria,
       ScoredBegunUnderCriteria, Buffers, EmptyBuffer
  <1>4. QED
    BY <1>2, <1>3 DEF PipelineInit, PipelineInv

\* A step that leaves the settings and the buffers alone.
LEMMA SamplerStep ==
    ASSUME PipelineInv, UNCHANGED <<saved, applied, bufs, cur, loop, scored>>,
           slot' \in BOOLEAN,
           sampler' \in [pc : {"wait", "got", "pinned", "grab"}, begun : Versions,
                         buf : Buffers, epoch : Versions],
           sampler'.buf <= cur, sampler'.pc = "grab" => InFlightIsCurrent'
    PROVE  PipelineInv'
  <1>1. PipelineTypeOK'
    BY DEF PipelineInv, PipelineTypeOK
  <1>2. QED
    BY <1>1 DEF PipelineInv, BuffersAreCounted, HeldIsBegunUnderCriteria,
       ScoredBegunUnderCriteria

LEMMA PipelineStep ==
    ASSUME PipelineInv, [PipelineNext]_pipelineVars
    PROVE  PipelineInv'
  <1> USE PipelineAssumption
  <1>0. /\ saved \in Settings /\ applied \in Settings /\ slot \in BOOLEAN
        /\ sampler \in [pc : {"wait", "got", "pinned", "grab"}, begun : Versions,
                        buf : Buffers, epoch : Versions]
        /\ bufs \in [Buffers -> [epoch : Versions, items : SUBSET Versions]]
        /\ cur \in Buffers
        /\ loop \in [pc : {"top", "criteria", "take", "score"}, candidate : Versions,
                     criteria : Versions]
    BY DEF PipelineInv, PipelineTypeOK
  <1>a. /\ Versions \subseteq Nat /\ Buffers \subseteq Nat
        /\ applied.generation \in Versions /\ saved.generation \in Versions
        /\ \A b \in Buffers : bufs[b].epoch \in Versions /\ bufs[b].items \subseteq Versions
        /\ sampler.buf \in Buffers /\ sampler.epoch \in Versions
    BY <1>0 DEF Versions, Buffers, Settings
  <1>1. CASE Publish \/ SourceError
    BY <1>0, <1>1, SamplerStep DEF Publish, SourceError, PipelineInv, BuffersAreCounted,
       InFlightIsCurrent
  <1>2. CASE WaitNext
    <2>1. sampler' = [sampler EXCEPT !.pc = "got"]
      BY <1>2 DEF WaitNext
    <2>2. QED
      BY <1>0, <1>2, <2>1, SamplerStep DEF WaitNext, PipelineInv, BuffersAreCounted
  <1>3. CASE PinBuffer
    <2>1. sampler' = [sampler EXCEPT !.pc = "pinned", !.buf = cur]
      BY <1>3 DEF PinBuffer
    <2>2. sampler' \in [pc : {"wait", "got", "pinned", "grab"}, begun : Versions,
                        buf : Buffers, epoch : Versions]
          /\ sampler'.pc = "pinned" /\ sampler'.buf = cur
      BY <1>0, <2>1
    <2>3. QED
      BY <1>0, <1>a, <1>3, <2>2, SamplerStep DEF PinBuffer
  <1>4. CASE ReadEpoch
    <2>1. sampler' = [sampler EXCEPT !.pc = "grab", !.epoch = bufs[sampler.buf].epoch,
                                     !.begun = applied.criteria]
      BY <1>4 DEF ReadEpoch
    <2>2. applied.criteria \in Versions
      BY <1>0 DEF Settings
    <2>3. InFlightIsCurrent'
      BY <1>0, <1>a, <1>4, <2>1 DEF ReadEpoch, InFlightIsCurrent
    <2>4. QED
      BY <1>0, <1>a, <1>4, <2>1, <2>2, <2>3, SamplerStep DEF ReadEpoch, PipelineInv,
         BuffersAreCounted
  <1>5. ASSUME NEW usable \in BOOLEAN, Offer(usable)
        PROVE  PipelineInv'
    <2>1. sampler' = [sampler EXCEPT !.pc = "wait"] /\ sampler.pc = "grab"
          /\ UNCHANGED <<saved, applied, slot, cur, loop, scored>>
      BY <1>5 DEF Offer
    <2>2. CASE usable /\ bufs[sampler.buf].epoch = sampler.epoch
      <3>1. bufs' = [bufs EXCEPT ![sampler.buf].items = @ \cup {sampler.begun}]
        BY <1>5, <2>2 DEF Offer
      <3>2. sampler.begun \in Versions
        BY <1>0
      <3>3. /\ bufs' \in [Buffers -> [epoch : Versions, items : SUBSET Versions]]
            /\ \A b \in Buffers : bufs'[b].epoch = bufs[b].epoch
            /\ \A b \in Buffers : b # sampler.buf => bufs'[b] = bufs[b]
            /\ bufs'[sampler.buf].items = bufs[sampler.buf].items \cup {sampler.begun}
        BY <1>0, <1>a, <3>1, <3>2
      <3>4. PipelineTypeOK'
        BY <1>0, <2>1, <3>3 DEF PipelineInv, PipelineTypeOK
      <3>5. BuffersAreCounted'
        BY <1>0, <1>a, <2>1, <3>3 DEF PipelineInv, BuffersAreCounted
      <3>6. sampler.buf = cur => sampler.begun = applied.criteria
        BY <2>1, <2>2 DEF PipelineInv, InFlightIsCurrent
      <3>7. HeldIsBegunUnderCriteria'
        BY <1>0, <1>a, <2>1, <3>3, <3>6 DEF PipelineInv, HeldIsBegunUnderCriteria
      <3>8. QED
        BY <1>0, <2>1, <3>4, <3>5, <3>7 DEF PipelineInv, ScoredBegunUnderCriteria
    <2>3. CASE ~(usable /\ bufs[sampler.buf].epoch = sampler.epoch)
      <3>1. bufs' = bufs
        BY <1>5, <2>3 DEF Offer
      <3>2. QED
        BY <1>0, <2>1, <3>1, SamplerStep DEF PipelineInv, BuffersAreCounted
    <2>4. QED
      BY <2>2, <2>3
  <1>6. ASSUME NEW n \in BOOLEAN, NEW k \in Capacities, NEW e \in BOOLEAN, Save(n, k, e)
        PROVE  PipelineInv'
    <2>1. saved' \in Settings /\ saved'.generation = saved.generation + 1
          /\ UNCHANGED <<applied, slot, sampler, bufs, cur, loop, scored>>
      BY <1>0, <1>6 DEF Save, Settings, Versions
    <2>2. PipelineTypeOK'
      BY <1>0, <2>1 DEF PipelineInv, PipelineTypeOK
    <2>3. applied.generation <= saved'.generation
      <3>1. applied.generation \in Nat /\ saved.generation \in Nat
        BY <1>a
      <3>2. applied.generation <= saved.generation
        BY DEF PipelineInv, BuffersAreCounted
      <3>3. QED
        BY <2>1, <3>1, <3>2
    <2>4. BuffersAreCounted'
      BY <2>1, <2>3 DEF PipelineInv, BuffersAreCounted
    <2>5. QED
      BY <2>1, <2>2, <2>4 DEF PipelineInv, InFlightIsCurrent, HeldIsBegunUnderCriteria,
         ScoredBegunUnderCriteria
  <1>7. CASE RefreshBuffer
    <2>1. /\ applied' = [saved EXCEPT !.criteria = applied.criteria]
          /\ cur' = IF saved.capacity # applied.capacity THEN cur + 1 ELSE cur
          /\ loop' = [loop EXCEPT !.pc = IF saved.criteria # applied.criteria
                                         THEN "criteria" ELSE "take",
                                  !.criteria = saved.criteria]
          /\ UNCHANGED <<saved, slot, sampler, bufs, scored>>
          /\ loop.pc = "top" /\ applied.generation # saved.generation
      BY <1>7 DEF RefreshBuffer
    <2>2. applied' \in Settings /\ applied'.generation = saved.generation
          /\ applied'.criteria = applied.criteria
          /\ applied.generation + 1 <= saved.generation
      BY <1>0, <1>a, <2>1 DEF Settings, PipelineInv, BuffersAreCounted
    <2>3. cur' \in Buffers /\ cur <= cur' /\ cur' <= applied'.generation + 1
      <3>1. cur <= applied.generation + 1 /\ saved.generation <= MaxSaves
            /\ cur \in Nat \ {0} /\ applied.generation \in Nat /\ saved.generation \in Nat
        <4>1. cur <= applied.generation + 1
          BY DEF PipelineInv, BuffersAreCounted
        <4>2. cur \in Nat \ {0}
          BY <1>0 DEF PipelineInv, PipelineTypeOK, Buffers
        <4>3. saved.generation \in 0..MaxSaves /\ applied.generation \in 0..MaxSaves
          BY DEF PipelineInv, PipelineTypeOK, Settings, Versions
        <4>4. QED
          BY <4>1, <4>2, <4>3
      <3>2. cur' \in {cur, cur + 1}
        BY <2>1
      <3>3. cur' \in Nat \ {0} /\ cur <= cur' /\ cur' <= saved.generation + 1
        BY <2>2, <3>1, <3>2
      <3>4. MaxSaves \in Nat /\ saved.generation + 1 <= MaxSaves + 1
        BY <3>1
      <3>5. QED
        BY <2>2, <3>1, <3>3, <3>4 DEF Buffers
    <2>4. loop' \in [pc : {"top", "criteria", "take", "score"}, candidate : Versions,
                     criteria : Versions]
          /\ loop'.pc # "score"
      BY <1>0, <2>1 DEF Settings
    <2>5. PipelineTypeOK'
      BY <1>0, <2>1, <2>2, <2>3, <2>4 DEF PipelineInv, PipelineTypeOK
    <2>6. BuffersAreCounted'
      BY <1>0, <1>a, <2>1, <2>2, <2>3 DEF PipelineInv, BuffersAreCounted
    <2>7. \A c \in bufs[cur'].items : c = applied.criteria
      <3>1. CASE cur' = cur
        BY <3>1 DEF PipelineInv, HeldIsBegunUnderCriteria
      <3>2. CASE cur' # cur
        <4>1. bufs[cur'] = EmptyBuffer
          BY <1>0, <1>a, <2>3, <3>2 DEF PipelineInv, BuffersAreCounted
        <4>2. QED
          BY <4>1 DEF EmptyBuffer
      <3>3. QED
        BY <3>1, <3>2
    <2>8. sampler.pc = "grab" => InFlightIsCurrent'
      <3> SUFFICES ASSUME sampler.pc = "grab" PROVE InFlightIsCurrent'
        OBVIOUS
      <3>1. InFlightIsCurrent
        BY DEF PipelineInv
      <3>2. sampler.buf = cur' => cur' = cur
        BY <1>0, <1>a, <2>3 DEF PipelineInv, BuffersAreCounted
      <3>3. QED
        BY <2>1, <2>2, <3>1, <3>2 DEF InFlightIsCurrent
    <2>9. QED
      BY <2>1, <2>2, <2>4, <2>5, <2>6, <2>7, <2>8 DEF PipelineInv, HeldIsBegunUnderCriteria,
         ScoredBegunUnderCriteria
  <1>8. CASE RefreshCriteria
    <2>1. /\ applied' = [applied EXCEPT !.criteria = loop.criteria]
          /\ bufs' = [bufs EXCEPT ![cur] = [epoch |-> @.epoch + 1, items |-> {}]]
          /\ loop' = [loop EXCEPT !.pc = "take"]
          /\ UNCHANGED <<saved, slot, sampler, cur, scored>>
          /\ loop.pc = "criteria"
      BY <1>8 DEF RefreshCriteria
    <2>2. applied' \in Settings /\ applied'.generation = applied.generation
      BY <1>0, <2>1 DEF Settings
    <2>3. bufs[cur].epoch + 1 <= applied.generation /\ bufs[cur].epoch + 1 \in Versions
      BY <1>0, <1>a, <2>1 DEF PipelineInv, BuffersAreCounted, Versions
    <2>4. /\ bufs' \in [Buffers -> [epoch : Versions, items : SUBSET Versions]]
          /\ bufs'[cur].epoch = bufs[cur].epoch + 1 /\ bufs'[cur].items = {}
          /\ \A b \in Buffers : b # cur => bufs'[b] = bufs[b]
      BY <1>0, <2>1, <2>3
    <2>5. loop' \in [pc : {"top", "criteria", "take", "score"}, candidate : Versions,
                     criteria : Versions]
          /\ loop'.pc = "take"
      BY <1>0, <2>1
    <2>6. PipelineTypeOK'
      BY <1>0, <2>1, <2>2, <2>4, <2>5 DEF PipelineInv, PipelineTypeOK
    <2>7. BuffersAreCounted'
      BY <1>0, <1>a, <2>1, <2>2, <2>3, <2>4, <2>5 DEF PipelineInv, BuffersAreCounted
    <2>8. sampler.pc = "grab" => InFlightIsCurrent'
      BY <1>0, <1>a, <2>1, <2>4 DEF PipelineInv, InFlightIsCurrent
    <2>9. QED
      BY <2>1, <2>4, <2>5, <2>6, <2>7, <2>8 DEF PipelineInv, HeldIsBegunUnderCriteria,
         ScoredBegunUnderCriteria
  <1>9. CASE NothingToRefresh \/ Disabled \/ Starve
    <2>1. /\ UNCHANGED <<saved, applied, slot, sampler, bufs, cur, scored>>
          /\ loop' \in [pc : {"top", "criteria", "take", "score"}, candidate : Versions,
                        criteria : Versions]
          /\ loop'.pc \in {"take", "top"}
      BY <1>0, <1>9 DEF NothingToRefresh, Disabled, Starve
    <2>2. PipelineTypeOK'
      BY <1>0, <2>1 DEF PipelineInv, PipelineTypeOK
    <2>3. QED
      BY <2>1, <2>2 DEF PipelineInv, BuffersAreCounted, InFlightIsCurrent,
         HeldIsBegunUnderCriteria, ScoredBegunUnderCriteria
  <1>10. CASE TakeCandidate
    <2>1. PICK c \in bufs[cur].items :
              /\ bufs' = [bufs EXCEPT ![cur].items = @ \ {c}]
              /\ loop' = [loop EXCEPT !.pc = "score", !.candidate = c]
      BY <1>10 DEF TakeCandidate
    <2>2. UNCHANGED <<saved, applied, slot, sampler, cur, scored>> /\ c \in Versions
          /\ c = applied.criteria
      BY <1>0, <1>a, <1>10 DEF TakeCandidate, PipelineInv, HeldIsBegunUnderCriteria
    <2>3. /\ bufs' \in [Buffers -> [epoch : Versions, items : SUBSET Versions]]
          /\ \A b \in Buffers : bufs'[b].epoch = bufs[b].epoch
          /\ \A b \in Buffers : b # cur => bufs'[b] = bufs[b]
          /\ bufs'[cur].items \subseteq bufs[cur].items
      BY <1>0, <1>a, <2>1
    <2>4. loop' \in [pc : {"top", "criteria", "take", "score"}, candidate : Versions,
                     criteria : Versions]
          /\ loop'.pc = "score" /\ loop'.candidate = c
      BY <1>0, <2>1, <2>2
    <2>5. PipelineTypeOK'
      BY <1>0, <2>2, <2>3, <2>4 DEF PipelineInv, PipelineTypeOK
    <2>6. BuffersAreCounted'
      BY <1>0, <1>a, <2>2, <2>3, <2>4 DEF PipelineInv, BuffersAreCounted
    <2>7. sampler.pc = "grab" => InFlightIsCurrent'
      BY <1>0, <1>a, <2>2, <2>3 DEF PipelineInv, InFlightIsCurrent
    <2>8. QED
      BY <2>2, <2>3, <2>4, <2>5, <2>6, <2>7 DEF PipelineInv, HeldIsBegunUnderCriteria,
         ScoredBegunUnderCriteria
  <1>11. CASE Score
    <2>1. /\ UNCHANGED <<saved, applied, slot, sampler, bufs, cur>>
          /\ scored' = [begun |-> loop.candidate, criteria |-> applied.criteria]
          /\ loop.candidate = applied.criteria
          /\ loop' \in [pc : {"top", "criteria", "take", "score"}, candidate : Versions,
                        criteria : Versions]
          /\ loop'.pc = "top"
      <3>1. loop' = [loop EXCEPT !.pc = "top", !.candidate = 0] /\ 0 \in Versions
        BY <1>11 DEF Score, Versions
      <3>2. QED
        BY <1>0, <1>11, <3>1 DEF Score, PipelineInv, HeldIsBegunUnderCriteria
    <2>2. PipelineTypeOK'
      BY <1>0, <2>1 DEF PipelineInv, PipelineTypeOK, Settings
    <2>3. QED
      BY <2>1, <2>2 DEF PipelineInv, BuffersAreCounted, InFlightIsCurrent,
         HeldIsBegunUnderCriteria, ScoredBegunUnderCriteria
  <1>12. CASE UNCHANGED pipelineVars
    BY <1>12 DEF pipelineVars, PipelineInv, PipelineTypeOK, BuffersAreCounted,
       InFlightIsCurrent, HeldIsBegunUnderCriteria, ScoredBegunUnderCriteria
  <1>13. QED
    BY <1>1, <1>2, <1>3, <1>4, <1>5, <1>6, <1>7, <1>8, <1>9, <1>10, <1>11, <1>12
       DEF PipelineNext, Sample, Consume

\* The pipeline keeps its types; in particular no more buffers and epochs are made
\* than there were saves.
THEOREM PipelineTypeCorrect == PipelineSpec => []PipelineTypeOK
  <1>1. PipelineInv => PipelineTypeOK
    BY DEF PipelineInv
  <1>2. QED
    BY <1>1, PipelineInitInv, PipelineStep, PTL DEF PipelineSpec

\* However often the settings are saved and wherever the threads are then, no
\* candidate is scored under other criteria than those its decoding began under.
THEOREM ScoredUnderOwnCriteria == PipelineSpec => []ScoredBegunUnderCriteria
  <1>1. PipelineInv => ScoredBegunUnderCriteria
    BY DEF PipelineInv
  <1>2. QED
    BY <1>1, PipelineInitInv, PipelineStep, PTL DEF PipelineSpec

\* Nor is there ever one in the buffer the detector takes from.
THEOREM HeldUnderCriteria == PipelineSpec => []HeldIsBegunUnderCriteria
  <1>1. PipelineInv => HeldIsBegunUnderCriteria
    BY DEF PipelineInv
  <1>2. QED
    BY <1>1, PipelineInitInv, PipelineStep, PTL DEF PipelineSpec
=============================================================================
