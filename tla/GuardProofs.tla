---------------------------- MODULE GuardProofs ----------------------------
(***************************************************************************)
(* What happens to a print that fails, for every setting, quota and number *)
(* of jobs: Episode acts once for each failure and keeps to its quota, and *)
(* PrintLifecycle acts on, counts and tells of the print it has judged.    *)
(***************************************************************************)
EXTENDS Episode, PrintLifecycle, FiniteSetTheorems, SequenceTheorems, TLAPS

(* The episode *)

\* Every failure alert that went out, and the one being sent, has been taken from the
\* quota, which is counted exactly while it matters.
QuotaIsSpentFirst ==
    Cap # 0 =>
        /\ alerts.sent <= Cap
        /\ wentOut <= alerts.sent
        /\ step = "send" => wentOut < alerts.sent

\* A thread inside the handler is there for a level above the one latched.
HandlesHigherLevel == step # "watch" => fired < want

\* An action carried out is latched, or about to be when the handler returns; and
\* after a save nothing counts as carried out until the next judgement.
DoneIsLatched ==
    \A a \in done :
        \/ a <= fired
        \/ step \in {"alert", "send"} /\ act.acted /\ a <= want

SavedSinceJudged == step \in {"check", "act"} /\ action # want => done = {}

EpisodeInv ==
    /\ EpisodeTypeOK
    /\ QuotaIsSpentFirst
    /\ HandlesHigherLevel
    /\ DoneIsLatched
    /\ SavedSinceJudged

LEMMA EpisodeInitInv == EpisodeInit => EpisodeInv
  <1> SUFFICES ASSUME EpisodeInit PROVE EpisodeInv
    OBVIOUS
  <1>1. 0 \in 0..MaxCount /\ 0 \in 0..2
    BY EpisodeAssumption
  <1>2. EpisodeTypeOK
    <2>1. alerts \in [sent : 0..MaxCount, gapOver : BOOLEAN]
      BY <1>1 DEF EpisodeInit
    <2>2. act \in [level : 0..2, acted : BOOLEAN]
      BY <1>1 DEF EpisodeInit, NoAct
    <2>3. camera \in [alerted : BOOLEAN,
                      notice : {"none", "sent", "muted", "failed", "suppressed"}]
      BY DEF EpisodeInit
    <2>4. QED
      BY <1>1, <2>1, <2>2, <2>3, EpisodeAssumption DEF EpisodeInit, EpisodeTypeOK, Levels, Armed
  <1>3. QED
    BY <1>2, EpisodeAssumption DEF EpisodeInit, EpisodeInv, QuotaIsSpentFirst,
       HandlesHigherLevel, DoneIsLatched, SavedSinceJudged

\* The types of all but the steps' own changes, for the steps below.
LEMMA EpisodeTypes ==
    ASSUME EpisodeTypeOK
    PROVE  /\ Actions \subseteq 0..2 /\ MaxCount \in Nat /\ Cap \in Nat /\ Cap < MaxCount
           /\ fired \in Int /\ want \in 0..2 /\ action \in 0..2
           /\ alerts.sent \in 0..MaxCount /\ alerts.gapOver \in BOOLEAN
           /\ wentOut \in 0..MaxCount
           /\ OneMore(wentOut) \in 0..MaxCount /\ OneMore(alerts.sent) \in 0..MaxCount
           /\ done \subseteq {1, 2}
           /\ act.level \in 0..2 /\ act.acted \in BOOLEAN
  BY EpisodeAssumption DEF EpisodeTypeOK, Levels, Armed, OneMore

LEMMA SpendIsCounted ==
    ASSUME EpisodeTypeOK, QuotaIsSpentFirst, WithinBudget, Spend
    PROVE  /\ alerts' \in [sent : 0..MaxCount, gapOver : BOOLEAN]
           /\ Cap # 0 => alerts'.sent = alerts.sent + 1 /\ alerts'.sent <= Cap
  <1>1. alerts' = [sent |-> OneMore(alerts.sent), gapOver |-> ~HasGap]
        /\ (Cap # 0 => alerts.sent < Cap)
    BY DEF Spend, WithinBudget
  <1>2. alerts.sent \in 0..MaxCount /\ OneMore(alerts.sent) \in 0..MaxCount
        /\ Cap \in Nat /\ MaxCount \in Nat /\ Cap < MaxCount
    BY EpisodeTypes
  <1>3. alerts' \in [sent : 0..MaxCount, gapOver : BOOLEAN]
    BY <1>1, <1>2, EpisodeAssumption
  <1>4. QED
    BY <1>1, <1>2, <1>3 DEF OneMore

\* The printer, the user and the clock.
LEMMA OutsideStep ==
    ASSUME EpisodeInv,
           \/ NewJob \/ Resume \/ EndPausedJob \/ ThreadEnds
           \/ \E j \in {"paused", "idle"} : LeavePrinting(j)
           \/ \E a \in Actions : SaveAction(a)
           \/ ToggleMute \/ GapElapses
           \/ UNCHANGED episodeVars
    PROVE  EpisodeInv'
  <1> USE EpisodeAssumption, EpisodeTypes DEF EpisodeInv
  <1>1. CASE NewJob
    <2>1. step = "watch"
      BY <1>1 DEF NewJob, EpisodeTypeOK
    <2>2. alerts' \in [sent : 0..MaxCount, gapOver : BOOLEAN] /\ alerts'.sent = 0
      BY <1>1 DEF NewJob
    <2>3. camera' \in [alerted : BOOLEAN,
                       notice : {"none", "sent", "muted", "failed", "suppressed"}]
      BY <1>1 DEF NewJob
    <2>4. EpisodeTypeOK'
      BY <1>1, <2>1, <2>2, <2>3 DEF NewJob, EpisodeTypeOK, Levels, Armed
    <2>5. QED
      BY <1>1, <2>1, <2>2, <2>4 DEF NewJob, QuotaIsSpentFirst, HandlesHigherLevel,
         DoneIsLatched, SavedSinceJudged
  <1>2. CASE Resume
    <2>1. camera' \in [alerted : BOOLEAN,
                       notice : {"none", "sent", "muted", "failed", "suppressed"}]
      BY <1>2 DEF Resume, EpisodeTypeOK
    <2>2. EpisodeTypeOK'
      BY <1>2, <2>1 DEF Resume, thread, EpisodeTypeOK
    <2>3. QED
      BY <1>2, <2>2 DEF Resume, thread, QuotaIsSpentFirst, HandlesHigherLevel, DoneIsLatched,
         SavedSinceJudged
  <1>3. CASE EndPausedJob \/ ThreadEnds \/ ToggleMute
             \/ \E j \in {"paused", "idle"} : LeavePrinting(j)
    <2>1. UNCHANGED <<thread, action, alerts, camera, wentOut>>
      BY <1>3 DEF EndPausedJob, ThreadEnds, ToggleMute, LeavePrinting, thread
    <2>2. EpisodeTypeOK'
      <3>1. muted' \in BOOLEAN
        BY <1>3, Zenon DEF EndPausedJob, ThreadEnds, ToggleMute, LeavePrinting, EpisodeTypeOK
      <3>2. /\ state' \in {"printing", "paused", "idle"} /\ run' \in {"off", "on", "stopping"}
            /\ step # "watch" => run' # "off"
        BY <1>3 DEF EndPausedJob, ThreadEnds, ToggleMute, LeavePrinting, EpisodeTypeOK
      <3>3. QED
        BY <2>1, <3>1, <3>2 DEF thread, EpisodeTypeOK
    <2>3. QED
      BY <2>1, <2>2 DEF thread, QuotaIsSpentFirst, HandlesHigherLevel, DoneIsLatched,
         SavedSinceJudged
  <1>4. CASE \E a \in Actions : SaveAction(a)
    <2>1. done' = {} /\ action' \in Actions
          /\ UNCHANGED <<state, run, step, met, fired, want, act, alerts, muted, camera,
                         everDone, wentOut>>
      BY <1>4 DEF SaveAction
    <2>2. EpisodeTypeOK'
      BY <2>1 DEF EpisodeTypeOK
    <2>3. QED
      BY <2>1, <2>2 DEF QuotaIsSpentFirst, HandlesHigherLevel, DoneIsLatched, SavedSinceJudged
  <1>5. CASE GapElapses
    <2>1. alerts' \in [sent : 0..MaxCount, gapOver : BOOLEAN] /\ alerts'.sent = alerts.sent
          /\ UNCHANGED <<state, run, thread, action, muted, camera, wentOut>>
      BY <1>5 DEF GapElapses, EpisodeTypeOK
    <2>2. EpisodeTypeOK'
      BY <2>1 DEF thread, EpisodeTypeOK
    <2>3. QED
      BY <2>1, <2>2 DEF thread, QuotaIsSpentFirst, HandlesHigherLevel, DoneIsLatched,
         SavedSinceJudged
  <1>6. CASE UNCHANGED episodeVars
    BY <1>6 DEF episodeVars, EpisodeTypeOK, QuotaIsSpentFirst, HandlesHigherLevel,
       DoneIsLatched, SavedSinceJudged
  <1>7. QED
    BY <1>1, <1>2, <1>3, <1>4, <1>5, <1>6

\* What the handler's return does, from either of the steps that end it.
LEMMA ReturnStep ==
    ASSUME EpisodeInv, NEW delivered \in BOOLEAN, Return(delivered),
           step \in {"alert", "send"}, done' = done
    PROVE  /\ fired' \in Levels /\ step' = "watch"
           /\ DoneIsLatched'
  <1> DEFINE handled == act.acted \/ (act.level = 0 /\ (delivered \/ ~HasChannel))
  <1>1. step' = "watch" /\ (handled => fired' = want) /\ (~handled => fired' = fired)
    BY Zenon DEF Return, Latch
  <1>2. act.acted => handled
    BY Zenon
  <1> HIDE DEF handled
  <1>3. fired \in Levels /\ want \in 0..2 /\ fired < want
    BY DEF EpisodeInv, EpisodeTypeOK, HandlesHigherLevel
  <1>4. fired' \in Levels
    BY <1>1, <1>3 DEF Levels
  <1>5. ASSUME NEW a \in done PROVE a <= fired'
    <2>1. a \in {1, 2}
      BY <1>5, EpisodeTypes DEF EpisodeInv
    <2>2. a <= fired \/ (act.acted /\ a <= want)
      BY <1>5 DEF EpisodeInv, DoneIsLatched
    <2>3. CASE handled
      BY <1>1, <1>3, <2>1, <2>2, <2>3 DEF Levels, Armed
    <2>4. CASE ~handled
      BY <1>1, <1>2, <2>2, <2>4
    <2>5. QED
      BY <2>3, <2>4
  <1>6. QED
    BY <1>1, <1>4, <1>5 DEF DoneIsLatched

LEMMA VerdictStep ==
    ASSUME EpisodeInv, NEW m \in BOOLEAN, Verdict(m)
    PROVE  EpisodeInv'
  <1> USE EpisodeAssumption, EpisodeTypes DEF EpisodeInv
  <1>1. /\ step = "watch" /\ met' = m /\ want' = action /\ run = "on"
        /\ UNCHANGED <<state, run, act, action, alerts, muted, camera, wentOut>>
    BY DEF Verdict
  <1>2. CASE ~m
    <2>1. fired' = Armed /\ done' = {} /\ everDone' = {} /\ step' = step
      BY <1>2 DEF Verdict
    <2>2. EpisodeTypeOK'
      BY <1>1, <2>1 DEF EpisodeTypeOK, Levels
    <2>3. QED
      BY <1>1, <2>1, <2>2 DEF QuotaIsSpentFirst, HandlesHigherLevel, DoneIsLatched,
         SavedSinceJudged
  <1>3. CASE m
    <2>1. step' = (IF fired = Armed \/ action > fired THEN "check" ELSE step)
          /\ UNCHANGED <<fired, done, everDone>>
      BY <1>3 DEF Verdict
    <2>2. EpisodeTypeOK'
      BY <1>1, <2>1 DEF EpisodeTypeOK
    <2>3. HandlesHigherLevel'
      BY <1>1, <2>1 DEF HandlesHigherLevel, Armed
    <2>4. DoneIsLatched'
      BY <1>1, <2>1 DEF DoneIsLatched
    <2>5. QED
      BY <1>1, <2>1, <2>2, <2>3, <2>4 DEF QuotaIsSpentFirst, SavedSinceJudged
  <1>4. QED
    BY <1>2, <1>3

LEMMA HandlerStep ==
    ASSUME EpisodeInv, Handler
    PROVE  EpisodeInv'
  <1> USE EpisodeAssumption, EpisodeTypes DEF EpisodeInv
  <1>1. CASE CheckPrinting
    <2>1. /\ step = "check"
          /\ UNCHANGED <<state, run, met, want, act, action, alerts, muted, camera, done,
                         everDone, wentOut>>
      BY <1>1 DEF CheckPrinting
    <2>2. CASE state = "printing"
      <3>1. step' = "act" /\ fired' = fired
        BY <1>1, <2>2 DEF CheckPrinting
      <3>2. EpisodeTypeOK'
        BY <2>1, <3>1 DEF EpisodeTypeOK
      <3>3. QED
        BY <2>1, <3>1, <3>2 DEF QuotaIsSpentFirst, HandlesHigherLevel, DoneIsLatched,
           SavedSinceJudged
    <2>3. CASE state # "printing"
      <3>1. step' = "watch" /\ fired' = want
        BY <1>1, <2>3 DEF CheckPrinting, Latch
      <3>2. EpisodeTypeOK'
        BY <2>1, <3>1 DEF EpisodeTypeOK, Levels
      <3>3. DoneIsLatched'
        BY <2>1, <3>1 DEF HandlesHigherLevel, DoneIsLatched
      <3>4. QED
        BY <2>1, <3>1, <3>2, <3>3 DEF QuotaIsSpentFirst, HandlesHigherLevel, SavedSinceJudged
    <2>4. QED
      BY <2>2, <2>3
  <1>2. ASSUME NEW ok \in BOOLEAN, Act(ok)
        PROVE  EpisodeInv'
    <2>1. /\ step = "act" /\ step' = "alert"
          /\ act' = [level |-> action, acted |-> action # 0 /\ ok]
          /\ UNCHANGED <<state, run, met, fired, want, action, alerts, muted, camera, wentOut>>
      BY <1>2 DEF Act
    <2>2. act' \in [level : 0..2, acted : BOOLEAN] /\ act'.level = action
          /\ (act'.acted => action \in {1, 2})
      <3>1. CASE action # 0 /\ ok
        <4>1. act' = [level |-> action, acted |-> TRUE]
          BY <2>1, <3>1
        <4>2. QED
          BY <3>1, <4>1
      <3>2. CASE ~(action # 0 /\ ok)
        <4>1. act' = [level |-> action, acted |-> FALSE]
          BY <2>1, <3>2
        <4>2. QED
          BY <4>1
      <3>3. QED
        BY <3>1, <3>2
    <2>3. /\ done' = IF act'.acted /\ action = want THEN done \cup {action} ELSE done
          /\ everDone' = IF act'.acted THEN everDone \cup {action} ELSE everDone
      BY <1>2 DEF Act
    <2>4. EpisodeTypeOK'
      BY <2>1, <2>2, <2>3 DEF EpisodeTypeOK
    <2>5. DoneIsLatched'
      <3>1. \A a \in done : a <= fired
        BY <2>1 DEF DoneIsLatched
      <3>2. QED
        BY <2>1, <2>2, <2>3, <3>1 DEF DoneIsLatched
    <2>6. QED
      BY <2>1, <2>4, <2>5 DEF QuotaIsSpentFirst, HandlesHigherLevel, SavedSinceJudged
  <1>3. CASE Alert
    <2>1. /\ step = "alert"
          /\ UNCHANGED <<state, run, met, want, act, action, muted, camera, done, everDone,
                         wentOut>>
      BY <1>3 DEF Alert
    <2>2. /\ alerts' \in [sent : 0..MaxCount, gapOver : BOOLEAN]
          /\ Cap # 0 => alerts'.sent <= Cap /\ wentOut <= alerts'.sent
          /\ Cap # 0 /\ WithinBudget => wentOut < alerts'.sent
      <3>1. CASE WithinBudget
        <4>1. Spend
          BY <1>3, <3>1 DEF Alert
        <4>2. QED
          BY <3>1, <4>1, SpendIsCounted DEF QuotaIsSpentFirst
      <3>2. CASE ~WithinBudget
        <4>1. alerts' = alerts
          BY <1>3, <3>2 DEF Alert
        <4>2. QED
          BY <3>2, <4>1 DEF QuotaIsSpentFirst, EpisodeTypeOK
      <3>3. QED
        BY <3>1, <3>2
    <2>3. \/ \E delivered \in BOOLEAN : Return(delivered)
          \/ WithinBudget /\ step' = "send" /\ fired' = fired
      BY <1>3 DEF Alert
    <2>4. CASE \E delivered \in BOOLEAN : Return(delivered)
      <3>1. fired' \in Levels /\ step' = "watch" /\ DoneIsLatched'
        BY <2>1, <2>4, ReturnStep
      <3>2. EpisodeTypeOK'
        BY <2>1, <2>2, <3>1 DEF EpisodeTypeOK
      <3>3. QED
        BY <2>1, <2>2, <3>1, <3>2 DEF QuotaIsSpentFirst, HandlesHigherLevel, SavedSinceJudged
    <2>5. CASE WithinBudget /\ step' = "send" /\ fired' = fired
      <3>1. EpisodeTypeOK'
        BY <2>1, <2>2, <2>5 DEF EpisodeTypeOK
      <3>2. QED
        BY <2>1, <2>2, <2>5, <3>1 DEF QuotaIsSpentFirst, HandlesHigherLevel, DoneIsLatched,
           SavedSinceJudged
    <2>6. QED
      BY <2>3, <2>4, <2>5
  <1>4. ASSUME NEW ok \in BOOLEAN, Send(ok)
        PROVE  EpisodeInv'
    <2>1. /\ step = "send" /\ Return(ok)
          /\ wentOut' = IF ok THEN OneMore(wentOut) ELSE wentOut
          /\ UNCHANGED <<state, run, met, want, act, action, alerts, muted, camera, done,
                         everDone>>
      BY <1>4 DEF Send
    <2>2. fired' \in Levels /\ step' = "watch" /\ DoneIsLatched'
      BY <2>1, ReturnStep
    <2>3. wentOut' \in 0..MaxCount /\ wentOut' <= wentOut + 1
      BY <2>1 DEF OneMore
    <2>4. EpisodeTypeOK'
      BY <2>1, <2>2, <2>3 DEF EpisodeTypeOK
    <2>5. QuotaIsSpentFirst'
      BY <2>1, <2>2, <2>3 DEF QuotaIsSpentFirst
    <2>6. QED
      BY <2>1, <2>2, <2>4, <2>5 DEF HandlesHigherLevel, SavedSinceJudged
  <1>5. QED
    BY <1>1, <1>2, <1>3, <1>4 DEF Handler

LEMMA CameraStep ==
    ASSUME EpisodeInv, NEW ok \in BOOLEAN, CameraNotice(ok)
    PROVE  EpisodeInv'
  <1> USE EpisodeAssumption, EpisodeTypes DEF EpisodeInv
  <1> DEFINE outcome == IF ~WithinBudget THEN "suppressed"
                        ELSE IF muted THEN "muted"
                        ELSE IF HasChannel /\ ok THEN "sent" ELSE "failed"
  <1>1. /\ step = "watch"
        /\ UNCHANGED <<state, run, thread, action, muted, wentOut>>
        /\ IF WithinBudget THEN Spend ELSE UNCHANGED alerts
        /\ camera' = [alerted |-> ~camera.alerted,
                      notice |-> IF camera.alerted THEN camera.notice ELSE outcome]
    BY DEF CameraNotice
  <1>2. camera' \in [alerted : BOOLEAN,
                     notice : {"none", "sent", "muted", "failed", "suppressed"}]
    <2>1. outcome \in {"none", "sent", "muted", "failed", "suppressed"}
      OBVIOUS
    <2>2. camera.notice \in {"none", "sent", "muted", "failed", "suppressed"}
          /\ (~camera.alerted) \in BOOLEAN
      BY DEF EpisodeTypeOK
    <2> HIDE DEF outcome
    <2>3. QED
      BY <1>1, <2>1, <2>2
  <1>3. /\ alerts' \in [sent : 0..MaxCount, gapOver : BOOLEAN]
        /\ Cap # 0 => alerts'.sent <= Cap /\ wentOut <= alerts'.sent
    <2>1. CASE WithinBudget
      BY <1>1, <2>1, SpendIsCounted DEF QuotaIsSpentFirst
    <2>2. CASE ~WithinBudget
      BY <1>1, <2>2 DEF QuotaIsSpentFirst, EpisodeTypeOK
    <2>3. QED
      BY <2>1, <2>2
  <1>4. EpisodeTypeOK'
    BY <1>1, <1>2, <1>3 DEF EpisodeTypeOK, thread
  <1>5. QED
    BY <1>1, <1>3, <1>4 DEF thread, QuotaIsSpentFirst, HandlesHigherLevel, DoneIsLatched,
       SavedSinceJudged

LEMMA EpisodeStep ==
    ASSUME EpisodeInv, [EpisodeNext]_episodeVars
    PROVE  EpisodeInv'
  BY OutsideStep, VerdictStep, HandlerStep, CameraStep DEF EpisodeNext

\* The episode keeps its types, for any settings and any quota.
THEOREM EpisodeTypeCorrect == EpisodeSpec => []EpisodeTypeOK
  <1>1. EpisodeInv => EpisodeTypeOK
    BY DEF EpisodeInv
  <1>2. QED
    BY <1>1, EpisodeInitInv, EpisodeStep, PTL DEF EpisodeSpec

\* However alerts, camera notices, pauses and resumes interleave, no print sends
\* more failure alerts than max_notification.
THEOREM QuotaIsKept == EpisodeSpec => []QuotaPerPrint
  <1>1. EpisodeInv => QuotaPerPrint
    BY EpisodeAssumption, EpisodeTypes DEF EpisodeInv, QuotaIsSpentFirst, QuotaPerPrint
  <1>2. QED
    BY <1>1, EpisodeInitInv, EpisodeStep, PTL DEF EpisodeSpec

\* Within one episode the printer is not asked again for what it has carried out.
THEOREM ActsOnce == EpisodeSpec => ActsOncePerEpisode
  <1>1. EpisodeInv /\ [EpisodeNext]_episodeVars
           => [step = "act" /\ step' = "alert" /\ act'.acted
                 => act'.level \notin done]_episodeVars
    <2> SUFFICES ASSUME EpisodeInv, [EpisodeNext]_episodeVars,
                        step = "act", step' = "alert", act'.acted
                 PROVE  act'.level \notin done
      OBVIOUS
    <2>1. PICK ok \in BOOLEAN : Act(ok)
      BY DEF EpisodeNext, episodeVars, Handler, NewJob, Resume, EndPausedJob, ThreadEnds,
         LeavePrinting, SaveAction, ToggleMute, GapElapses, Verdict, CheckPrinting, Alert,
         Send, CameraNotice, thread, EpisodeInv, EpisodeTypeOK
    <2>2. act'.level = action
      BY <2>1 DEF Act
    <2>3. \A a \in done : a <= fired
      BY DEF EpisodeInv, DoneIsLatched
    <2>4. fired < want /\ (action # want => done = {})
      BY DEF EpisodeInv, HandlesHigherLevel, SavedSinceJudged
    <2>5. QED
      BY <2>2, <2>3, <2>4, EpisodeTypes DEF EpisodeInv
  <1>2. QED
    BY <1>1, EpisodeInitInv, EpisodeStep, PTL DEF EpisodeSpec, ActsOncePerEpisode

(* The print *)

\* Only the thread in self._thread can be alive: start() begins one only when that
\* one is dead, also after a stop() that timed out.
OneThread == \A t \in Threads : Alive(t) => t = current

\* What waits in the socket is every change since the state the client knows, in
\* order, up to the state of the printer.
Follows(m, v) ==
    IF m.kind = "retold" THEN m.phase = v.phase /\ m.id = v.id
    ELSE IF v.phase = "idle" THEN m.phase = "printing"
    ELSE m.id = v.id

Before(i) == IF i = 1 THEN seen ELSE queue[i - 1]

Latest == IF queue = <<>> THEN seen ELSE queue[Len(queue)]

EventsInOrder ==
    link = "up" /\ ws # "down" =>
        /\ \A i \in 1..Len(queue) : Follows(queue[i], Before(i))
        /\ Latest.phase = job.phase /\ Latest.id = job.id

OpenHasQueue == queue # <<>> => link # "lost" /\ ws # "down"

\* Before the first connection nothing has been started; later a socket that is not
\* usable is a mishap.
BeforeConnection ==
    (ws = "down" /\ link = "up") \/ (previous = "none" /\ ws # "emit") =>
        /\ ws = "down" /\ link = "up" /\ previous = "none" /\ seen.phase = "idle"
        /\ main \in {"boot", "running"}
        /\ window = {} /\ \A t \in Threads : ~Alive(t)

LossIsNoted == link # "up" => "cut" \in mishaps

\* A start() under way is for the print that is seen, and finds a thread of main's at most.
StartsThePrint ==
    /\ fresh => ws \in {"start", "create"}
    /\ ws \in {"start", "create"} =>
         /\ seen.phase = "printing"
         /\ \A t \in Threads : Alive(t) => "boot" \in mishaps

\* stop() waits for the current thread.
WaitsForStopped == ws = "join" => joining = current /\ stopSet /\ seen.phase # "printing"

\* ... and for its inference and for the handler's look at the state after a verdict.
WaitsForVerdict ==
    \A t \in Threads : thr[t] \in {"infer", "judged"} /\ stopSet => ws = "join"

\* A thread not told to stop runs in a print, but for the time the handler needs.
StopsWithPrint ==
    \A t \in Threads : Alive(t) /\ ~stopSet /\ ws # "emit" => seen.phase = "printing"

PreviousIsSeen == ws \in {"read", "start", "create", "join"} => previous = seen.phase

\* A frame counts, or may still count, for the print the client knows.
JudgedIsSeen ==
    "cut" \notin mishaps =>
        \A t \in Threads :
            thr[t] \in {"infer", "judged"} \/ (thr[t] = "result" /\ ~stopSet)
                => judged[t] = seen.id

\* What a thread asks for is the print it has judged, and with nothing unread that is the
\* one on the printer.
AskedIsJudged ==
    \A t \in Threads :
        thr[t] = "request" /\ ~asked[t].cut =>
            /\ asked[t].known = judged[t]
            /\ ~asked[t].unread => asked[t].on = asked[t].known

HitIsJudged == ~acted.late => acted.hit = acted.judged

\* new_print() was called for the print that is known, and only its frames count.
PrintIsScoped ==
    Undisturbed =>
        /\ ws # "down" /\ previous # "idle" => scope = seen.id
        /\ ws = "emit" /\ previous = "idle" => seen.phase # "paused"
        /\ ws # "join" => \A t \in Threads : Alive(t) => previous = "printing"
        /\ Evidence \subseteq {scope}

WatchedIsSafe ==
    /\ OneThread /\ EventsInOrder /\ LossIsNoted
    /\ StartsThePrint /\ WaitsForStopped /\ WaitsForVerdict /\ StopsWithPrint /\ PreviousIsSeen
    /\ JudgedIsSeen /\ AskedIsJudged /\ HitIsJudged /\ PrintIsScoped /\ ScopeIsThisPrint

LifecycleInv ==
    /\ LifecycleTypeOK /\ OpenHasQueue /\ BeforeConnection
    /\ NotCrossed => WatchedIsSafe

LEMMA LifecycleInitInv == LifecycleInit => LifecycleInv
  <1> SUFFICES ASSUME LifecycleInit PROVE LifecycleInv
    OBVIOUS
  <1>1. 0 \in Jobs /\ "idle" \in Phases
    BY LifecycleAssumption DEF Jobs, Phases
  <1>2. queue \in Seq(Message) /\ Len(queue) = 0 /\ queue = <<>>
    BY DEF LifecycleInit
  <1>3. job \in View /\ seen \in View /\ job = seen /\ seen.phase = "idle" /\ seen.id = 0
    BY <1>1 DEF LifecycleInit, View
  <1>4. acted \in [judged : Jobs, hit : Jobs, late : BOOLEAN] /\ acted.judged = acted.hit
    BY <1>1 DEF LifecycleInit
  <1>5. thr \in [Threads -> Stages] /\ \A t \in Threads : thr[t] = "dead"
    BY DEF LifecycleInit, Stages
  <1>6. judged \in [Threads -> Jobs] /\ asked \in [Threads -> Question]
    BY <1>1 DEF LifecycleInit, NoQuestion, Question
  <1>7. \/ previous = "none" /\ ws = "down" /\ main = "boot"
        \/ previous = "idle" /\ ws = "read" /\ main = "running"
    BY DEF LifecycleInit
  <1>8. LifecycleTypeOK
    <2>1. /\ may \in Scenarios /\ link = "up" /\ stopSet \in BOOLEAN /\ scope \in Jobs
          /\ joining = 0 /\ current = 0 /\ fresh \in BOOLEAN
          /\ mishaps \subseteq Mishaps /\ window \subseteq Jobs
      BY <1>1 DEF LifecycleInit
    <2>2. Len(queue) <= MaxQueue
      BY <1>2, LifecycleAssumption
    <2>3. /\ previous \in Phases \cup {"none"}
          /\ ws \in {"down", "read", "emit", "start", "create", "join"} /\ ws # "join"
          /\ main \in {"boot", "start", "create", "running"}
      BY <1>1, <1>7
    <2>4. QED
      BY <1>2, <1>3, <1>4, <1>5, <1>6, <2>1, <2>2, <2>3 DEF LifecycleTypeOK, Alive
  <1>9. EventsInOrder /\ OpenHasQueue
    BY <1>2, <1>3 DEF EventsInOrder, Latest, OpenHasQueue
  <1>10. BeforeConnection
    BY <1>3, <1>5, <1>7 DEF LifecycleInit, BeforeConnection, Alive
  <1>11. OneThread /\ StopsWithPrint /\ WaitsForVerdict /\ JudgedIsSeen /\ AskedIsJudged
         /\ ScopeIsThisPrint
    BY <1>5 DEF OneThread, StopsWithPrint, WaitsForVerdict, JudgedIsSeen, AskedIsJudged,
       ScopeIsThisPrint, Alive
  <1>12. LossIsNoted /\ StartsThePrint /\ WaitsForStopped /\ PreviousIsSeen /\ HitIsJudged
    BY <1>3, <1>4, <1>7 DEF LifecycleInit, LossIsNoted, StartsThePrint, WaitsForStopped,
       PreviousIsSeen, HitIsJudged
  <1>13. PrintIsScoped
    BY <1>3, <1>5, <1>7 DEF LifecycleInit, PrintIsScoped, Evidence, Alive
  <1>14. QED
    BY <1>8, <1>9, <1>10, <1>11, <1>12, <1>13 DEF LifecycleInv, WatchedIsSafe

\* The types of what the steps read.
LEMMA LifecycleTypes ==
    ASSUME LifecycleTypeOK
    PROVE  /\ MaxJobs \in Nat /\ MaxQueue \in Nat
           /\ job.phase \in Phases /\ job.id \in Jobs
           /\ seen.phase \in Phases /\ seen.id \in Jobs
           /\ Len(queue) \in Nat
           /\ \A i \in 1..Len(queue) : queue[i] \in Message
           /\ \A t \in Threads : thr[t] \in Stages /\ judged[t] \in Jobs
           /\ 0 \notin Threads /\ 0 \in Jobs
           /\ fresh \in BOOLEAN
  BY LifecycleAssumption DEF LifecycleTypeOK, View, Threads, Jobs

\* What start() changes: a thread that was dead is begun, and is the current one.
LEMMA SpawnStep ==
    ASSUME LifecycleTypeOK, NEW new \in BOOLEAN, Spawn(new)
    PROVE  /\ thr' \in [Threads -> Stages]
           /\ current' \in Threads /\ thr[current'] = "dead" /\ thr'[current'] = "setup"
           /\ \A u \in Threads : u # current' => thr'[u] = thr[u]
           /\ stopSet' = FALSE
           /\ window' = IF new THEN {} ELSE window
           /\ joining' = joining /\ judged' = judged
  <1>1. PICK t \in Threads :
            /\ Unused(t)
            /\ thr' = [thr EXCEPT ![t] = "setup"] /\ current' = t /\ stopSet' = FALSE
            /\ window' = (IF new THEN {} ELSE window)
            /\ joining' = joining /\ judged' = judged
    BY DEF Spawn
  <1>2. thr \in [Threads -> Stages] /\ thr[t] = "dead"
    BY <1>1 DEF LifecycleTypeOK, Unused, Alive
  <1>3. "setup" \in Stages
    BY DEF Stages
  <1>4. \A u \in Threads : thr'[u] = IF u = t THEN "setup" ELSE thr[u]
    BY <1>1, <1>2
  <1>5. thr' \in [Threads -> Stages]
    BY <1>1, <1>2, <1>3
  <1>6. QED
    BY <1>1, <1>2, <1>4, <1>5

\* What a step of a thread to its next stage changes.
LEMMA GoesStep ==
    ASSUME LifecycleTypeOK, NEW t \in Threads, NEW stage \in Stages, Goes(t, stage)
    PROVE  /\ thr' \in [Threads -> Stages] /\ judged' \in [Threads -> Jobs]
           /\ thr'[t] = stage /\ (stage \in AtWork => judged'[t] = judged[t])
           /\ \A u \in Threads : u # t => thr'[u] = thr[u] /\ judged'[u] = judged[u]
  <1>1. /\ thr' = [thr EXCEPT ![t] = stage]
        /\ judged' = [judged EXCEPT ![t] = IF stage \in AtWork THEN judged[t] ELSE 0]
    BY DEF Goes, LifecycleTypeOK
  <1>2. thr \in [Threads -> Stages] /\ judged \in [Threads -> Jobs] /\ 0 \in Jobs
    BY LifecycleTypes DEF LifecycleTypeOK
  <1>3. (IF stage \in AtWork THEN judged[t] ELSE 0) \in Jobs
    BY <1>2
  <1>4. QED
    BY <1>1, <1>2, <1>3

\* Types, however start() may have crossed another.
LEMMA PrinterTypes ==
    ASSUME LifecycleTypeOK, (\E phase \in Phases : JobChanges(phase)) \/ Retell \/ Disconnect
    PROVE  LifecycleTypeOK'
  <1> USE LifecycleTypes
  <1>1. ASSUME NEW kind \in {"status", "retold"}, NEW j \in View, Notify(kind, j),
               Len(queue) < MaxQueue
        PROVE  queue' \in Seq(Message) /\ Len(queue') <= MaxQueue
    <2> DEFINE m == [kind |-> kind, phase |-> j.phase, id |-> j.id]
    <2>1. m \in Message
      BY DEF Message, View
    <2>2. queue' = Append(queue, m) \/ queue' = queue
      BY <1>1, Zenon DEF Notify
    <2> HIDE DEF m
    <2>3. queue \in Seq(Message) /\ Len(queue) \in Nat
      BY DEF LifecycleTypeOK
    <2>4. QED
      BY <1>1, <2>1, <2>2, <2>3
  <1>2. ASSUME NEW phase \in Phases, JobChanges(phase)
        PROVE  LifecycleTypeOK'
    <2> DEFINE id == IF job.phase = "idle" THEN job.id + 1 ELSE job.id
    <2>1. job' \in View
      <3>1. job' = [phase |-> phase, id |-> id] /\ (job.phase = "idle" => job.id < MaxJobs)
        BY <1>2 DEF JobChanges, Phases
      <3>2. id \in Jobs
        BY <3>1 DEF Jobs
      <3>3. QED
        BY <3>1, <3>2 DEF View
    <2>2. Notify("status", job') /\ Len(queue) < MaxQueue
          /\ UNCHANGED <<may, link, client, main, detector, print, actions>>
      BY <1>2 DEF JobChanges
    <2>3. queue' \in Seq(Message) /\ Len(queue') <= MaxQueue
      BY <1>1, <2>1, <2>2
    <2>4. QED
      BY <2>1, <2>2, <2>3 DEF LifecycleTypeOK, client, detector, print, actions, Alive
  <1>3. CASE Retell
    <2>1. job \in View /\ Notify("retold", job) /\ Len(queue) < MaxQueue
          /\ UNCHANGED <<may, job, link, client, main, detector, print, actions>>
      BY <1>3 DEF Retell, LifecycleTypeOK
    <2>2. queue' \in Seq(Message) /\ Len(queue') <= MaxQueue
      BY <1>1, <2>1
    <2>3. QED
      BY <2>1, <2>2 DEF LifecycleTypeOK, client, detector, print, actions, Alive
  <1>4. CASE Disconnect
    <2>1. queue' \in Seq(Message) /\ Len(queue') <= MaxQueue /\ mishaps' \subseteq Mishaps
      BY <1>4, LifecycleAssumption DEF Disconnect, LifecycleTypeOK, Mishaps
    <2>2. QED
      BY <1>4, <2>1 DEF Disconnect, LifecycleTypeOK, client, detector, actions, Alive
  <1>5. QED
    BY <1>2, <1>3, <1>4

LEMMA HandlerTypes ==
    ASSUME LifecycleTypeOK, WsThread \/ Main
    PROVE  LifecycleTypeOK'
  <1> USE LifecycleTypes
  <1>1. Crossed \subseteq Mishaps
    BY DEF Crossed, Mishaps
  <1>2. CASE Connect
    <2>1. seen' \in View /\ scope' \in Jobs /\ mishaps' \subseteq Mishaps
          /\ link' \in {"up", "deaf", "lost"} /\ ws' = "emit" /\ ws = "down"
          /\ UNCHANGED <<may, job, queue, previous, fresh, main, detector, actions>>
      BY <1>2 DEF Connect, LifecycleTypeOK, View, Mishaps
    <2>2. QED
      BY <2>1 DEF LifecycleTypeOK, detector, actions, Alive
  <1>3. CASE ConnectionLost
    BY <1>3 DEF ConnectionLost, LifecycleTypeOK, printer, detector, print, actions, Alive
  <1>4. CASE Receive
    <2>1. queue \in Seq(Message) /\ queue # <<>> /\ queue' = Tail(queue) /\ ws = "read"
          /\ ws' \in {"emit", "read"}
          /\ UNCHANGED <<may, job, link, previous, fresh, main, detector, print, actions>>
      BY <1>4 DEF Receive, LifecycleTypeOK
    <2>2. queue' \in Seq(Message) /\ Len(queue') <= MaxQueue /\ Head(queue) \in Message
      BY <2>1 DEF LifecycleTypeOK
    <2>3. seen' \in View
      BY <1>4, <2>2 DEF Receive, LifecycleTypeOK, Message, View
    <2>4. QED
      BY <2>1, <2>2, <2>3 DEF LifecycleTypeOK, detector, print, actions, Alive
  <1>5. CASE OnStateChange
    <2>1. scope' \in Jobs /\ mishaps' \subseteq Mishaps /\ fresh' \in BOOLEAN
      BY <1>5 DEF OnStateChange, NewPrint, print, Mishaps, LifecycleTypeOK
    <2>2. /\ previous' \in Phases /\ ws = "emit" /\ UNCHANGED <<printer, seen, main, actions>>
          /\ UNCHANGED <<thr, current, judged, window>>
          /\ \/ UNCHANGED <<stopSet, joining>> /\ ws' \in {"start", "read"}
             \/ stopSet' = TRUE /\ joining' = current /\ current # 0 /\ ws' = "join"
      BY <1>5 DEF OnStateChange, detector, Running
    <2>3. QED
      BY <2>1, <2>2 DEF LifecycleTypeOK, printer, actions, Alive
  <1>6. CASE StartLooks
    <2>1. fresh' \in BOOLEAN /\ ws' \in {"read", "create"} /\ ws = "start"
          /\ UNCHANGED <<printer, seen, previous, main, detector, print, actions>>
      BY <1>6 DEF StartLooks
    <2>2. QED
      BY <2>1 DEF LifecycleTypeOK, printer, detector, print, actions, Alive
  <1>7. ASSUME NEW new \in BOOLEAN, Spawn(new), ws' # "join", ws # "join", seen' = seen,
               previous' = previous, scope' = scope, fresh' \in BOOLEAN,
               ws' \in {"down", "read", "emit", "start", "create"},
               main' \in {"boot", "start", "create", "running"},
               mishaps' \subseteq Mishaps, UNCHANGED <<printer, actions>>
        PROVE  LifecycleTypeOK'
    <2>1. /\ thr' \in [Threads -> Stages] /\ current' \in Threads /\ stopSet' = FALSE
          /\ window' = (IF new THEN {} ELSE window) /\ joining' = joining /\ judged' = judged
      BY <1>7, SpawnStep
    <2>2. window' \subseteq Jobs
      BY <2>1 DEF LifecycleTypeOK
    <2>3. QED
      BY <1>7, <2>1, <2>2 DEF LifecycleTypeOK, printer, actions, Alive
  <1>8. CASE StartCreates
    <2>1. mishaps' \subseteq Mishaps /\ main \in {"boot", "start", "create", "running"}
      BY <1>1, <1>8 DEF StartCreates, LifecycleTypeOK
    <2>2. QED
      BY <1>7, <1>8, <2>1 DEF StartCreates
  <1>9. CASE Joined
    <2>1. mishaps' \subseteq Mishaps
      BY <1>9 DEF Joined, LifecycleTypeOK, Mishaps
    <2>2. QED
      BY <1>9, <2>1 DEF Joined, LifecycleTypeOK, printer, actions, Alive
  <1>10. CASE MainChecks \/ MainLooks
    <2>1. main' \in {"boot", "start", "create", "running"}
          /\ UNCHANGED <<printer, client, detector, print, actions>>
      BY <1>10 DEF MainChecks, MainLooks
    <2>2. QED
      BY <2>1 DEF LifecycleTypeOK, printer, client, detector, print, actions, Alive
  <1>11. CASE MainCreates
    <2>1. /\ Spawn(TRUE) /\ main' = "running" /\ mishaps' = mishaps \cup {"boot"} \cup Crossed
          /\ UNCHANGED <<printer, client, scope, actions>>
      BY <1>11 DEF MainCreates
    <2>2. mishaps' \subseteq Mishaps
      BY <1>1, <2>1 DEF LifecycleTypeOK, Mishaps
    <2>3. CASE ws = "join"
      <3>1. /\ thr' \in [Threads -> Stages] /\ current' \in Threads /\ stopSet' = FALSE
            /\ window' = {} /\ joining' = joining /\ judged' = judged
        BY <2>1, SpawnStep
      <3>2. QED
        BY <2>1, <2>2, <3>1 DEF LifecycleTypeOK, printer, client, actions, Alive
    <2>4. CASE ws # "join"
      <3>1. ws \in {"down", "read", "emit", "start", "create"}
        BY <2>4 DEF LifecycleTypeOK
      <3>2. QED
        BY <1>7, <2>1, <2>2, <2>4, <3>1 DEF client
    <2>5. QED
      BY <2>3, <2>4
  <1>12. QED
    BY <1>2, <1>3, <1>4, <1>5, <1>6, <1>8, <1>9, <1>10, <1>11 DEF WsThread, Main

LEMMA ThreadTypes ==
    ASSUME LifecycleTypeOK, NEW t \in Threads, Thread(t)
    PROVE  /\ LifecycleTypeOK'
           /\ Alive(t) /\ UNCHANGED <<printer, client, main, current, joining, scope>>
           /\ mishaps' \in {mishaps, mishaps \cup {"setup"}}
           /\ window' # window => thr[t] = "result"
           /\ \A u \in Threads : u # t => thr'[u] = thr[u] /\ judged'[u] = judged[u]
                                          /\ asked'[u] = asked[u]
  <1> USE LifecycleTypes
  <1>1. /\ Alive(t) /\ UNCHANGED <<printer, client, main, current, joining, scope>>
        /\ mishaps' \in {mishaps, mishaps \cup {"setup"}} /\ mishaps' \subseteq Mishaps
        /\ stopSet' \in BOOLEAN
        /\ window' \subseteq Jobs /\ (window' # window => thr[t] = "result")
    <2>1. /\ Alive(t) /\ UNCHANGED <<printer, client, main, current, joining, scope>>
          /\ mishaps' \in {mishaps, mishaps \cup {"setup"}}
          /\ stopSet' \in {stopSet, TRUE}
          /\ window' = window \/ (thr[t] = "result" /\ window' = window \cup {judged[t]})
      BY DEF Thread, Setup, Loop, Infer, Judge, Check, Request, Alerted, End, Alive, print
    <2>2. mishaps' \subseteq Mishaps
      BY <2>1 DEF Mishaps, LifecycleTypeOK
    <2>3. window' \subseteq Jobs
      BY <2>1 DEF LifecycleTypeOK
    <2>4. QED
      BY <2>1, <2>2, <2>3 DEF LifecycleTypeOK
  <1>2. /\ thr' \in [Threads -> Stages] /\ judged' \in [Threads -> Jobs]
        /\ \A u \in Threads : u # t => thr'[u] = thr[u] /\ judged'[u] = judged[u]
    <2>1. CASE thr' = [thr EXCEPT ![t] = "infer"] /\ judged' = [judged EXCEPT ![t] = seen.id]
      BY <2>1 DEF LifecycleTypeOK, Stages
    <2>2. CASE \E stage \in Stages : Goes(t, stage)
      BY <2>2, GoesStep
    <2>3. QED
      BY <2>1, <2>2 DEF Thread, Setup, Loop, Infer, Judge, Check, Request, Alerted, End, Stages
  <1>3. /\ asked' \in [Threads -> Question]
        /\ \A u \in Threads : u # t => asked'[u] = asked[u]
    <2>1. CASE asked' = asked
      BY <2>1 DEF LifecycleTypeOK
    <2>2. CASE \E q \in Question : asked' = [asked EXCEPT ![t] = q]
      BY <2>2 DEF LifecycleTypeOK
    <2>3. NoQuestion \in Question
      BY DEF NoQuestion, Question
    <2>4. CASE Check(t)
      <3> DEFINE q == [known |-> seen.id, on |-> job.id, unread |-> queue # <<>>,
                       cut |-> "cut" \in mishaps]
      <3>1. q \in Question
        BY DEF Question
      <3>2. asked' = [asked EXCEPT ![t] = q] \/ asked' = asked
        BY <2>4 DEF Check
      <3>3. QED
        BY <2>1, <2>2, <3>1, <3>2
    <2>5. CASE ~Check(t)
      BY <2>1, <2>2, <2>3, <2>5
         DEF Thread, Setup, Loop, Infer, Judge, Request, Alerted, End, actions
    <2>6. QED
      BY <2>4, <2>5
  <1>4. acted' \in [judged : Jobs, hit : Jobs, late : BOOLEAN]
    <2>1. CASE acted' = acted
      BY <2>1 DEF LifecycleTypeOK
    <2>2. CASE \E ok \in BOOLEAN : Request(t, ok)
      <3> DEFINE late == asked[t].cut \/ asked[t].unread \/ asked[t].on # job.id
      <3>1. acted' = acted \/ acted' = [judged |-> judged[t], hit |-> job.id, late |-> late]
        BY <2>2 DEF Request
      <3>2. late \in BOOLEAN
        BY DEF LifecycleTypeOK, Question
      <3> HIDE DEF late
      <3>3. QED
        BY <2>1, <3>1, <3>2
    <2>3. QED
      BY <2>1, <2>2 DEF Thread, Setup, Loop, Infer, Judge, Check, Alerted, End, actions
  <1>5. \A u \in Threads : Alive(u)' => Alive(u)
    BY <1>1, <1>2 DEF Alive
  <1>6. LifecycleTypeOK'
    BY <1>1, <1>2, <1>3, <1>4, <1>5 DEF LifecycleTypeOK, printer, client
  <1>7. QED
    BY <1>1, <1>2, <1>3, <1>6

LEMMA LifecycleTypeStep ==
    LifecycleTypeOK /\ [LifecycleNext]_lifecycleVars => LifecycleTypeOK'
  <1> SUFFICES ASSUME LifecycleTypeOK, [LifecycleNext]_lifecycleVars PROVE LifecycleTypeOK'
    OBVIOUS
  <1>1. CASE LifecycleNext
    BY <1>1, PrinterTypes, HandlerTypes, ThreadTypes DEF LifecycleNext
  <1>2. CASE UNCHANGED lifecycleVars
    BY <1>2 DEF lifecycleVars, LifecycleTypeOK, Alive
  <1>3. QED
    BY <1>1, <1>2

\* What a mishap of two start() calls leaves is not forgotten.
LEMMA CrossedStays ==
    ASSUME LifecycleTypeOK, [LifecycleNext]_lifecycleVars, NotCrossed'
    PROVE  NotCrossed
  <1>1. ASSUME NEW t \in Threads, Thread(t) PROVE NotCrossed
    BY <1>1, ThreadTypes DEF NotCrossed
  <1>2. CASE (\E phase \in Phases : JobChanges(phase)) \/ Retell \/ Disconnect
    BY <1>2 DEF JobChanges, Retell, Disconnect, print, NotCrossed
  <1>3. CASE WsThread \/ Main
    <2>1. CASE OnStateChange
      BY <2>1 DEF OnStateChange, NewPrint, print, NotCrossed
    <2>2. CASE Connect \/ ConnectionLost \/ Receive
      BY <2>2 DEF Connect, ConnectionLost, Receive, print, NotCrossed
    <2>3. CASE StartLooks \/ StartCreates \/ Joined \/ Main
      BY <2>3 DEF StartLooks, StartCreates, Joined, Main, MainChecks, MainLooks, MainCreates,
         print, NotCrossed
    <2>4. QED
      BY <1>3, <2>1, <2>2, <2>3 DEF WsThread
  <1>4. CASE UNCHANGED lifecycleVars
    BY <1>4 DEF lifecycleVars, NotCrossed
  <1>5. QED
    BY <1>1, <1>2, <1>3, <1>4 DEF LifecycleNext

\* The socket and the first connection, however start() may have crossed another.
LEMMA ConnectionStep ==
    LifecycleTypeOK /\ OpenHasQueue /\ BeforeConnection /\ [LifecycleNext]_lifecycleVars
        => OpenHasQueue' /\ BeforeConnection'
  <1> SUFFICES ASSUME LifecycleTypeOK, OpenHasQueue, BeforeConnection,
                      [LifecycleNext]_lifecycleVars
               PROVE  OpenHasQueue' /\ BeforeConnection'
    OBVIOUS
  <1> USE LifecycleTypes
  <1>1. ASSUME NEW t \in Threads, Thread(t) PROVE OpenHasQueue' /\ BeforeConnection'
    <2>1. Alive(t) /\ UNCHANGED <<printer, client>>
      BY <1>1, ThreadTypes
    <2>2. QED
      BY <2>1 DEF printer, client, OpenHasQueue, BeforeConnection
  <1>2. CASE (\E phase \in Phases : JobChanges(phase)) \/ Retell
    <2>1. /\ UNCHANGED <<link, client, main, detector>>
          /\ queue' # queue => ws # "down" /\ link # "lost"
      BY <1>2 DEF JobChanges, Retell, Notify
    <2>2. QED
      BY <2>1 DEF client, detector, OpenHasQueue, BeforeConnection, Alive
  <1>3. CASE Disconnect
    BY <1>3 DEF Disconnect, client, detector, OpenHasQueue, BeforeConnection
  <1>4. CASE Connect
    BY <1>4 DEF Connect, OpenHasQueue, BeforeConnection
  <1>5. CASE ConnectionLost
    BY <1>5 DEF ConnectionLost, printer, OpenHasQueue, BeforeConnection
  <1>6. CASE Receive
    <2>1. ws = "read" /\ ws' \in {"read", "emit"} /\ queue # <<>> /\ UNCHANGED <<link, previous>>
      BY <1>6 DEF Receive
    <2>2. QED
      BY <2>1 DEF OpenHasQueue, BeforeConnection
  <1>7. CASE OnStateChange
    <2>1. /\ ws = "emit" /\ ws' \in {"start", "join", "read"} /\ previous' = seen.phase
          /\ UNCHANGED <<queue, link>>
      BY <1>7 DEF OnStateChange, printer
    <2>2. QED
      BY <2>1 DEF OpenHasQueue, BeforeConnection, Phases
  <1>8. CASE StartLooks \/ StartCreates \/ Joined
    <2>1. /\ ws \in {"start", "create", "join"} /\ ws' \in {"create", "read"}
          /\ UNCHANGED <<queue, link, previous>>
      BY <1>8 DEF StartLooks, StartCreates, Joined, printer
    <2>2. QED
      BY <2>1 DEF OpenHasQueue, BeforeConnection
  <1>9. CASE Main
    <2>1. CASE MainChecks
      BY <2>1 DEF MainChecks, printer, client, detector, OpenHasQueue, BeforeConnection, Alive
    <2>2. CASE MainLooks \/ MainCreates
      BY <2>2 DEF MainLooks, MainCreates, printer, client, OpenHasQueue, BeforeConnection
    <2>3. QED
      BY <1>9, <2>1, <2>2 DEF Main
  <1>10. CASE UNCHANGED lifecycleVars
    BY <1>10 DEF lifecycleVars, OpenHasQueue, BeforeConnection, Alive
  <1>11. QED
    BY <1>1, <1>2, <1>3, <1>4, <1>5, <1>6, <1>7, <1>8, <1>9, <1>10 DEF LifecycleNext, WsThread

\* LifecycleInv where no start() has crossed another.
SafeInv == LifecycleTypeOK /\ OpenHasQueue /\ BeforeConnection /\ WatchedIsSafe

\* A change of the printer, or an event that changes nothing, and the message that tells
\* of it.
LEMMA NotifyStep ==
    ASSUME SafeInv, NEW kind \in {"status", "retold"}, NEW j \in View,
           job' = j, Notify(kind, j),
           Follows([kind |-> kind, phase |-> j.phase, id |-> j.id], job),
           UNCHANGED <<may, link, client, main, detector, print, actions>>
    PROVE  WatchedIsSafe'
  <1> DEFINE m == [kind |-> kind, phase |-> j.phase, id |-> j.id]
  <1> USE LifecycleTypes DEF SafeInv, WatchedIsSafe, client, detector, print, actions
  <1>1. m \in Message /\ m.phase = j.phase /\ m.id = j.id
    BY DEF Message, View
  <1>2. /\ link = "up" /\ ws # "down" => queue' = Append(queue, m)
        /\ Follows(m, job)
    BY Zenon DEF Notify
  <1> HIDE DEF m
  <1>3. queue \in Seq(Message) /\ Len(queue) \in Nat
    BY DEF LifecycleTypeOK
  <1>4. EventsInOrder'
    <2>1. CASE link = "up" /\ ws # "down"
      <3>1. /\ queue' = Append(queue, m) /\ Len(queue') = Len(queue) + 1 /\ queue' # <<>>
            /\ queue'[Len(queue) + 1] = m
            /\ \A i \in 1..Len(queue) : queue'[i] = queue[i]
        BY <1>1, <1>2, <1>3, <2>1
      <3>2. Latest.phase = job.phase /\ Latest.id = job.id
        BY <2>1 DEF EventsInOrder
      <3>3. Follows(m, Latest)
        BY <1>2, <3>2 DEF Follows
      <3>4. ASSUME NEW i \in 1..Len(queue') PROVE Follows(queue'[i], Before(i)')
        <4>1. CASE i = Len(queue) + 1
          <5>1. queue'[i] = m /\ Before(i)' = Latest
            BY <1>3, <3>1, <4>1 DEF Before, Latest
          <5>2. QED
            BY <3>3, <5>1
        <4>2. CASE i \in 1..Len(queue)
          <5>1. queue'[i] = queue[i] /\ Before(i)' = Before(i)
            BY <1>3, <3>1, <4>2 DEF Before
          <5>2. Follows(queue[i], Before(i))
            BY <2>1, <4>2 DEF EventsInOrder
          <5>3. QED
            BY <5>1, <5>2
        <4>3. QED
          BY <1>3, <3>1, <4>1, <4>2
      <3>5. Latest' = m
        BY <1>3, <3>1 DEF Latest
      <3>6. QED
        BY <1>1, <2>1, <3>4, <3>5 DEF EventsInOrder, Follows
    <2>2. CASE ~(link = "up" /\ ws # "down")
      BY <2>2 DEF EventsInOrder
    <2>3. QED
      BY <2>1, <2>2
  <1>5. LossIsNoted' /\ StartsThePrint' /\ WaitsForStopped' /\ PreviousIsSeen'
    BY DEF LossIsNoted, StartsThePrint, WaitsForStopped, PreviousIsSeen, Alive
  <1>6. OneThread' /\ WaitsForVerdict' /\ StopsWithPrint' /\ JudgedIsSeen'
    BY DEF OneThread, WaitsForVerdict, StopsWithPrint, JudgedIsSeen, Alive
  <1>7. AskedIsJudged' /\ HitIsJudged'
    BY DEF AskedIsJudged, HitIsJudged
  <1>8. PrintIsScoped' /\ ScopeIsThisPrint'
    BY DEF PrintIsScoped, ScopeIsThisPrint, Undisturbed, Evidence, Alive
  <1>9. QED
    BY <1>4, <1>5, <1>6, <1>7, <1>8

LEMMA PrinterStep ==
    ASSUME SafeInv, (\E phase \in Phases : JobChanges(phase)) \/ Retell \/ Disconnect
    PROVE  WatchedIsSafe'
  <1> USE LifecycleTypes DEF SafeInv
  <1>1. ASSUME NEW phase \in Phases, JobChanges(phase)
        PROVE  WatchedIsSafe'
    <2>1. /\ phase = "printing" => \/ job.phase = "idle" /\ job.id < MaxJobs
                                   \/ job.phase = "paused"
          /\ phase = "paused" => job.phase = "printing"
          /\ phase = "idle" => job.phase # "idle"
      BY <1>1 DEF JobChanges
    <2> DEFINE id == IF job.phase = "idle" THEN job.id + 1 ELSE job.id
    <2> DEFINE j == [phase |-> phase, id |-> id]
    <2>2. j \in View
      <3>1. id \in Jobs
        BY <2>1 DEF Jobs, Phases
      <3>2. QED
        BY <3>1 DEF View
    <2>3. j.phase = phase /\ (job.phase # "idle" => j.id = job.id)
      OBVIOUS
    <2>4. /\ job' = j /\ Notify("status", j)
          /\ UNCHANGED <<may, link, client, main, detector, print, actions>>
      BY <1>1, Zenon DEF JobChanges, Notify
    <2> HIDE DEF j
    <2>5. Follows([kind |-> "status", phase |-> j.phase, id |-> j.id], job)
      BY <2>1, <2>3 DEF Follows, Phases
    <2>6. QED
      BY <2>2, <2>4, <2>5, NotifyStep
  <1>2. CASE Retell
    <2>1. job \in View /\ job' = job /\ Notify("retold", job)
          /\ UNCHANGED <<may, link, client, main, detector, print, actions>>
      BY <1>2 DEF Retell, LifecycleTypeOK
    <2>2. Follows([kind |-> "retold", phase |-> job.phase, id |-> job.id], job)
      BY DEF Follows
    <2>3. QED
      BY <2>1, <2>2, NotifyStep
  <1>3. CASE Disconnect
    <2>1. /\ link' = "lost" /\ mishaps' = mishaps \cup {"cut"}
          /\ UNCHANGED <<client, main, detector, scope, actions>>
      BY <1>3 DEF Disconnect
    <2> USE DEF WatchedIsSafe, client, detector, actions
    <2>2. /\ EventsInOrder' /\ LossIsNoted' /\ WaitsForStopped' /\ PreviousIsSeen'
      BY <2>1 DEF EventsInOrder, LossIsNoted, WaitsForStopped, PreviousIsSeen
    <2>3. OneThread' /\ StartsThePrint' /\ WaitsForVerdict' /\ StopsWithPrint'
      BY <2>1 DEF OneThread, StartsThePrint, WaitsForVerdict, StopsWithPrint, Alive
    <2>4. JudgedIsSeen' /\ PrintIsScoped' /\ ScopeIsThisPrint'
      BY <2>1 DEF JudgedIsSeen, PrintIsScoped, ScopeIsThisPrint, Undisturbed
    <2>5. AskedIsJudged' /\ HitIsJudged'
      BY <2>1 DEF AskedIsJudged, HitIsJudged
    <2>6. QED
      BY <2>2, <2>3, <2>4, <2>5
  <1>4. QED
    BY <1>1, <1>2, <1>3

\* The messages after the one read are in order after the state it tells of.
LEMMA RestIsInOrder ==
    ASSUME SafeInv, link = "up", queue # <<>>, queue' = Tail(queue), job' = job, link' = link,
           ws' # "down", seen'.phase = Head(queue).phase, seen'.id = Head(queue).id
    PROVE  EventsInOrder'
  <1>1. queue \in Seq(Message) /\ Len(queue) \in Nat /\ Len(queue) >= 1
    BY DEF SafeInv, LifecycleTypeOK
  <1>2. /\ Len(queue') = Len(queue) - 1 /\ Head(queue) = queue[1]
        /\ \A i \in 1..Len(queue') : queue'[i] = queue[i + 1]
        /\ (queue' = <<>> <=> Len(queue) = 1)
    <2>1. /\ queue' \in Seq(Message) /\ Len(queue') = Len(queue) - 1 /\ Head(queue) = queue[1]
          /\ \A i \in 1..Len(queue') : queue'[i] = queue[i + 1]
      BY <1>1
    <2>2. queue' = <<>> <=> Len(queue') = 0
      BY <2>1, EmptySeq
    <2>3. QED
      BY <1>1, <2>1, <2>2
  <1>3. ws # "down"
    BY DEF SafeInv, OpenHasQueue
  <1>4. ASSUME NEW i \in 1..Len(queue')
        PROVE  Follows(queue'[i], Before(i)')
    <2>1. i + 1 \in 1..Len(queue) /\ Follows(queue[i + 1], Before(i + 1))
      BY <1>1, <1>2, <1>3, <1>4 DEF SafeInv, WatchedIsSafe, EventsInOrder
    <2>2. queue'[i] = queue[i + 1]
      BY <1>2, <1>4
    <2>3. Before(i + 1) = queue[i]
      BY <1>1, <1>4, <2>1 DEF Before
    <2>4. Before(i)'.phase = queue[i].phase /\ Before(i)'.id = queue[i].id
      <3>1. CASE i = 1
        BY <1>2, <3>1 DEF Before
      <3>2. CASE i # 1
        BY <1>1, <1>2, <1>4, <3>2 DEF Before
      <3>3. QED
        BY <3>1, <3>2
    <2>5. QED
      BY <2>1, <2>2, <2>3, <2>4 DEF Follows
  <1>5. Latest'.phase = Latest.phase /\ Latest'.id = Latest.id
    <2>1. CASE queue' = <<>>
      BY <1>1, <1>2, <2>1 DEF Latest
    <2>2. CASE queue' # <<>>
      BY <1>1, <1>2, <2>2 DEF Latest
    <2>3. QED
      BY <2>1, <2>2
  <1>6. QED
    BY <1>3, <1>4, <1>5 DEF SafeInv, WatchedIsSafe, EventsInOrder

LEMMA ClientStep ==
    ASSUME SafeInv, Connect \/ ConnectionLost \/ Receive
    PROVE  WatchedIsSafe'
  <1> USE LifecycleTypes DEF SafeInv, WatchedIsSafe
  <1>1. CASE Connect
    <2>1. /\ ws = "down" /\ ws' = "emit"
          /\ \/ link' = "up" /\ seen' = job /\ mishaps' = mishaps
             \/ link' = "deaf" /\ seen' = seen /\ mishaps' = mishaps \cup {"cut"}
          /\ scope' = (IF previous = "none" THEN seen'.id ELSE scope)
          /\ UNCHANGED <<may, job, queue, previous, fresh, main, detector, actions>>
      BY <1>1 DEF Connect
    <2> USE DEF detector, actions
    <2>2. queue = <<>>
      BY <2>1 DEF OpenHasQueue
    <2>3. EventsInOrder' /\ LossIsNoted' /\ StartsThePrint' /\ WaitsForStopped' /\ PreviousIsSeen'
      BY <2>1, <2>2 DEF EventsInOrder, Latest, LossIsNoted, StartsThePrint, WaitsForStopped,
         PreviousIsSeen
    <2>4. OneThread' /\ WaitsForVerdict' /\ StopsWithPrint'
      BY <2>1 DEF OneThread, WaitsForVerdict, StopsWithPrint, Alive
    <2>5. "cut" \notin mishaps' =>
              /\ previous = "none" /\ window = {} /\ fresh = FALSE
              /\ \A t \in Threads : ~Alive(t)
      BY <2>1 DEF LossIsNoted, BeforeConnection, StartsThePrint
    <2>6. JudgedIsSeen' /\ PrintIsScoped' /\ ScopeIsThisPrint'
      BY <2>1, <2>5 DEF JudgedIsSeen, PrintIsScoped, ScopeIsThisPrint, Undisturbed, Evidence,
         Alive
    <2>7. AskedIsJudged' /\ HitIsJudged'
      BY <2>1 DEF AskedIsJudged, HitIsJudged
    <2>8. QED
      BY <2>3, <2>4, <2>6, <2>7
  <1>2. CASE ConnectionLost
    <2>1. /\ ws = "read" /\ link = "lost" /\ ws' = "down"
          /\ UNCHANGED <<printer, seen, previous, fresh, main, detector, print, actions>>
      BY <1>2 DEF ConnectionLost
    <2> USE DEF printer, detector, print, actions
    <2>2. EventsInOrder' /\ LossIsNoted' /\ StartsThePrint' /\ WaitsForStopped' /\ PreviousIsSeen'
      BY <2>1 DEF EventsInOrder, LossIsNoted, StartsThePrint, WaitsForStopped, PreviousIsSeen
    <2>3. OneThread' /\ WaitsForVerdict' /\ StopsWithPrint' /\ JudgedIsSeen'
      BY <2>1 DEF OneThread, WaitsForVerdict, StopsWithPrint, JudgedIsSeen, Alive
    <2>4. ~Undisturbed'
      BY <2>1 DEF Undisturbed, LossIsNoted
    <2>5. PrintIsScoped' /\ ScopeIsThisPrint' /\ AskedIsJudged' /\ HitIsJudged'
      BY <2>1, <2>4 DEF PrintIsScoped, ScopeIsThisPrint, AskedIsJudged, HitIsJudged
    <2>6. QED
      BY <2>2, <2>3, <2>5
  <1>3. CASE Receive
    <2> DEFINE m == Head(queue)
    <2>1. /\ ws = "read" /\ queue # <<>> /\ queue' = Tail(queue)
          /\ IF m.kind = "retold" THEN ws' = "emit" /\ seen' = seen
             ELSE /\ seen' = [phase |-> m.phase, id |-> m.id]
                  /\ ws' = IF m.phase # seen.phase THEN "emit" ELSE "read"
          /\ UNCHANGED <<may, job, link, previous, fresh, main, detector, print, actions>>
      BY <1>3 DEF Receive
    <2>2. queue \in Seq(Message) /\ m \in Message /\ m = queue[1] /\ 1 \in 1..Len(queue)
      BY <2>1 DEF LifecycleTypeOK
    <2>3. link = "up" => Follows(m, seen)
      BY <2>1, <2>2 DEF EventsInOrder, Before
    <2> HIDE DEF m
    <2>4. ws' \in {"read", "emit"} /\ (ws' = "read" => seen'.phase = seen.phase)
      BY <2>1
    <2>5. link = "up" =>
            /\ seen'.phase = m.phase /\ seen'.id = m.id
            /\ seen.phase # "idle" => seen'.id = seen.id
            /\ seen.phase = "idle" => seen'.phase # "paused"
      <3>1. CASE m.kind = "retold"
        BY <2>1, <2>3, <3>1 DEF Follows
      <3>2. CASE m.kind # "retold"
        BY <2>1, <2>3, <3>2 DEF Follows
      <3>3. QED
        BY <3>1, <3>2
    <2>6. EventsInOrder'
      <3>1. CASE link = "up"
        BY <2>1, <2>4, <2>5, <3>1, RestIsInOrder DEF m
      <3>2. CASE link # "up"
        BY <2>1, <3>2 DEF EventsInOrder
      <3>3. QED
        BY <3>1, <3>2
    <2> USE DEF detector, print, actions
    <2>7. "cut" \notin mishaps => link = "up"
      BY DEF LossIsNoted
    <2>8. LossIsNoted' /\ StartsThePrint' /\ WaitsForStopped' /\ PreviousIsSeen'
      BY <2>1, <2>4 DEF LossIsNoted, StartsThePrint, WaitsForStopped, PreviousIsSeen
    <2>9. OneThread' /\ WaitsForVerdict' /\ StopsWithPrint'
      BY <2>1, <2>4 DEF OneThread, WaitsForVerdict, StopsWithPrint, Alive
    <2>10. JudgedIsSeen'
      BY <2>1, <2>5, <2>7 DEF JudgedIsSeen, WaitsForVerdict, StopsWithPrint, Alive
    <2>11. PrintIsScoped'
      BY <2>1, <2>4, <2>5, <2>7 DEF PrintIsScoped, PreviousIsSeen, Undisturbed, Evidence, Alive
    <2>12. ScopeIsThisPrint' /\ AskedIsJudged' /\ HitIsJudged'
      BY <2>1 DEF ScopeIsThisPrint, AskedIsJudged, HitIsJudged, Undisturbed
    <2>13. QED
      BY <2>6, <2>8, <2>9, <2>10, <2>11, <2>12
  <1>4. QED
    BY <1>1, <1>2, <1>3

\* The handler told of a state, and stop().
LEMMA StateChangeStep ==
    ASSUME SafeInv, OnStateChange
    PROVE  WatchedIsSafe'
  <1> USE LifecycleTypes DEF SafeInv, WatchedIsSafe
  <1>1. /\ ws = "emit" /\ previous' = seen.phase /\ joining = 0 /\ fresh = FALSE
        /\ UNCHANGED <<may, job, link, queue, seen, main, actions>>
    <2>1. /\ ws = "emit" /\ previous' = seen.phase
          /\ UNCHANGED <<may, job, link, queue, seen, main, actions>>
      BY DEF OnStateChange, printer
    <2>2. QED
      BY <2>1 DEF LifecycleTypeOK, StartsThePrint
  <1> USE DEF actions
  <1>2. LossIsNoted /\ BeforeConnection /\ EventsInOrder /\ AskedIsJudged /\ HitIsJudged
    OBVIOUS
  <1>3. ws' # "down" /\ ws' # "emit" => EventsInOrder' /\ AskedIsJudged'
    <2>1. ASSUME ws' # "down" PROVE EventsInOrder'
      BY <1>1, <2>1 DEF EventsInOrder, Follows, Before, Latest
    <2>2. thr' = thr /\ judged' = judged
      BY DEF OnStateChange, detector
    <2>3. AskedIsJudged'
      BY <1>1, <2>2 DEF AskedIsJudged
    <2>4. QED
      BY <2>1, <2>3
  <1>4. HitIsJudged'
    BY <1>1 DEF HitIsJudged
  <1>5. CASE /\ seen.phase = "printing" /\ ~Running
             /\ fresh' = (previous # "paused")
             /\ IF fresh' THEN NewPrint ELSE UNCHANGED print
             /\ ws' = "start"
             /\ UNCHANGED detector
    <2> USE DEF detector, print
    <2>1. \A t \in Threads : ~Alive(t)
      BY <1>5 DEF OneThread, Running
    <2>2. LossIsNoted' /\ StartsThePrint'
      BY <1>1, <1>5, <2>1 DEF NewPrint, LossIsNoted, StartsThePrint, Alive
    <2>3. WaitsForStopped' /\ PreviousIsSeen'
      BY <1>1, <1>5 DEF WaitsForStopped, PreviousIsSeen
    <2>4. /\ OneThread' /\ WaitsForVerdict' /\ StopsWithPrint' /\ JudgedIsSeen'
          /\ ScopeIsThisPrint'
      BY <1>1, <1>5, <2>1 DEF OneThread, WaitsForVerdict, StopsWithPrint, JudgedIsSeen,
         ScopeIsThisPrint, Alive
    <2>5. PrintIsScoped'
      <3>1. CASE previous # "paused"
        BY <1>1, <1>5, <2>1, <3>1 DEF NewPrint, PrintIsScoped, Evidence, Alive
      <3>2. CASE previous = "paused"
        BY <1>1, <1>5, <2>1, <3>2 DEF PrintIsScoped, Undisturbed, Evidence, Alive
      <3>3. QED
        BY <3>1, <3>2
    <2>6. QED
      BY <1>3, <1>4, <1>5, <2>2, <2>3, <2>4, <2>5
  <1>6. CASE /\ seen.phase # "printing" /\ Running
             /\ stopSet' = TRUE /\ joining' = current
             /\ ws' = "join"
             /\ UNCHANGED <<fresh, thr, current, judged, window, print>>
    <2> USE DEF print
    <2>1. LossIsNoted' /\ StartsThePrint' /\ WaitsForStopped' /\ PreviousIsSeen'
      BY <1>1, <1>6 DEF LossIsNoted, StartsThePrint, WaitsForStopped, PreviousIsSeen
    <2>2. OneThread' /\ WaitsForVerdict' /\ StopsWithPrint' /\ JudgedIsSeen'
      BY <1>1, <1>6 DEF OneThread, WaitsForVerdict, StopsWithPrint, JudgedIsSeen, Alive
    <2>3. PrintIsScoped'
      BY <1>1, <1>6 DEF PrintIsScoped, Undisturbed, Evidence, Phases
    <2>4. ScopeIsThisPrint'
      BY <1>1, <1>6 DEF ScopeIsThisPrint, Undisturbed
    <2>5. QED
      BY <1>3, <1>4, <1>6, <2>1, <2>2, <2>3, <2>4
  <1>7. CASE /\ (seen.phase = "printing") = Running
             /\ ws' = "read"
             /\ UNCHANGED <<fresh, detector, print>>
    <2> USE DEF detector, print
    <2>1. seen.phase = "printing" <=> Running
      BY <1>7 DEF Running, Alive
    <2>2. \A t \in Threads : Alive(t) => seen.phase = "printing"
      BY <2>1 DEF OneThread, Running, Alive
    <2>3. LossIsNoted' /\ StartsThePrint' /\ WaitsForStopped' /\ PreviousIsSeen'
      BY <1>1, <1>7 DEF LossIsNoted, StartsThePrint, WaitsForStopped, PreviousIsSeen
    <2>4. OneThread' /\ StopsWithPrint' /\ JudgedIsSeen' /\ WaitsForVerdict'
      BY <1>1, <1>7, <2>2 DEF OneThread, StopsWithPrint, JudgedIsSeen, WaitsForVerdict, Alive
    <2>5. PrintIsScoped'
      <3>1. Undisturbed /\ seen.phase = "printing" => previous = "printing"
        BY <1>1, <2>1 DEF PrintIsScoped, Running, LifecycleTypeOK
      <3>2. Undisturbed /\ seen.phase # "idle" => scope = seen.id
        BY <1>1, <3>1 DEF PrintIsScoped, Phases
      <3>3. QED
        BY <1>1, <1>7, <2>2, <3>2 DEF PrintIsScoped, Undisturbed, Evidence, Alive
    <2>6. ScopeIsThisPrint'
      BY <1>1, <1>7 DEF ScopeIsThisPrint, Undisturbed
    <2>7. QED
      BY <1>3, <1>4, <1>7, <2>3, <2>4, <2>5, <2>6
  <1>8. QED
    BY <1>5, <1>6, <1>7 DEF OnStateChange

LEMMA JoinedStep ==
    ASSUME SafeInv, Joined
    PROVE  WatchedIsSafe'
  <1> USE LifecycleTypes DEF SafeInv, WatchedIsSafe
  <1>1. /\ ws = "join" /\ ws' = "read" /\ joining' = 0
        /\ Alive(joining) /\ stopSet => thr[joining] \in Overdue
        /\ mishaps' = (IF Alive(joining) /\ stopSet THEN mishaps \cup {"overrun"} ELSE mishaps)
        /\ UNCHANGED <<printer, seen, previous, fresh, main, thr, current, stopSet, judged,
                       window, scope, actions>>
    BY DEF Joined
  <1> USE DEF printer, actions
  <1>2. joining = current /\ stopSet /\ current \in Threads
    BY <1>1 DEF WaitsForStopped, LifecycleTypeOK
  <1>3. \A t \in Threads : Alive(t) => thr[t] \in Overdue /\ mishaps' = mishaps \cup {"overrun"}
    BY <1>1, <1>2 DEF OneThread
  <1>4. EventsInOrder'
    BY <1>1 DEF EventsInOrder, Follows, Before, Latest
  <1>5. LossIsNoted' /\ StartsThePrint' /\ WaitsForStopped' /\ PreviousIsSeen'
    BY <1>1 DEF LossIsNoted, StartsThePrint, WaitsForStopped, PreviousIsSeen
  <1>6. OneThread' /\ WaitsForVerdict' /\ StopsWithPrint'
    BY <1>1, <1>2, <1>3 DEF OneThread, WaitsForVerdict, StopsWithPrint, Alive, Overdue
  <1>7. "cut" \in mishaps' <=> "cut" \in mishaps
    BY <1>1
  <1>8. Undisturbed' => Undisturbed /\ \A t \in Threads : ~Alive(t)
    BY <1>1, <1>3 DEF Undisturbed
  <1>9. JudgedIsSeen' /\ AskedIsJudged' /\ HitIsJudged'
    BY <1>1, <1>7 DEF JudgedIsSeen, AskedIsJudged, HitIsJudged
  <1>10. PrintIsScoped' /\ ScopeIsThisPrint'
    BY <1>1, <1>8 DEF PrintIsScoped, ScopeIsThisPrint, Evidence, Alive
  <1>11. QED
    BY <1>4, <1>5, <1>6, <1>9, <1>10

\* start(), by the handler or by main, that crosses no other and finds the printer printing.
LEMMA StartedStep ==
    ASSUME SafeInv, seen.phase = "printing", NEW new \in BOOLEAN, Spawn(new),
           \A t \in Threads : ~Alive(t),
           ws' = ws \/ (ws = "create" /\ ws' = "read"), fresh' \in {fresh, FALSE},
           Evidence' \subseteq Evidence,
           mishaps' \in {mishaps, mishaps \cup {"boot"}},
           Undisturbed' => ws = "create",
           ws' \in {"start", "create"} => "boot" \in mishaps',
           fresh' => ws' \in {"start", "create"},
           UNCHANGED <<may, job, link, queue, seen, previous, scope, actions>>
    PROVE  WatchedIsSafe'
  <1> USE LifecycleTypes DEF SafeInv, WatchedIsSafe, actions
  <1>1. /\ thr' \in [Threads -> Stages] /\ current' \in Threads /\ stopSet' = FALSE
        /\ \A t \in Threads : thr'[t] \in {"dead", "setup"} /\ (thr'[t] # "dead" => t = current')
        /\ joining' = joining /\ judged' = judged
    BY SpawnStep DEF Alive
  <1>2. ws # "join" /\ ws' # "join" /\ (ws' = "down" <=> ws = "down")
    BY DEF WaitsForStopped
  <1>3. EventsInOrder' /\ LossIsNoted'
    BY <1>2 DEF EventsInOrder, Follows, Before, Latest, LossIsNoted
  <1>4. StartsThePrint' /\ WaitsForStopped' /\ PreviousIsSeen'
    BY <1>2 DEF StartsThePrint, WaitsForStopped, PreviousIsSeen
  <1>5. OneThread' /\ WaitsForVerdict' /\ StopsWithPrint'
    BY <1>1 DEF OneThread, WaitsForVerdict, StopsWithPrint, Alive
  <1>6. JudgedIsSeen' /\ AskedIsJudged' /\ HitIsJudged'
    BY <1>1 DEF JudgedIsSeen, AskedIsJudged, HitIsJudged
  <1>7. PrintIsScoped' /\ ScopeIsThisPrint'
    <2>1. Undisturbed' => Undisturbed /\ previous = "printing"
      BY DEF Undisturbed, PreviousIsSeen
    <2>2. ASSUME Undisturbed' PROVE Evidence' \subseteq {scope}
      BY <2>1, <2>2 DEF PrintIsScoped
    <2>3. QED
      BY <1>1, <1>2, <2>1, <2>2 DEF PrintIsScoped, ScopeIsThisPrint
  <1>8. QED
    BY <1>3, <1>4, <1>5, <1>6, <1>7

LEMMA StartStep ==
    ASSUME SafeInv, NotCrossed', StartLooks \/ StartCreates \/ Main
    PROVE  WatchedIsSafe'
  <1> USE LifecycleTypes DEF SafeInv, WatchedIsSafe
  <1>1. Crossed = {} => seen.phase = "printing" /\ \A t \in Threads : ~Alive(t)
    BY DEF Crossed
  <1>2. ASSUME NEW other, mishaps' = other \cup Crossed PROVE Crossed = {}
    BY <1>2 DEF NotCrossed, Crossed
  <1>3. ASSUME UNCHANGED <<printer, seen, previous, detector, print, actions>>,
               \/ ws' = ws /\ fresh' = fresh
               \/ /\ ws = "start"
                  /\ \/ ws' = "read" /\ fresh' = FALSE /\ Running
                     \/ ws' = "create" /\ fresh' = fresh
        PROVE  WatchedIsSafe'
    <2> USE <1>3 DEF printer, detector, print, actions
    <2>1. EventsInOrder' /\ LossIsNoted' /\ StartsThePrint' /\ WaitsForStopped' /\ PreviousIsSeen'
      BY DEF EventsInOrder, Follows, Before, Latest, LossIsNoted, StartsThePrint,
         WaitsForStopped, PreviousIsSeen, Alive
    <2>2. OneThread' /\ WaitsForVerdict' /\ StopsWithPrint' /\ JudgedIsSeen'
      BY DEF OneThread, WaitsForVerdict, StopsWithPrint, JudgedIsSeen, Alive
    <2>3. AskedIsJudged' /\ HitIsJudged' /\ ScopeIsThisPrint'
      BY DEF AskedIsJudged, HitIsJudged, ScopeIsThisPrint, Undisturbed
    <2>4. ws = "start" /\ Running => ~Undisturbed'
      BY DEF StartsThePrint, Running, Undisturbed, LifecycleTypeOK
    <2>5. PrintIsScoped'
      BY <2>4 DEF PrintIsScoped, Undisturbed, Evidence, Alive
    <2>6. QED
      BY <2>1, <2>2, <2>3, <2>5
  <1>4. CASE StartLooks
    BY <1>3, <1>4 DEF StartLooks
  <1>5. CASE StartCreates
    <2>1. /\ ws = "create" /\ Spawn(fresh) /\ mishaps' = mishaps \cup Crossed
          /\ ws' = "read" /\ fresh' = FALSE
          /\ UNCHANGED <<may, job, link, queue, seen, previous, scope, actions>>
      BY <1>5 DEF StartCreates, printer
    <2>2. Crossed = {} /\ mishaps' = mishaps
      BY <1>2, <2>1
    <2>3. Evidence' \subseteq Evidence
      BY <2>1, SpawnStep DEF Evidence
    <2>4. QED
      BY <1>1, <2>1, <2>2, <2>3, StartedStep
  <1>6. CASE MainCreates
    <2>1. /\ Spawn(TRUE) /\ mishaps' = (mishaps \cup {"boot"}) \cup Crossed
          /\ UNCHANGED <<may, job, link, queue, seen, previous, ws, fresh, scope, actions>>
      BY <1>6 DEF MainCreates, printer, client
    <2>2. Crossed = {} /\ mishaps' = mishaps \cup {"boot"}
      BY <1>2, <2>1
    <2>3. Evidence' \subseteq Evidence
      BY <2>1, SpawnStep DEF Evidence
    <2>4. "boot" \in mishaps' /\ ~Undisturbed'
      BY <2>2 DEF Undisturbed
    <2>5. fresh' => ws' \in {"start", "create"}
      BY <2>1 DEF StartsThePrint
    <2>6. QED
      BY <1>1, <2>1, <2>2, <2>3, <2>4, <2>5, StartedStep
  <1>7. CASE MainChecks \/ MainLooks
    BY <1>3, <1>7 DEF MainChecks, MainLooks, client
  <1>8. QED
    BY <1>4, <1>5, <1>6, <1>7 DEF Main

\* What no step of a detection thread disturbs.
LEMMA ThreadFrame ==
    ASSUME SafeInv, NEW t \in Threads, Thread(t)
    PROVE  /\ \A u \in Threads : u # t => thr[u] = "dead" /\ thr'[u] = "dead"
           /\ EventsInOrder' /\ LossIsNoted' /\ StartsThePrint' /\ WaitsForStopped'
           /\ PreviousIsSeen' /\ OneThread' /\ StopsWithPrint'
           /\ Undisturbed' <=> Undisturbed
           /\ "cut" \in mishaps' <=> "cut" \in mishaps
  <1> USE LifecycleTypes DEF SafeInv, WatchedIsSafe
  <1>1. /\ Alive(t) /\ UNCHANGED <<printer, client, main, current, joining, scope>>
        /\ mishaps' \in {mishaps, mishaps \cup {"setup"}}
        /\ \A u \in Threads : u # t => thr'[u] = thr[u]
    BY ThreadTypes
  <1>2. stopSet' \in {stopSet, TRUE}
    BY DEF Thread, Setup, Loop, Infer, Judge, Check, Request, Alerted, End
  <1> USE DEF printer, client
  <1>3. \A u \in Threads : u # t => thr[u] = "dead" /\ thr'[u] = "dead"
    BY <1>1 DEF OneThread, Alive
  <1>4. \A u \in Threads : Alive(u)' => Alive(u)
    BY <1>1, <1>3 DEF Alive
  <1>5. EventsInOrder'
    BY <1>1 DEF EventsInOrder, Follows, Before, Latest
  <1>6. LossIsNoted' /\ StartsThePrint' /\ PreviousIsSeen'
    BY <1>1, <1>4 DEF LossIsNoted, StartsThePrint, PreviousIsSeen
  <1>7. WaitsForStopped'
    BY <1>1, <1>2 DEF WaitsForStopped
  <1>8. OneThread' /\ StopsWithPrint'
    <2>1. ASSUME NEW u \in Threads, Alive(u)' PROVE u = current' /\ Alive(u)
      BY <1>1, <1>4, <2>1 DEF OneThread
    <2>2. ~stopSet' => ~stopSet
      BY <1>2
    <2>3. StopsWithPrint'
      BY <1>1, <2>1, <2>2 DEF StopsWithPrint
    <2>4. QED
      BY <2>1, <2>3 DEF OneThread
  <1>9. (Undisturbed' <=> Undisturbed) /\ ("cut" \in mishaps' <=> "cut" \in mishaps)
    BY <1>1 DEF Undisturbed
  <1>10. QED
    BY <1>3, <1>5, <1>6, <1>7, <1>8, <1>9

\* A step of a thread that takes no frame, judges none and asks for nothing.
LEMMA QuietStep ==
    ASSUME SafeInv, NEW t \in Threads, Thread(t), NEW stage \in Stages, Goes(t, stage),
           stage \notin {"infer", "judged", "request"},
           stage = "result" => thr[t] = "infer",
           window' = window, HitIsJudged'
    PROVE  WatchedIsSafe'
  <1> USE LifecycleTypes DEF SafeInv, WatchedIsSafe
  <1>1. /\ UNCHANGED <<printer, client, scope>>
        /\ \A u \in Threads : u # t => thr[u] = "dead" /\ thr'[u] = "dead"
        /\ EventsInOrder' /\ LossIsNoted' /\ StartsThePrint' /\ WaitsForStopped'
        /\ PreviousIsSeen' /\ OneThread' /\ StopsWithPrint'
        /\ Undisturbed' <=> Undisturbed
        /\ "cut" \in mishaps' <=> "cut" \in mishaps
    BY ThreadFrame, ThreadTypes
  <1>2. thr'[t] = stage /\ (stage = "result" => judged'[t] = judged[t])
    BY GoesStep DEF AtWork
  <1>3. stage = "result" => stopSet' = stopSet
    <2>1. CASE End(t)
      <3>1. Goes(t, "dead") /\ "dead" \in Stages
        BY <2>1 DEF End, Stages
      <3>2. stage = "dead"
        BY <1>2, <3>1, GoesStep
      <3>3. QED
        BY <3>2
    <2>2. CASE ~End(t)
      BY <2>2 DEF Thread, Setup, Loop, Infer, Judge, Check, Request, Alerted
    <2>3. QED
      BY <2>1, <2>2
  <1> USE DEF client
  <1>4. WaitsForVerdict' /\ AskedIsJudged'
    BY <1>1, <1>2 DEF WaitsForVerdict, AskedIsJudged
  <1>5. JudgedIsSeen'
    BY <1>1, <1>2, <1>3 DEF JudgedIsSeen
  <1>6. PrintIsScoped'
    <2>1. \A u \in Threads : Alive(u)' => Alive(u)
      BY <1>1, ThreadTypes DEF Alive
    <2>2. QED
      BY <1>1, <2>1 DEF PrintIsScoped, Evidence
  <1>7. ScopeIsThisPrint'
    BY <1>1, <1>2 DEF ScopeIsThisPrint
  <1>8. QED
    BY <1>1, <1>4, <1>5, <1>6, <1>7

\* A thread that may still judge runs in a print whose new_print() it has had.
LEMMA RunningIsScoped ==
    ASSUME SafeInv, NEW t \in Threads, Alive(t), ~stopSet, Undisturbed
    PROVE  scope = seen.id
  <1>1. ws # "join" /\ ws # "down"
    BY DEF SafeInv, WatchedIsSafe, WaitsForStopped, LossIsNoted, BeforeConnection, Undisturbed
  <1>2. previous = "printing"
    BY <1>1 DEF SafeInv, WatchedIsSafe, PrintIsScoped
  <1>3. QED
    BY <1>1, <1>2 DEF SafeInv, WatchedIsSafe, PrintIsScoped

\* A frame is taken, a result is judged, the printer is asked.
LEMMA TakeStep ==
    ASSUME SafeInv, NEW t \in Threads, Loop(t), thr' = [thr EXCEPT ![t] = "infer"],
           judged' = [judged EXCEPT ![t] = seen.id], ~stopSet
    PROVE  WatchedIsSafe'
  <1> USE LifecycleTypes DEF SafeInv, WatchedIsSafe
  <1>1. /\ UNCHANGED <<printer, client, scope>>
        /\ \A u \in Threads : u # t => thr[u] = "dead" /\ thr'[u] = "dead"
        /\ EventsInOrder' /\ LossIsNoted' /\ StartsThePrint' /\ WaitsForStopped'
        /\ PreviousIsSeen' /\ OneThread' /\ StopsWithPrint'
        /\ Undisturbed' <=> Undisturbed
        /\ "cut" \in mishaps' <=> "cut" \in mishaps
    BY ThreadFrame, ThreadTypes DEF Thread
  <1>2. thr'[t] = "infer" /\ judged'[t] = seen.id /\ Alive(t)
        /\ UNCHANGED <<stopSet, window, actions>>
    BY DEF LifecycleTypeOK, Loop, Alive
  <1> USE DEF client, actions
  <1>3. WaitsForVerdict' /\ JudgedIsSeen' /\ AskedIsJudged' /\ HitIsJudged'
    BY <1>1, <1>2 DEF WaitsForVerdict, JudgedIsSeen, AskedIsJudged, HitIsJudged
  <1>4. PrintIsScoped'
    BY <1>1, <1>2 DEF PrintIsScoped, Evidence, Alive
  <1>5. ScopeIsThisPrint'
    BY <1>1, <1>2, RunningIsScoped DEF ScopeIsThisPrint
  <1>6. QED
    BY <1>1, <1>3, <1>4, <1>5

LEMMA JudgeStep ==
    ASSUME SafeInv, NEW t \in Threads, NEW verdict \in BOOLEAN, Judge(t, verdict)
    PROVE  WatchedIsSafe'
  <1> USE LifecycleTypes DEF SafeInv, WatchedIsSafe
  <1>1. /\ UNCHANGED <<printer, client, scope>>
        /\ \A u \in Threads : u # t => thr[u] = "dead" /\ thr'[u] = "dead"
        /\ EventsInOrder' /\ LossIsNoted' /\ StartsThePrint' /\ WaitsForStopped'
        /\ PreviousIsSeen' /\ OneThread' /\ StopsWithPrint'
        /\ Undisturbed' <=> Undisturbed
        /\ "cut" \in mishaps' <=> "cut" \in mishaps
    BY ThreadFrame, ThreadTypes DEF Thread
  <1>2. thr[t] = "result" /\ UNCHANGED <<stopSet, actions>>
    BY DEF Judge
  <1>3. HitIsJudged'
    BY <1>2 DEF HitIsJudged, actions
  <1>4. CASE Goes(t, "loop") /\ window' = window
    BY <1>3, <1>4, QuietStep DEF Thread, Stages
  <1>5. CASE /\ ~stopSet /\ Goes(t, IF verdict THEN "judged" ELSE "loop")
             /\ window' = window \cup {judged[t]}
    <2>1. PICK stage \in {"judged", "loop"} : Goes(t, stage)
      BY <1>5
    <2>2. thr'[t] = stage /\ (stage = "judged" => judged'[t] = judged[t])
      BY <2>1, GoesStep DEF Stages, AtWork
    <2> USE DEF client, actions
    <2>3. WaitsForVerdict' /\ JudgedIsSeen' /\ AskedIsJudged'
      BY <1>1, <1>2, <1>5, <2>1, <2>2 DEF WaitsForVerdict, JudgedIsSeen, AskedIsJudged
    <2>4. Undisturbed => judged[t] = scope
      BY <1>2 DEF ScopeIsThisPrint
    <2>5. PrintIsScoped'
      <3>1. \A u \in Threads : Alive(u)' => Alive(u)
        BY <1>1, <1>2 DEF Alive
      <3>2. QED
        BY <1>1, <1>5, <2>4, <3>1 DEF PrintIsScoped, Evidence
    <2>6. ScopeIsThisPrint'
      BY <1>1, <2>1, <2>2, <2>4 DEF ScopeIsThisPrint
    <2>7. QED
      BY <1>1, <1>3, <2>3, <2>5, <2>6
  <1>6. QED
    BY <1>4, <1>5 DEF Judge

LEMMA AskStep ==
    ASSUME SafeInv, NEW t \in Threads, Check(t), Goes(t, "request"),
           asked' = [asked EXCEPT ![t] = [known |-> seen.id, on |-> job.id,
                                          unread |-> queue # <<>>, cut |-> "cut" \in mishaps]]
    PROVE  WatchedIsSafe'
  <1> USE LifecycleTypes DEF SafeInv, WatchedIsSafe
  <1>1. /\ UNCHANGED <<printer, client, scope>>
        /\ \A u \in Threads : u # t => thr[u] = "dead" /\ thr'[u] = "dead"
        /\ EventsInOrder' /\ LossIsNoted' /\ StartsThePrint' /\ WaitsForStopped'
        /\ PreviousIsSeen' /\ OneThread' /\ StopsWithPrint'
        /\ Undisturbed' <=> Undisturbed
        /\ "cut" \in mishaps' <=> "cut" \in mishaps
    BY ThreadFrame, ThreadTypes DEF Thread
  <1>2. thr[t] = "judged" /\ UNCHANGED <<stopSet, window, acted, mishaps>>
    BY DEF Check, print
  <1>3. thr'[t] = "request" /\ judged'[t] = judged[t]
    BY GoesStep DEF Stages, AtWork
  <1>4. /\ asked'[t].known = seen.id /\ asked'[t].on = job.id
        /\ asked'[t].unread <=> queue # <<>>
        /\ asked'[t].cut <=> "cut" \in mishaps
    BY DEF LifecycleTypeOK
  <1>5. "cut" \notin mishaps => judged[t] = seen.id
    BY <1>2 DEF JudgedIsSeen
  <1>6. "cut" \notin mishaps /\ queue = <<>> => job.id = seen.id
    <2>1. "cut" \notin mishaps => link = "up" /\ ws # "down"
      BY <1>2 DEF LossIsNoted, BeforeConnection, Alive
    <2>2. QED
      BY <2>1 DEF EventsInOrder, Latest
  <1> USE DEF client
  <1>7. AskedIsJudged'
    BY <1>1, <1>3, <1>4, <1>5, <1>6 DEF AskedIsJudged
  <1>8. WaitsForVerdict' /\ JudgedIsSeen' /\ HitIsJudged'
    BY <1>1, <1>2, <1>3 DEF WaitsForVerdict, JudgedIsSeen, HitIsJudged
  <1>9. PrintIsScoped'
    BY <1>1, <1>2 DEF PrintIsScoped, Evidence, Alive
  <1>10. ScopeIsThisPrint'
    BY <1>1, <1>2, <1>3 DEF ScopeIsThisPrint
  <1>11. QED
    BY <1>1, <1>7, <1>8, <1>9, <1>10

LEMMA ThreadStep ==
    ASSUME SafeInv, NEW t \in Threads, Thread(t)
    PROVE  WatchedIsSafe'
  <1> USE DEF SafeInv, WatchedIsSafe
  <1>1. {"dead", "loop", "result", "alert", "ending"} \subseteq Stages
    BY DEF Stages
  <1>2. ~(\E ok \in BOOLEAN : Request(t, ok)) => HitIsJudged'
    <2>1. ~(\E ok \in BOOLEAN : Request(t, ok)) => acted' = acted
      BY DEF Thread, Setup, Loop, Infer, Judge, Check, Alerted, End, actions
    <2>2. QED
      BY <2>1 DEF HitIsJudged
  <1>3. ASSUME NEW ok \in BOOLEAN, Setup(t, ok)
        PROVE  WatchedIsSafe'
    <2>1. Goes(t, IF ok THEN "loop" ELSE "dead") /\ window' = window /\ acted' = acted
      BY <1>3 DEF Setup, actions
    <2>2. HitIsJudged'
      BY <2>1 DEF HitIsJudged
    <2>3. QED
      BY <1>1, <2>1, <2>2, QuietStep
  <1>4. CASE Loop(t)
    <2>1. window' = window /\ acted' = acted
      BY <1>4 DEF Loop, actions
    <2>2. HitIsJudged'
      BY <2>1 DEF HitIsJudged
    <2>3. CASE Goes(t, "ending") \/ Goes(t, "alert")
      BY <1>1, <2>1, <2>2, <2>3, QuietStep
    <2>4. QED
      BY <1>4, <2>3, TakeStep DEF Loop
  <1>5. ASSUME NEW ok \in BOOLEAN, Infer(t, ok)
        PROVE  WatchedIsSafe'
    <2>1. thr[t] = "infer" /\ (Goes(t, "result") \/ Goes(t, "loop")) /\ window' = window
          /\ acted' = acted
      BY <1>5 DEF Infer, actions
    <2>2. HitIsJudged'
      BY <2>1 DEF HitIsJudged
    <2>3. QED
      BY <1>1, <2>1, <2>2, QuietStep
  <1>6. CASE Check(t)
    <2>1. window' = window /\ acted' = acted
      BY <1>6 DEF Check
    <2>2. HitIsJudged'
      BY <2>1 DEF HitIsJudged
    <2>3. CASE Goes(t, "alert") \/ Goes(t, "loop")
      BY <1>1, <2>1, <2>2, <2>3, QuietStep
    <2>4. QED
      BY <1>6, <2>3, AskStep DEF Check
  <1>7. ASSUME NEW ok \in BOOLEAN, Request(t, ok)
        PROVE  WatchedIsSafe'
    <2>1. thr[t] = "request" /\ Goes(t, "alert") /\ window' = window
      BY <1>7 DEF Request
    <2>2. HitIsJudged'
      <3>1. CASE acted' = acted
        BY <3>1 DEF HitIsJudged
      <3>2. CASE acted' = [judged |-> judged[t], hit |-> job.id,
                           late |-> asked[t].cut \/ asked[t].unread \/ asked[t].on # job.id]
        <4>1. /\ acted'.judged = judged[t] /\ acted'.hit = job.id
              /\ acted'.late = (asked[t].cut \/ asked[t].unread \/ asked[t].on # job.id)
          BY <3>2
        <4>2. asked[t].cut \in BOOLEAN /\ asked[t].unread \in BOOLEAN
          BY DEF LifecycleTypeOK, Question
        <4>3. ~acted'.late => ~asked[t].cut /\ ~asked[t].unread /\ asked[t].on = job.id
          BY <4>1, <4>2
        <4>4. QED
          BY <2>1, <4>1, <4>3 DEF AskedIsJudged, HitIsJudged
      <3>3. QED
        BY <1>7, <3>1, <3>2 DEF Request
    <2>3. QED
      BY <1>1, <2>1, <2>2, QuietStep
  <1>8. CASE Alerted(t)
    <2>1. Goes(t, "loop") /\ window' = window /\ acted' = acted
      BY <1>8 DEF Alerted, actions
    <2>2. HitIsJudged'
      BY <2>1 DEF HitIsJudged
    <2>3. QED
      BY <1>1, <2>1, <2>2, QuietStep
  <1>9. CASE End(t)
    <2>1. Goes(t, "dead") /\ window' = window /\ acted' = acted
      BY <1>9 DEF End, actions
    <2>2. HitIsJudged'
      BY <2>1 DEF HitIsJudged
    <2>3. QED
      BY <1>1, <2>1, <2>2, QuietStep
  <1>10. QED
    BY <1>3, <1>4, <1>5, <1>6, <1>7, <1>8, <1>9, JudgeStep DEF Thread

LEMMA LifecycleStep == LifecycleInv /\ [LifecycleNext]_lifecycleVars => LifecycleInv'
  <1> SUFFICES ASSUME LifecycleInv, [LifecycleNext]_lifecycleVars PROVE LifecycleInv'
    OBVIOUS
  <1>1. LifecycleTypeOK' /\ OpenHasQueue' /\ BeforeConnection'
    BY LifecycleTypeStep, ConnectionStep DEF LifecycleInv
  <1>2. ASSUME NotCrossed' PROVE WatchedIsSafe'
    <2>1. SafeInv
      BY <1>2, CrossedStays DEF LifecycleInv, SafeInv
    <2>2. CASE LifecycleNext
      BY <1>2, <2>1, <2>2, PrinterStep, ClientStep, StateChangeStep, JoinedStep, StartStep,
         ThreadStep DEF LifecycleNext, WsThread
    <2>3. CASE UNCHANGED lifecycleVars
      <3> USE <2>3 DEF lifecycleVars, SafeInv, WatchedIsSafe
      <3>1. EventsInOrder' /\ LossIsNoted' /\ OneThread' /\ StartsThePrint' /\ WaitsForStopped'
        BY <2>1 DEF EventsInOrder, Follows, Before, Latest, LossIsNoted, OneThread,
           StartsThePrint, WaitsForStopped, Alive
      <3>2. WaitsForVerdict' /\ StopsWithPrint' /\ PreviousIsSeen' /\ JudgedIsSeen'
        BY <2>1 DEF WaitsForVerdict, StopsWithPrint, PreviousIsSeen, JudgedIsSeen, Alive
      <3>3. AskedIsJudged' /\ HitIsJudged' /\ PrintIsScoped' /\ ScopeIsThisPrint'
        BY <2>1 DEF AskedIsJudged, HitIsJudged, PrintIsScoped, ScopeIsThisPrint, Undisturbed,
           Evidence, Alive
      <3>4. QED
        BY <3>1, <3>2, <3>3
    <2>4. QED
      BY <2>2, <2>3
  <1>3. QED
    BY <1>1, <1>2 DEF LifecycleInv

\* The client, the handler, the main thread and the detection threads keep their states.
THEOREM LifecycleTypeCorrect == LifecycleSpec => []LifecycleTypeOK
  <1>1. LifecycleInv => LifecycleTypeOK
    BY DEF LifecycleInv
  <1>2. QED
    BY <1>1, LifecycleInitInv, LifecycleStep, PTL DEF LifecycleSpec

\* A frame taken during one print never makes the handler ask for the next, whatever was
\* slow, while no event was lost; and the print that is hit is the one judged unless its end
\* was unread at the handler's check or fell into the request.
THEOREM ActsOnThePrintJudged == LifecycleSpec => []ActsOnJudgedPrint
  <1>1. LifecycleInv => ActsOnJudgedPrint
    BY DEF LifecycleInv, WatchedIsSafe, AskedIsJudged, HitIsJudged, ActsOnJudgedPrint
  <1>2. QED
    BY <1>1, LifecycleInitInv, LifecycleStep, PTL DEF LifecycleSpec

\* The failures that count are of one print only.
THEOREM WindowHoldsOnePrint == LifecycleSpec => []WindowIsOnePrint
  <1>1. LifecycleInv => WindowIsOnePrint
    <2> SUFFICES ASSUME LifecycleInv, Undisturbed PROVE Cardinality(Evidence) <= 1
      BY DEF WindowIsOnePrint
    <2>1. Evidence \subseteq {scope}
      BY DEF LifecycleInv, WatchedIsSafe, PrintIsScoped, Undisturbed, NotCrossed
    <2>2. IsFiniteSet({scope}) /\ Cardinality({scope}) = 1
      BY FS_Singleton
    <2>3. Cardinality(Evidence) <= Cardinality({scope})
      BY <2>1, <2>2, FS_Subset
    <2>4. QED
      BY <2>2, <2>3
  <1>2. QED
    BY <1>1, LifecycleInitInv, LifecycleStep, PTL DEF LifecycleSpec

\* A print that is watched has had its new_print(): mute, quota and confirmations are
\* its own.
THEOREM ScopeIsOfPrintWatched == LifecycleSpec => []ScopeIsThisPrint
  <1>1. LifecycleInv => ScopeIsThisPrint
    BY DEF LifecycleInv, WatchedIsSafe, ScopeIsThisPrint, Undisturbed, NotCrossed
  <1>2. QED
    BY <1>1, LifecycleInitInv, LifecycleStep, PTL DEF LifecycleSpec

\* Where main does not start detection itself no two start() calls cross.
HandlerStarts ==
    "boot" \notin may => main = "running" /\ "boot" \notin mishaps /\ NotCrossed

LEMMA HandlerStartsStep ==
    LifecycleInv /\ HandlerStarts /\ [LifecycleNext]_lifecycleVars => HandlerStarts'
  <1> SUFFICES ASSUME LifecycleInv, HandlerStarts, [LifecycleNext]_lifecycleVars,
                      "boot" \notin may'
               PROVE  main' = "running" /\ "boot" \notin mishaps' /\ NotCrossed'
    BY DEF HandlerStarts
  <1> USE DEF printer, client, print, NotCrossed
  <1>1. may' = may
    BY DEF LifecycleNext, lifecycleVars, JobChanges, Retell, Disconnect, WsThread, Connect,
       ConnectionLost, Receive, OnStateChange, StartLooks, StartCreates, Joined, Main,
       MainChecks, MainLooks, MainCreates, Thread, Setup, Loop, Infer, Judge, Check, Request,
       Alerted, End
  <1>2. main = "running" /\ "boot" \notin mishaps /\ "crossed" \notin mishaps
    BY <1>1 DEF HandlerStarts
  <1>3. ASSUME NEW t \in Threads, Thread(t)
        PROVE  main' = "running" /\ "boot" \notin mishaps' /\ NotCrossed'
    BY <1>2, <1>3, ThreadTypes DEF LifecycleInv
  <1>4. CASE StartCreates
    <2>1. StartsThePrint /\ ws = "create" /\ main' = main /\ mishaps' = mishaps \cup Crossed
      BY <1>2, <1>4 DEF LifecycleInv, WatchedIsSafe, StartCreates
    <2>2. Crossed = {}
      BY <1>2, <2>1 DEF StartsThePrint, Crossed
    <2>3. QED
      BY <1>2, <2>1, <2>2
  <1>5. CASE (\E phase \in Phases : JobChanges(phase)) \/ Retell \/ Disconnect
    BY <1>2, <1>5 DEF JobChanges, Retell, Disconnect
  <1>6. CASE Connect \/ ConnectionLost \/ Receive \/ StartLooks \/ Joined
    BY <1>2, <1>6 DEF Connect, ConnectionLost, Receive, StartLooks, Joined
  <1>7. CASE OnStateChange
    BY <1>2, <1>7 DEF OnStateChange, NewPrint
  <1>8. ~Main
    BY <1>2 DEF Main, MainChecks, MainLooks, MainCreates
  <1>9. CASE UNCHANGED lifecycleVars
    BY <1>2, <1>9 DEF lifecycleVars
  <1>10. QED
    BY <1>3, <1>4, <1>5, <1>6, <1>7, <1>8, <1>9 DEF LifecycleNext, WsThread

\* Where detection is started by the handler alone there are never two detection threads,
\* however often stop() times out, the connection breaks, and set-up fails; and none is
\* begun for a printer that is known to have stopped.
THEOREM NeverTwoThreads ==
    LifecycleSpec =>
        []("boot" \notin may =>
             NotCrossed /\ \A t, u \in Threads : Alive(t) /\ Alive(u) => t = u)
  <1>1. LifecycleInv /\ HandlerStarts =>
            ("boot" \notin may =>
               NotCrossed /\ \A t, u \in Threads : Alive(t) /\ Alive(u) => t = u)
    BY DEF LifecycleInv, HandlerStarts, WatchedIsSafe, OneThread
  <1>2. LifecycleInit => HandlerStarts
    BY DEF LifecycleInit, HandlerStarts, NotCrossed
  <1>3. QED
    BY <1>1, <1>2, LifecycleInitInv, LifecycleStep, HandlerStartsStep, PTL DEF LifecycleSpec

(* "Start and stop detecting with the print", as far as safety goes *)

\* Between two events there is a detection thread exactly while the client believes the
\* printer to be printing, unless the set-up failed, a stop() timed out or two start()
\* calls crossed.
Sound == {"crossed", "overrun", "setup"} \cap mishaps = {}

WatchesThePrint ==
    Sound /\ ws \in {"read", "down"} =>
        (seen.phase = "printing" <=> \E t \in Threads : Alive(t))

StoppedIsAwaited ==
    NotCrossed /\ "overrun" \notin mishaps =>
        \A t \in Threads : Alive(t) /\ stopSet => ws = "join"

EndsWhenStopped == NotCrossed => \A t \in Threads : thr[t] = "ending" => stopSet

Watches == WatchesThePrint /\ StoppedIsAwaited /\ EndsWhenStopped

WatchInv == LifecycleInv /\ Watches

LEMMA WatchInitInv == LifecycleInit => WatchInv
  BY LifecycleInitInv
     DEF LifecycleInit, WatchInv, Watches, WatchesThePrint, StoppedIsAwaited, EndsWhenStopped,
         Alive

\* The threads as the handler finds them.
LEMMA RunningIsAlive ==
    ASSUME SafeInv
    PROVE  Running <=> \E t \in Threads : Alive(t)
  BY LifecycleTypes DEF SafeInv, WatchedIsSafe, LifecycleTypeOK, OneThread, Running

LEMMA WatchOfEvents ==
    ASSUME SafeInv, Watches, NotCrossed,
           \/ (\E phase \in Phases : JobChanges(phase)) \/ Retell \/ Disconnect
           \/ Connect \/ ConnectionLost \/ Receive
    PROVE  Watches'
  <1>1. /\ UNCHANGED <<thr, stopSet>>
        /\ "overrun" \in mishaps' <=> "overrun" \in mishaps
        /\ Sound' => Sound
    BY DEF JobChanges, Retell, Disconnect, Connect, ConnectionLost, Receive, detector,
       print, Sound
  <1>2. \/ ws' = ws /\ seen' = seen
        \/ ws \in {"read", "down"} /\ ws' = "emit"
        \/ ws = "read" /\ ws' \in {"read", "down"} /\ seen'.phase = seen.phase
    <2>1. CASE (\E phase \in Phases : JobChanges(phase)) \/ Retell \/ Disconnect
      BY <2>1 DEF JobChanges, Retell, Disconnect, client
    <2>2. CASE Connect \/ ConnectionLost
      BY <2>2 DEF Connect, ConnectionLost
    <2>3. CASE Receive
      <3>1. CASE Head(queue).kind = "retold" \/ Head(queue).phase # seen.phase
        BY <2>3, <3>1 DEF Receive
      <3>2. CASE Head(queue).kind # "retold" /\ Head(queue).phase = seen.phase
        BY <2>3, <3>2 DEF Receive
      <3>3. QED
        BY <3>1, <3>2
    <2>4. QED
      BY <2>1, <2>2, <2>3
  <1>3. WatchesThePrint'
    BY <1>1, <1>2 DEF Watches, WatchesThePrint, Alive
  <1>4. StoppedIsAwaited' /\ EndsWhenStopped'
    BY <1>1, <1>2 DEF Watches, StoppedIsAwaited, EndsWhenStopped, Alive
  <1>5. QED
    BY <1>3, <1>4 DEF Watches

LEMMA WatchOfHandler ==
    ASSUME SafeInv, Watches, NotCrossed, NotCrossed',
           OnStateChange \/ StartLooks \/ StartCreates \/ Joined \/ Main
    PROVE  Watches'
  <1> USE LifecycleTypes DEF SafeInv, WatchedIsSafe, Watches
  <1>1. ASSUME NEW new \in BOOLEAN, Spawn(new), seen' = seen, NEW other,
               mishaps' = other \cup Crossed
        PROVE  Watches'
    <2>1. seen.phase = "printing" /\ \A t \in Threads : ~Alive(t)
      BY <1>1 DEF NotCrossed, Crossed
    <2>2. /\ \A t \in Threads : thr'[t] \in {"dead", "setup"}
          /\ \E t \in Threads : thr'[t] = "setup"
          /\ stopSet' = FALSE
      BY <1>1, <2>1, SpawnStep DEF Alive
    <2>3. QED
      BY <1>1, <2>1, <2>2 DEF WatchesThePrint, StoppedIsAwaited, EndsWhenStopped, Alive
  <1>2. CASE OnStateChange
    <2>1. ws = "emit" /\ seen' = seen
      BY <1>2 DEF OnStateChange
    <2>2. CASE ~Running /\ ws' = "start" /\ UNCHANGED detector
      <3>1. \A t \in Threads : ~Alive(t)
        BY <2>2, RunningIsAlive
      <3>2. QED
        BY <2>2, <3>1 DEF detector, WatchesThePrint, StoppedIsAwaited, EndsWhenStopped, Alive
    <2>3. CASE ws' = "join" /\ stopSet' = TRUE /\ UNCHANGED <<thr, print>>
      BY <2>3 DEF WatchesThePrint, StoppedIsAwaited, EndsWhenStopped
    <2>4. CASE /\ (seen.phase = "printing") = Running
               /\ ws' = "read"
               /\ UNCHANGED <<detector, print>>
      <3>1. seen.phase = "printing" <=> \E t \in Threads : Alive(t)
        <4>1. Running \in BOOLEAN
          BY DEF Running, Alive
        <4>2. QED
          BY <2>4, <4>1, RunningIsAlive
      <3>2. QED
        BY <2>1, <2>4, <3>1 DEF WatchesThePrint, StoppedIsAwaited, EndsWhenStopped, Alive,
           detector, print
    <2>5. QED
      BY <1>2, <2>2, <2>3, <2>4 DEF OnStateChange
  <1>3. CASE Joined
    <2>1. /\ ws = "join" /\ ws' = "read"
          /\ mishaps' = (IF Alive(joining) /\ stopSet THEN mishaps \cup {"overrun"} ELSE mishaps)
          /\ UNCHANGED <<seen, thr, stopSet>>
      BY <1>3 DEF Joined
    <2>2. joining = current /\ stopSet /\ seen.phase # "printing"
      BY <2>1 DEF WaitsForStopped
    <2>3. (\E t \in Threads : Alive(t)) => "overrun" \in mishaps'
      BY <2>1, <2>2 DEF OneThread
    <2>4. QED
      BY <2>1, <2>2, <2>3 DEF WatchesThePrint, StoppedIsAwaited, EndsWhenStopped, Sound, Alive
  <1>4. CASE StartLooks
    <2>1. /\ ws = "start" /\ seen' = seen /\ UNCHANGED <<detector, print>>
          /\ ws' = "create" \/ (ws' = "read" /\ Running)
      BY <1>4 DEF StartLooks
    <2>2. seen.phase = "printing"
      BY <2>1 DEF StartsThePrint
    <2>3. QED
      BY <2>1, <2>2, RunningIsAlive DEF detector, print, WatchesThePrint, StoppedIsAwaited,
         EndsWhenStopped, Alive
  <1>5. CASE StartCreates
    BY <1>1, <1>5 DEF StartCreates
  <1>6. CASE Main
    <2>1. CASE MainCreates
      BY <1>1, <2>1 DEF MainCreates, client
    <2>2. CASE MainChecks \/ MainLooks
      BY <2>2 DEF MainChecks, MainLooks, client, detector, print, WatchesThePrint,
         StoppedIsAwaited, EndsWhenStopped, Sound, NotCrossed, Alive
    <2>3. QED
      BY <1>6, <2>1, <2>2 DEF Main
  <1>7. QED
    BY <1>2, <1>3, <1>4, <1>5, <1>6

LEMMA WatchOfThread ==
    ASSUME SafeInv, Watches, NotCrossed, NEW t \in Threads, Thread(t)
    PROVE  Watches'
  <1> USE LifecycleTypes DEF SafeInv, WatchedIsSafe, Watches
  <1>1. /\ Alive(t) /\ UNCHANGED client
        /\ \A u \in Threads : u # t => thr[u] = "dead" /\ thr'[u] = "dead"
    BY ThreadFrame, ThreadTypes
  <1>2. ASSUME thr'[t] = "dead", "setup" \in mishaps' \/ seen.phase # "printing" \/ ws = "join"
                                 \/ "overrun" \in mishaps'
        PROVE  Watches'
    BY <1>1, <1>2 DEF WatchesThePrint, StoppedIsAwaited, EndsWhenStopped, Sound, Alive, client
  <1>3. CASE Setup(t, FALSE)
    <2>1. Goes(t, "dead") /\ mishaps' = mishaps \cup {"setup"} /\ "dead" \in Stages
      BY <1>3, Zenon DEF Setup, Stages
    <2>2. QED
      BY <1>2, <2>1, GoesStep
  <1>4. CASE End(t)
    <2>1. Goes(t, "dead") /\ mishaps' = mishaps /\ thr[t] = "ending" /\ "dead" \in Stages
      BY <1>4 DEF End, print, Stages
    <2>2. "overrun" \notin mishaps => ws = "join"
      BY <1>1, <2>1 DEF StoppedIsAwaited, EndsWhenStopped
    <2>3. QED
      BY <1>2, <2>1, <2>2, GoesStep
  <1>5. CASE ~Setup(t, FALSE) /\ ~End(t)
    <2>1. /\ stopSet' = stopSet /\ mishaps' = mishaps
          /\ thr'[t] # "dead" /\ (thr'[t] = "ending" => stopSet)
      <3>1. /\ stopSet' = stopSet /\ mishaps' = mishaps
            /\ \E stage \in {"loop", "infer", "result", "judged", "request", "alert", "ending"} :
                  thr' = [thr EXCEPT ![t] = stage] /\ (stage = "ending" => stopSet)
        BY <1>5 DEF Thread, Setup, Loop, Infer, Judge, Check, Request, Alerted, Goes, print
      <3>2. QED
        BY <3>1 DEF LifecycleTypeOK
    <2>2. \A u \in Threads : Alive(u)' <=> Alive(u)
      BY <1>1, <2>1 DEF Alive
    <2>3. \A u \in Threads : thr'[u] = "ending" => stopSet'
      BY <1>1, <2>1
    <2>4. QED
      BY <1>1, <2>1, <2>2, <2>3 DEF WatchesThePrint, StoppedIsAwaited, EndsWhenStopped, Sound,
         NotCrossed, client
  <1>6. QED
    BY <1>3, <1>4, <1>5

LEMMA WatchStep == WatchInv /\ [LifecycleNext]_lifecycleVars => WatchInv'
  <1> SUFFICES ASSUME WatchInv, [LifecycleNext]_lifecycleVars PROVE WatchInv'
    OBVIOUS
  <1>1. LifecycleInv'
    BY LifecycleStep DEF WatchInv
  <1>2. CASE ~NotCrossed'
    BY <1>1, <1>2 DEF WatchInv, Watches, WatchesThePrint, StoppedIsAwaited, EndsWhenStopped,
       Sound, NotCrossed
  <1>3. CASE NotCrossed'
    <2>1. NotCrossed /\ SafeInv /\ Watches
      BY <1>3, CrossedStays DEF WatchInv, LifecycleInv, SafeInv
    <2>2. CASE LifecycleNext
      BY <1>1, <1>3, <2>1, <2>2, WatchOfEvents, WatchOfHandler, WatchOfThread
         DEF LifecycleNext, WsThread, WatchInv
    <2>3. CASE UNCHANGED lifecycleVars
      BY <1>1, <2>1, <2>3 DEF lifecycleVars, WatchInv, Watches, WatchesThePrint,
         StoppedIsAwaited, EndsWhenStopped, Sound, NotCrossed, Alive
    <2>4. QED
      BY <2>2, <2>3
  <1>4. QED
    BY <1>2, <1>3

\* __main__.py: "Start and stop detecting with the print."  What the liveness of the
\* model's runs promises in the end holds after every event that was handled.
THEOREM DetectsWithThePrint == LifecycleSpec => []WatchesThePrint
  <1>1. WatchInv => WatchesThePrint
    BY DEF WatchInv, Watches
  <1>2. QED
    BY <1>1, WatchInitInv, WatchStep, PTL DEF LifecycleSpec

(* The promise *)

\* A thread on its way to the handler has counted the frame it judged.
VerdictIsCounted ==
    NotCrossed => \A t \in Threads : thr[t] = "judged" => judged[t] \in window

GuardInv == LifecycleInv /\ VerdictIsCounted

LEMMA GuardInitInv == LifecycleInit => GuardInv
  BY LifecycleInitInv DEF LifecycleInit, GuardInv, VerdictIsCounted

LEMMA GuardStep == GuardInv /\ [LifecycleNext]_lifecycleVars => GuardInv'
  <1> SUFFICES ASSUME GuardInv, [LifecycleNext]_lifecycleVars, NotCrossed'
               PROVE  \A t \in Threads : thr'[t] = "judged" => judged'[t] \in window'
    BY LifecycleStep DEF GuardInv, VerdictIsCounted
  <1> USE LifecycleTypes
  <1>1. LifecycleTypeOK /\ SafeInv /\ \A t \in Threads : thr[t] = "judged" => judged[t] \in window
    BY CrossedStays DEF GuardInv, LifecycleInv, SafeInv, VerdictIsCounted
  <1>2. CASE UNCHANGED <<thr, judged, window>>
    BY <1>1, <1>2
  <1>3. ASSUME NEW new \in BOOLEAN, Spawn(new), NEW other, mishaps' = other \cup Crossed
        PROVE  \A t \in Threads : thr'[t] # "judged"
    <2>1. \A t \in Threads : ~Alive(t)
      BY <1>3 DEF NotCrossed, Crossed
    <2>2. QED
      BY <1>1, <1>3, <2>1, SpawnStep DEF Alive
  <1>4. CASE StartCreates \/ MainCreates
    BY <1>1, <1>3, <1>4 DEF StartCreates, MainCreates
  <1>5. ASSUME NEW t \in Threads, Thread(t)
        PROVE  \A u \in Threads : thr'[u] = "judged" => judged'[u] \in window'
    <2>1. \A u \in Threads : u # t => thr'[u] # "judged"
      BY <1>1, <1>5, ThreadFrame
    <2>2. CASE \E verdict \in BOOLEAN : Judge(t, verdict)
      <3>1. \/ Goes(t, "loop")
            \/ window' = window \cup {judged[t]} /\ \E stage \in {"judged", "loop"} : Goes(t, stage)
        BY <2>2 DEF Judge
      <3>2. "judged" \in Stages /\ "loop" \in Stages /\ "judged" \in AtWork
        BY DEF Stages, AtWork
      <3>3. QED
        BY <1>1, <2>1, <3>1, <3>2, GoesStep
    <2>3. CASE ~\E verdict \in BOOLEAN : Judge(t, verdict)
      <3>1. \E stage \in Stages \ {"judged"} : thr' = [thr EXCEPT ![t] = stage]
        BY <1>5, <2>3 DEF Thread, Setup, Loop, Infer, Check, Request, Alerted, End, Goes, Stages
      <3>2. thr'[t] # "judged"
        BY <1>1, <3>1 DEF LifecycleTypeOK
      <3>3. QED
        BY <2>1, <3>2
    <2>4. QED
      BY <2>2, <2>3
  <1>6. CASE \/ (\E phase \in Phases : JobChanges(phase)) \/ Retell \/ Disconnect
             \/ Connect \/ ConnectionLost \/ Receive \/ OnStateChange \/ StartLooks \/ Joined
             \/ MainChecks \/ MainLooks \/ UNCHANGED lifecycleVars
    BY <1>2, <1>6 DEF JobChanges, Retell, Disconnect, Connect, ConnectionLost, Receive,
       OnStateChange, StartLooks, Joined, MainChecks, MainLooks, detector, lifecycleVars
  <1>7. QED
    BY <1>4, <1>5, <1>6 DEF LifecycleNext, WsThread, Main

guardVars == <<scope, Evidence, Requests, job.id, acted.hit, ~Undisturbed>>

\* The requests on their way are those of the threads at one.
LEMMA SameRequests ==
    ASSUME \A t \in Threads : thr'[t] = "request" <=> thr[t] = "request",
           \A t \in Threads : thr[t] = "request" => asked'[t] = asked[t]
    PROVE  Requests' = Requests
  BY DEF Requests

\* What an excused step may do.
LEMMA ExcusedStep ==
    ASSUME LifecycleTypeOK', ~Undisturbed, ~Undisturbed', scope' = scope, job' = job
    PROVE  Guard!Next
  <1>1. Evidence' \in SUBSET Jobs
    BY DEF LifecycleTypeOK, Evidence
  <1>2. Requests' \in SUBSET Jobs
    BY DEF LifecycleTypeOK, Requests, Question
  <1>3. acted'.hit \in Jobs
    BY DEF LifecycleTypeOK
  <1>4. Guard!WhileExcused
    BY <1>1, <1>2, <1>3 DEF Guard!WhileExcused
  <1>5. QED
    BY <1>4 DEF Guard!Next

\* The steps of the printer, the connection and the handler are PrintGuard's.
LEMMA EventRefines ==
    ASSUME LifecycleInv, LifecycleTypeOK',
           \/ (\E phase \in Phases : JobChanges(phase)) \/ Retell \/ Disconnect
           \/ WsThread \/ Main
    PROVE  [Guard!Next]_guardVars
  <1> USE LifecycleTypes DEF LifecycleInv
  <1>1. /\ actions' = actions
        /\ \A t \in Threads : thr'[t] = "request" <=> thr[t] = "request"
    <2>1. CASE StartCreates \/ MainCreates
      <3>1. actions' = actions /\ \E new \in BOOLEAN : Spawn(new)
        BY <2>1 DEF StartCreates, MainCreates
      <3>2. QED
        BY <3>1, SpawnStep
    <2>2. CASE ~StartCreates /\ ~MainCreates
      BY <2>2 DEF JobChanges, Retell, Disconnect, WsThread, Connect, ConnectionLost, Receive,
         OnStateChange, StartLooks, Joined, Main, MainChecks, MainLooks, detector
    <2>3. QED
      BY <2>1, <2>2
  <1>2. Requests' = Requests /\ acted' = acted
    BY <1>1, SameRequests DEF actions
  <1>3. CASE UNCHANGED <<scope, Evidence, mishaps>> /\ job' = job
    BY <1>2, <1>3 DEF guardVars, Undisturbed
  <1>4. CASE /\ scope' = scope /\ job' = job /\ Evidence' \in {Evidence, {}} /\ ~Undisturbed'
    <2>1. Guard!Mishap
      BY <1>2, <1>4 DEF Guard!Mishap
    <2>2. QED
      BY <2>1 DEF Guard!Next
  <1>5. CASE job' = job /\ Evidence' = {}
    <2>1. (~Undisturbed)' \in BOOLEAN
      BY DEF Undisturbed
    <2>2. scope' \in Jobs
      BY DEF LifecycleTypeOK
    <2>3. Guard!Begin(scope')
      BY <1>2, <1>5, <2>1 DEF Guard!Begin
    <2>4. QED
      BY <2>2, <2>3 DEF Guard!Next
  <1>6. CASE \E phase \in Phases : JobChanges(phase)
    <2>1. UNCHANGED <<scope, Evidence>> /\ (~Undisturbed)' = ~Undisturbed
      BY <1>6 DEF JobChanges, print, client, detector, Evidence, Undisturbed
    <2>2. job'.id \in Jobs
      BY DEF LifecycleTypeOK, View
    <2>3. Guard!PrinterGoesOn
      BY <1>2, <2>1, <2>2 DEF Guard!PrinterGoesOn
    <2>4. QED
      BY <2>3 DEF Guard!Next
  <1>7. CASE Retell \/ ConnectionLost \/ Receive \/ MainChecks \/ MainLooks
    BY <1>3, <1>7 DEF Retell, ConnectionLost, Receive, MainChecks, MainLooks, printer, client,
       detector, print, Evidence
  <1>8. CASE Disconnect
    BY <1>4, <1>8 DEF Disconnect, client, detector, Evidence, Undisturbed
  <1>9. CASE Connect
    <2>1. /\ job' = job /\ UNCHANGED <<window, fresh>>
          /\ mishaps' = mishaps \/ mishaps' = mishaps \cup {"cut"}
          /\ previous # "none" => scope' = scope
          /\ ws = "down"
      BY <1>9 DEF Connect, detector
    <2>2. CASE previous = "none"
      BY <1>5, <2>1, <2>2 DEF BeforeConnection, Evidence
    <2>3. CASE previous # "none"
      BY <1>3, <1>4, <2>1, <2>3 DEF Evidence, Undisturbed
    <2>4. QED
      BY <2>2, <2>3
  <1>10. CASE OnStateChange
    <2>1. job' = job /\ window' = window
      BY <1>10 DEF OnStateChange, printer, detector
    <2>2. CASE fresh' = TRUE /\ ws' = "start"
      BY <1>5, <2>1, <2>2 DEF Evidence
    <2>3. CASE fresh' = FALSE /\ ws' = "start"
      <3>1. scope' = scope /\ mishaps' = mishaps /\ ws = "emit"
        BY <1>10, <2>3 DEF OnStateChange, print
      <3>2. CASE fresh
        <4>1. ~NotCrossed
          BY <3>1, <3>2 DEF WatchedIsSafe, StartsThePrint
        <4>2. QED
          BY <2>1, <3>1, <4>1, ExcusedStep DEF Undisturbed, NotCrossed
      <3>3. CASE ~fresh
        BY <1>3, <2>1, <2>3, <3>1, <3>3 DEF Evidence
      <3>4. QED
        BY <3>2, <3>3
    <2>4. CASE ws' # "start"
      <3>1. UNCHANGED <<fresh, scope, mishaps>>
        BY <1>10, <2>4 DEF OnStateChange, print
      <3>2. QED
        BY <1>3, <2>1, <3>1 DEF Evidence
    <2>5. fresh' \in BOOLEAN
      BY DEF LifecycleTypeOK
    <2>6. QED
      BY <2>2, <2>3, <2>4, <2>5
  <1>11. CASE StartLooks
    <2>1. ws = "start" /\ job' = job /\ UNCHANGED <<window, scope, mishaps>>
      BY <1>11 DEF StartLooks, printer, detector, print
    <2>2. CASE Running
      <3>1. ~Undisturbed
        <4>1. current \in Threads /\ Alive(current)
          BY <2>2 DEF Running, LifecycleTypeOK
        <4>2. QED
          BY <2>1, <4>1 DEF WatchedIsSafe, StartsThePrint, Undisturbed, NotCrossed
      <3>2. QED
        BY <2>1, <3>1, ExcusedStep DEF Undisturbed
    <2>3. CASE ~Running
      <3>1. fresh' = fresh
        BY <1>11, <2>3 DEF StartLooks
      <3>2. QED
        BY <1>3, <2>1, <3>1 DEF Evidence
    <2>4. QED
      BY <2>2, <2>3
  <1>12. CASE StartCreates
    <2>1. /\ job' = job /\ scope' = scope /\ Spawn(fresh) /\ fresh' = FALSE
          /\ mishaps' = mishaps \cup Crossed /\ Crossed \in {{}, {"crossed"}}
      BY <1>12 DEF StartCreates, printer, Crossed
    <2>2. Evidence' = Evidence
      BY <2>1, SpawnStep DEF Evidence
    <2>3. mishaps' = mishaps \/ ~Undisturbed'
      BY <2>1 DEF Undisturbed
    <2>4. QED
      BY <1>3, <1>4, <2>1, <2>2, <2>3
  <1>13. CASE Joined
    <2>1. /\ job' = job /\ UNCHANGED <<window, fresh, scope>>
          /\ mishaps' = mishaps \/ mishaps' = mishaps \cup {"overrun"}
      BY <1>13 DEF Joined, printer
    <2>2. QED
      BY <1>3, <1>4, <2>1 DEF Evidence, Undisturbed
  <1>14. CASE MainCreates
    <2>1. job' = job /\ scope' = scope /\ Spawn(TRUE) /\ "boot" \in mishaps'
      BY <1>14 DEF MainCreates, printer
    <2>2. Evidence' = {} /\ ~Undisturbed'
      BY <2>1, SpawnStep DEF Evidence, Undisturbed
    <2>3. QED
      BY <1>4, <2>1, <2>2
  <1>15. QED
    BY <1>6, <1>7, <1>8, <1>9, <1>10, <1>11, <1>12, <1>13, <1>14 DEF WsThread, Main

\* A frame that counts, a request and its answer are PrintGuard's.
LEMMA ThreadRefines ==
    ASSUME GuardInv, LifecycleTypeOK', NEW t \in Threads, Thread(t)
    PROVE  [Guard!Next]_guardVars
  <1> USE LifecycleTypes DEF GuardInv, LifecycleInv
  <1>1. /\ Alive(t) /\ job' = job /\ fresh' = fresh /\ scope' = scope
        /\ Undisturbed' <=> Undisturbed
        /\ \A u \in Threads : u # t => thr'[u] = thr[u] /\ asked'[u] = asked[u]
    BY ThreadTypes DEF printer, client, Undisturbed
  <1>2. CASE ~Undisturbed
    BY <1>1, <1>2, ExcusedStep
  <1>3. CASE Undisturbed
    <2>1. SafeInv /\ NotCrossed
      BY <1>3 DEF SafeInv, Undisturbed, NotCrossed
    <2>2. \A u \in Threads : u # t => thr[u] = "dead" /\ thr'[u] = "dead"
      BY <2>1, ThreadFrame
    <2>3. ~fresh
      BY <1>1, <1>3, <2>1 DEF WatchedIsSafe, StartsThePrint, Undisturbed
    <2>4. Evidence = window /\ Evidence' = window'
      BY <1>1, <2>3 DEF Evidence
    <2>5. CASE Check(t) /\ Goes(t, "request")
      <3>1. /\ thr[t] = "judged" /\ window' = window /\ acted' = acted
            /\ asked' = [asked EXCEPT ![t] = [known |-> seen.id, on |-> job.id,
                                              unread |-> queue # <<>>, cut |-> "cut" \in mishaps]]
        <4>1. "alert" \in Stages /\ "loop" \in Stages /\ "request" \in Stages
          BY DEF Stages
        <4>2. thr'[t] = "request"
          BY <2>5, <4>1, GoesStep
        <4>3. ~Goes(t, "alert") /\ ~Goes(t, "loop")
          BY <4>1, <4>2, GoesStep
        <4>4. QED
          BY <2>5, <4>3 DEF Check
      <3>2. judged[t] = scope /\ judged[t] = seen.id /\ judged[t] \in window
        BY <1>3, <2>1, <3>1 DEF WatchedIsSafe, ScopeIsThisPrint, JudgedIsSeen, VerdictIsCounted,
           Undisturbed
      <3>3. thr'[t] = "request" /\ asked'[t].known = seen.id
        <4>1. "request" \in Stages
          BY DEF Stages
        <4>2. QED
          BY <2>5, <3>1, <4>1, GoesStep DEF LifecycleTypeOK
      <3>4. Requests = {} /\ Requests' = {seen.id}
        BY <2>2, <3>1, <3>3 DEF Requests
      <3>5. Guard!Ask
        BY <1>1, <2>4, <3>1, <3>2, <3>4 DEF Guard!Ask
      <3>6. QED
        BY <3>5 DEF Guard!Next
    <2>6. CASE \E ok \in BOOLEAN : Request(t, ok)
      <3>1. /\ thr[t] = "request" /\ window' = window /\ Goes(t, "alert")
            /\ acted' = acted \/ acted'.hit = job.id
        BY <2>6 DEF Request
      <3>2. thr'[t] = "alert"
        <4>1. "alert" \in Stages
          BY DEF Stages
        <4>2. QED
          BY <3>1, <4>1, GoesStep
      <3>3. Requests = {asked[t].known} /\ Requests' = {} /\ asked[t].known \in Jobs
        <4>1. {u \in Threads : thr[u] = "request"} = {t}
          BY <2>2, <3>1
        <4>2. {u \in Threads : thr'[u] = "request"} = {}
          BY <2>2, <3>2
        <4>3. asked[t] \in Question
          BY DEF LifecycleTypeOK
        <4>4. QED
          BY <4>1, <4>2, <4>3 DEF Requests, Question
      <3>4. Guard!Answered(asked[t].known)
        BY <1>1, <2>4, <3>1, <3>3 DEF Guard!Answered
      <3>5. QED
        BY <3>3, <3>4 DEF Guard!Next
    <2>7. CASE ~(Check(t) /\ Goes(t, "request")) /\ ~(\E ok \in BOOLEAN : Request(t, ok))
      <3>1. /\ thr[t] # "request" /\ acted' = acted
            /\ \/ window' = window
               \/ thr[t] = "result" /\ window' = window \cup {judged[t]}
            /\ \E stage \in Stages \ {"request"} : thr' = [thr EXCEPT ![t] = stage]
        BY <2>7 DEF Thread, Setup, Loop, Infer, Judge, Check, Alerted, End, Goes, Stages, actions
      <3>2. thr'[t] # "request"
        BY <3>1 DEF LifecycleTypeOK
      <3>3. Requests' = Requests
        BY <2>2, <3>1, <3>2, SameRequests
      <3>4. CASE window' = window
        BY <1>1, <2>4, <3>1, <3>3, <3>4 DEF guardVars
      <3>5. CASE thr[t] = "result" /\ window' = window \cup {judged[t]}
        <4>1. judged[t] = scope
          BY <1>3, <2>1, <3>5 DEF WatchedIsSafe, ScopeIsThisPrint
        <4>2. Guard!Count
          BY <1>1, <2>4, <3>1, <3>3, <3>5, <4>1 DEF Guard!Count
        <4>3. QED
          BY <4>2 DEF Guard!Next
      <3>6. QED
        BY <3>1, <3>4, <3>5
    <2>8. QED
      BY <2>5, <2>6, <2>7
  <1>4. QED
    BY <1>2, <1>3

LEMMA StepRefines ==
    GuardInv /\ [LifecycleNext]_lifecycleVars => [Guard!Next]_guardVars
  <1> SUFFICES ASSUME GuardInv, [LifecycleNext]_lifecycleVars PROVE [Guard!Next]_guardVars
    OBVIOUS
  <1>1. LifecycleInv /\ LifecycleTypeOK'
    BY LifecycleTypeStep DEF GuardInv, LifecycleInv
  <1>2. CASE LifecycleNext
    BY <1>1, <1>2, EventRefines, ThreadRefines DEF LifecycleNext
  <1>3. CASE UNCHANGED lifecycleVars
    BY <1>3 DEF lifecycleVars, guardVars, Evidence, Requests, Undisturbed
  <1>4. QED
    BY <1>2, <1>3

\* The WebSocket thread, the handler, the main thread and the detection threads together
\* keep the promise to the owner: the printer is asked to act for the print that is guarded
\* only, on evidence of its own.
THEOREM LifecycleImplementsGuard == LifecycleSpec => ImplementsGuard
  <1>1. LifecycleInit => Guard!Init
    <2> SUFFICES ASSUME LifecycleInit PROVE Guard!Init
      OBVIOUS
    <2>1. 0 \in Jobs
      BY LifecycleAssumption DEF Jobs
    <2>2. scope = 0 /\ acted.hit = 0 /\ job.id = 0 /\ Evidence = {}
      BY DEF LifecycleInit, Evidence
    <2>3. Requests = {}
      BY DEF LifecycleInit, Requests
    <2>4. (~Undisturbed) = FALSE
      BY DEF LifecycleInit, Undisturbed
    <2>5. QED
      BY <2>1, <2>2, <2>3, <2>4 DEF Guard!Init
  <1>2. QED
    BY <1>1, GuardInitInv, GuardStep, StepRefines, PTL
       DEF LifecycleSpec, Guard!Spec, ImplementsGuard, guardVars
=============================================================================
