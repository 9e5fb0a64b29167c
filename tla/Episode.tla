-------------------------------- MODULE Episode --------------------------------
(***************************************************************************)
(* What happens once the failure window says "failed": the episode latch   *)
(* of Detector._score, the handler on_failure of __main__.py, the alert    *)
(* budget and mute of notify.py, and the camera notices that share them.   *)
(*                                                                         *)
(* The detection thread runs the handler step by step while the user saves *)
(* another action, mutes, pauses or resumes, and the print ends.  The      *)
(* verdict of each frame is free (FailureWindow says which one it is), and *)
(* so is what Moonraker and the chat services answer.  The client is       *)
(* connected; PrintLifecycle models it losing events, and stop() timing    *)
(* out.                                                                    *)
(***************************************************************************)
EXTENDS Integers, FiniteSets

CONSTANTS
    Actions,      \* values the setting "action" is saved with: 0 alert only,
                  \* 1 pause, 2 cancel
    HasChannel,   \* whether a bot is configured
    Cap,          \* max_notification, 0 for no limit
    HasGap,       \* whether notify_interval is set
    MaxCount      \* bound: the alert counters saturate here

ASSUME EpisodeAssumption ==
    /\ Actions \subseteq 0..2 /\ Actions # {}
    /\ HasChannel \in BOOLEAN /\ HasGap \in BOOLEAN
    /\ Cap \in Nat /\ MaxCount \in Nat /\ Cap < MaxCount

VARIABLES
    state,      \* client.state: printing, paused or idle
    run,        \* the detection thread: off, on, or stopping (_stop is set)
    step,       \* where the thread is
    met,        \* decide() of the last frame judged
    fired,      \* _fired_level
    want,       \* the action level read by _score
    act,        \* the level on_failure read, and whether it was carried out
    action,     \* the saved setting
    alerts,     \* _alerts_sent, and whether the interval since the last is over
    muted,      \* alerts_muted
    camera,     \* camera_alerted, and what became of the last "lost" notice
    done,       \* history: those carried out with no save since the frame was judged
    everDone,   \* history: actions carried out in this episode
    wentOut     \* history: failure alerts that reached a channel during this job

episodeVars == <<state, run, step, met, fired, want, act, action, alerts, muted,
                 camera, done, everDone, wentOut>>
thread == <<step, met, fired, want, act, done, everDone>>

Armed == -1                                        \* _fired_level is None
Levels == {Armed} \cup 0..2
NoAct == [level |-> 0, acted |-> FALSE]
OneMore(n) == IF n < MaxCount THEN n + 1 ELSE n
--------------------------------------------------------------------------------
EpisodeInit ==
    /\ state = "idle" /\ run = "off" /\ step = "watch"
    /\ met = FALSE /\ fired = Armed /\ want = 0 /\ act = NoAct
    /\ action \in Actions
    /\ alerts = [sent |-> 0, gapOver |-> TRUE]
    /\ muted = FALSE
    /\ camera = [alerted |-> FALSE, notice |-> "none"]
    /\ done = {} /\ everDone = {} /\ wentOut = 0

(* --- the printer and the user --- *)

(* on_state_change, a new job: new_print(), start(fresh=True).                 *)
NewJob ==
    /\ state = "idle" /\ run = "off"
    /\ state' = "printing" /\ run' = "on"
    /\ muted' = FALSE
    /\ alerts' = [sent |-> 0, gapOver |-> TRUE]
    /\ met' = FALSE /\ fired' = Armed
    /\ camera' = [alerted |-> FALSE, notice |-> "none"]
    /\ done' = {} /\ everDone' = {} /\ wentOut' = 0
    /\ UNCHANGED <<step, want, act, action>>

(* Mutant: a resume calls new_print(), as it once did. *)
ResumeAsNewPrint ==
    /\ state = "paused" /\ run = "off"
    /\ state' = "printing" /\ run' = "on"
    /\ muted' = FALSE
    /\ alerts' = [sent |-> 0, gapOver |-> TRUE]
    /\ camera' = [camera EXCEPT !.alerted = FALSE]
    /\ UNCHANGED <<thread, action, wentOut>>

(* on_state_change, paused -> printing: start(fresh=False).                  *)
Resume ==
    /\ state = "paused" /\ run = "off"
    /\ state' = "printing" /\ run' = "on"
    /\ camera' = [camera EXCEPT !.alerted = FALSE]
    /\ UNCHANGED <<thread, action, alerts, muted, wentOut>>

(* Mutant: stop() does not wait for the thread. *)
LeavePrintingAtOnce(j) ==
    /\ state = "printing" /\ run = "on"
    /\ state' = j /\ run' = "off"
    /\ UNCHANGED <<thread, action, alerts, muted, camera, wentOut>>

(* on_state_change, no longer printing: stop() sets _stop and waits for the  *)
(* thread; until it is gone no further event is read.                        *)
LeavePrinting(j) ==
    /\ state = "printing" /\ run = "on"
    /\ state' = j /\ run' = "stopping"
    /\ UNCHANGED <<thread, action, alerts, muted, camera, wentOut>>

EndPausedJob ==
    /\ state = "paused" /\ run = "off"
    /\ state' = "idle"
    /\ UNCHANGED <<run, thread, action, alerts, muted, camera, wentOut>>

ThreadEnds ==
    /\ run = "stopping" /\ step = "watch"
    /\ run' = "off"
    /\ UNCHANGED <<state, thread, action, alerts, muted, camera, wentOut>>

SaveAction(a) ==
    /\ a # action
    /\ action' = a
    /\ done' = {}
    /\ UNCHANGED <<state, run, step, met, fired, want, act, alerts, muted, camera,
                   everDone, wentOut>>

ToggleMute ==
    /\ HasChannel
    /\ muted' = ~muted
    /\ UNCHANGED <<state, run, thread, action, alerts, camera, wentOut>>

GapElapses ==
    /\ ~alerts.gapOver
    /\ alerts' = [alerts EXCEPT !.gapOver = TRUE]
    /\ UNCHANGED <<state, run, thread, action, muted, camera, wentOut>>

(* --- the detection thread --- *)

(* Mutant: no latch, the handler runs for every frame of the failure. *)
VerdictWithoutLatch(m) ==
    /\ run = "on" /\ step = "watch"
    /\ met' = m /\ want' = action
    /\ IF ~m
       THEN /\ fired' = Armed /\ done' = {} /\ everDone' = {}
            /\ UNCHANGED step
       ELSE step' = "check" /\ UNCHANGED <<fired, done, everDone>>
    /\ UNCHANGED <<state, run, act, action, alerts, muted, camera, wentOut>>

(* _score: the frame is judged and the level wanted is read.  A frame whose  *)
(* verdict comes after _stop is set is discarded.                            *)
Verdict(m) ==
    /\ run = "on" /\ step = "watch"
    /\ met' = m
    /\ want' = action
    /\ IF ~m
       THEN /\ fired' = Armed /\ done' = {} /\ everDone' = {}
            /\ UNCHANGED step
       ELSE /\ step' = IF fired = Armed \/ action > fired THEN "check" ELSE step
            /\ UNCHANGED <<fired, done, everDone>>
    /\ UNCHANGED <<state, run, act, action, alerts, muted, camera, wentOut>>

Latch(handled) == fired' = IF handled THEN want ELSE fired

(* on_failure's first lines.  It returns None when the printer is no longer  *)
(* printing, and None is not False.                                          *)
CheckPrinting ==
    /\ step = "check"
    /\ IF state = "printing"
       THEN step' = "act" /\ UNCHANGED fired
       ELSE step' = "watch" /\ Latch(TRUE)
    /\ UNCHANGED <<state, run, met, want, act, action, alerts, muted, camera, done,
                   everDone, wentOut>>

(* on_failure reads the action again and asks Moonraker to pause or cancel.  *)
Act(ok) ==
    /\ step = "act"
    /\ act' = [level |-> action, acted |-> action # 0 /\ ok]
    /\ done' = IF act'.acted /\ action = want THEN done \cup {action} ELSE done
    /\ everDone' = IF act'.acted THEN everDone \cup {action} ELSE everDone
    /\ step' = "alert"
    /\ UNCHANGED <<state, run, met, fired, want, action, alerts, muted, camera,
                   wentOut>>

(* Mutant: latched whatever the handler returned, as it once was. *)
ReturnLatched(delivered) == Latch(TRUE) /\ step' = "watch"

(* What on_failure returns, and what the detector makes of it. *)
Return(delivered) ==
    /\ Latch(act.acted \/ (act.level = 0 /\ (delivered \/ ~HasChannel)))
    /\ step' = "watch"

(* _within_budget *)
WithinBudget ==
    /\ Cap # 0 => alerts.sent < Cap
    /\ HasGap => alerts.gapOver

Spend == alerts' = [sent |-> OneMore(alerts.sent), gapOver |-> ~HasGap]

(* notifier.alert up to the first send *)
Alert ==
    /\ step = "alert"
    /\ IF ~WithinBudget
       THEN Return(FALSE) /\ UNCHANGED alerts
       ELSE /\ Spend
            /\ IF muted THEN Return(TRUE)
               ELSE IF HasChannel THEN step' = "send" /\ UNCHANGED fired
               ELSE Return(FALSE)
    /\ UNCHANGED <<state, run, met, want, act, action, muted, camera, done, everDone,
                   wentOut>>

(* The sends of notifier.alert: some channel took it, or none did. *)
Send(ok) ==
    /\ step = "send"
    /\ Return(ok)
    /\ wentOut' = IF ok THEN OneMore(wentOut) ELSE wentOut
    /\ UNCHANGED <<state, run, met, want, act, action, alerts, muted, camera, done,
                   everDone>>

(* _consume's camera watch: "lost" once per outage, "back" once after it, each *)
(* through notifier.alert with its default arguments.                          *)
CameraNotice(ok) ==
    LET outcome == IF ~WithinBudget THEN "suppressed"
                   ELSE IF muted THEN "muted"
                   ELSE IF HasChannel /\ ok THEN "sent" ELSE "failed"
    IN  /\ run = "on" /\ step = "watch"
        /\ IF WithinBudget THEN Spend ELSE UNCHANGED alerts
        /\ camera' = [alerted |-> ~camera.alerted,
                      notice |-> IF camera.alerted THEN camera.notice ELSE outcome]
        /\ UNCHANGED <<state, run, thread, action, muted, wentOut>>

Handler ==
    \/ CheckPrinting
    \/ \E ok \in BOOLEAN : Act(ok)
    \/ Alert
    \/ \E ok \in BOOLEAN : Send(ok)

EpisodeNext ==
    \/ NewJob \/ Resume \/ EndPausedJob \/ ThreadEnds
    \/ \E j \in {"paused", "idle"} : LeavePrinting(j)
    \/ \E a \in Actions : SaveAction(a)
    \/ ToggleMute \/ GapElapses
    \/ \E m \in BOOLEAN : Verdict(m)
    \/ Handler
    \/ \E ok \in BOOLEAN : CameraNotice(ok)

EpisodeSpec == EpisodeInit /\ [][EpisodeNext]_episodeVars

(* While the failure lasts the thread goes on judging it, and finishes what  *)
(* it started; an outside service that is asked again and again answers at   *)
(* last; the interval elapses.  (Fairness of a judgement with either outcome *)
(* would be too strong: once the episode is latched a frame that is met      *)
(* changes nothing, so it would demand that the failure clears.)             *)
EpisodeFairSpec ==
    /\ EpisodeSpec
    /\ SF_episodeVars(met /\ Verdict(TRUE))
    /\ WF_episodeVars(Handler) /\ WF_episodeVars(ThreadEnds) /\ WF_episodeVars(GapElapses)
    /\ SF_episodeVars(Act(TRUE)) /\ SF_episodeVars(Send(TRUE))
--------------------------------------------------------------------------------
(* Types; the counters stay within their bound, and only a thread that was   *)
(* started is inside the handler.                                            *)
EpisodeTypeOK ==
    /\ state \in {"printing", "paused", "idle"}
    /\ run \in {"off", "on", "stopping"}
    /\ step \in {"watch", "check", "act", "alert", "send"}
    /\ met \in BOOLEAN /\ muted \in BOOLEAN
    /\ fired \in Levels /\ want \in 0..2 /\ action \in Actions
    /\ act \in [level : 0..2, acted : BOOLEAN]
    /\ alerts \in [sent : 0..MaxCount, gapOver : BOOLEAN]
    /\ camera \in [alerted : BOOLEAN,
                   notice : {"none", "sent", "muted", "failed", "suppressed"}]
    /\ done \subseteq {1, 2} /\ everDone \subseteq {1, 2}
    /\ wentOut \in 0..MaxCount
    /\ step # "watch" => run # "off"

(* One episode, one action: through pause and resume, failed alerts and      *)
(* failed requests, the printer is not asked twice for an action it carried  *)
(* out, unless the criterion cleared, a new print began or a setting was     *)
(* saved since the frame was judged that led to it.                          *)
ActsOncePerEpisode ==
    [][step = "act" /\ step' = "alert" /\ act'.acted => act'.level \notin done]_episodeVars

(* max_notification counts per print: pausing and resuming buys no further   *)
(* failure alerts.  (Camera notices are not counted here: the comments put   *)
(* them outside the quota.  That they use it up all the same shows in the    *)
(* other direction, in fewer alerts.)                                        *)
QuotaPerPrint == Cap # 0 => wentOut <= Cap

(* A failed pause or cancel is tried again: while the failure lasts and the  *)
(* print runs, the action set by the user, or a stronger one, is carried out *)
(* in the end, also when it was raised after the episode began.  (A save     *)
(* between _score's read of the setting and on_failure's is excepted: the    *)
(* level latched is then the one _score read.)                               *)
ActionIsRetried ==
    \A a \in 1..2 :
        (run = "on" /\ met /\ action = a /\ fired < a)
           ~> \/ (\E b \in everDone : b >= a) \/ ~met \/ run # "on" \/ action # a
              \/ step \in {"alert", "send"} /\ act.level # want

(* __main__.py: "the quota was spent, nothing was delivered, and no later    *)
(* frame retried" names the bug the return value is there to prevent: an     *)
(* alert that no channel took is sent again while the failure lasts.         *)
UndeliveredAlertIsRetried ==
    (/\ run = "on" /\ met /\ action = 0 /\ fired = Armed
     /\ ~muted /\ camera.notice = "none" /\ wentOut = 0)
       ~> \/ fired # Armed \/ ~met \/ run # "on" \/ action # 0
          \/ muted \/ camera.notice # "none" \/ wentOut > 0
================================================================================
