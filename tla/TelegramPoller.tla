--------------------------- MODULE TelegramPoller ---------------------------
(***************************************************************************)
(* moonraker_pinozcam/telegram_bot.py: the thread that polls Telegram for  *)
(* button presses and the calls that start and stop it.  The delays        *)
(* between attempts are left out: each ends, or the stop flag ends it.     *)
(***************************************************************************)
EXTENDS Naturals

CONSTANT MaxConsecutive   \* MAX_CONSECUTIVE, 3 in the code

ASSUME PollerAssumption == MaxConsecutive \in Nat \ {0}

VARIABLES
    tgRunning,     \* self.running
    tgStopping,    \* self.stop_event
    bot,           \* self._bot, without which send() sends nothing
    poller,        \* where the polling thread is
    consecutive,   \* failures in a row
    tgError,       \* self.last_error, by what it says
    brief          \* history: polls in a row that failed before HEALTHY_RUN

telegramVars == <<tgRunning, tgStopping, bot, poller, consecutive, tgError, brief>>

TelegramInit ==
    /\ tgRunning = FALSE /\ tgStopping = FALSE /\ bot = FALSE
    /\ poller = "off" /\ consecutive = 0 /\ tgError = "none" /\ brief = 0
-----------------------------------------------------------------------------
(* start(), in the three steps between which its thread may run *)

BuildBot ==
    bot' = TRUE /\ UNCHANGED <<tgRunning, tgStopping, poller, consecutive, tgError, brief>>

SpawnPoller ==
    /\ tgStopping' = FALSE /\ poller' = "top"
    /\ UNCHANGED <<tgRunning, bot, consecutive, tgError, brief>>

MarkRunning ==
    tgRunning' = TRUE /\ UNCHANGED <<tgStopping, bot, poller, consecutive, tgError, brief>>

TelegramFails ==
    /\ tgRunning' = FALSE /\ bot' = FALSE /\ tgError' = "start"
    /\ UNCHANGED <<tgStopping, poller, consecutive, brief>>

(* stop() up to its join: a poll that has begun returns. *)
StopTelegram ==
    /\ tgStopping' = TRUE /\ tgRunning' = FALSE /\ bot' = FALSE
    /\ UNCHANGED <<poller, consecutive, tgError, brief>>
-----------------------------------------------------------------------------
(* _poll *)

BeginRound ==
    /\ poller = "top"
    /\ poller' = IF tgStopping THEN "done" ELSE "calling"
    /\ UNCHANGED <<tgRunning, tgStopping, bot, consecutive, tgError, brief>>

BeginPolling ==
    /\ poller = "calling" /\ bot
    /\ poller' = "polling"
    /\ UNCHANGED <<tgRunning, tgStopping, bot, consecutive, tgError, brief>>

PollingStopped ==
    /\ poller = "polling" /\ tgStopping
    /\ poller' = "done"
    /\ UNCHANGED <<tgRunning, tgStopping, bot, consecutive, tgError, brief>>

Conflict ==
    /\ poller = "polling"
    /\ poller' = "done" /\ tgRunning' = FALSE /\ tgError' = "conflict"
    /\ UNCHANGED <<tgStopping, bot, consecutive, brief>>

(* The poll raises; healthy if it had lasted HEALTHY_RUN.  A stop() that took   *)
(* the client away just before the call makes the call fail too.               *)
PollFails(healthy) ==
    /\ poller = "polling" \/ (poller = "calling" /\ ~bot /\ ~healthy)
    /\ consecutive' = IF healthy THEN 1 ELSE consecutive + 1
    /\ brief' = IF healthy THEN 0 ELSE brief + 1
    /\ IF consecutive' >= MaxConsecutive
       THEN poller' = "done" /\ tgRunning' = FALSE /\ tgError' = "gave up"
       ELSE poller' = "backoff" /\ UNCHANGED <<tgRunning, tgError>>
    /\ UNCHANGED <<tgStopping, bot>>

(* The delay is over, or was ended by stop(). *)
BackoffEnds ==
    /\ poller = "backoff"
    /\ poller' = IF tgStopping THEN "done" ELSE "top"
    /\ UNCHANGED <<tgRunning, tgStopping, bot, consecutive, tgError, brief>>

TelegramStep ==
    \/ BeginRound \/ BeginPolling \/ PollingStopped \/ Conflict \/ BackoffEnds
    \/ \E healthy \in BOOLEAN : PollFails(healthy)

(* The thread runs, and stop_polling() ends a poll. *)
TelegramFairness ==
    /\ WF_telegramVars(BeginRound \/ BeginPolling \/ PollingStopped \/ BackoffEnds)
    /\ WF_telegramVars(~bot /\ PollFails(FALSE))
-----------------------------------------------------------------------------
TelegramTypeOK ==
    /\ tgRunning \in BOOLEAN /\ tgStopping \in BOOLEAN /\ bot \in BOOLEAN
    /\ poller \in {"off", "top", "calling", "polling", "backoff", "done"}
    /\ consecutive \in 0..MaxConsecutive /\ brief \in Nat
    /\ tgError \in {"none", "start", "conflict", "gave up"}

(* telegram_bot.py: polling stops when it "failed %d times in a row without   *)
(* staying up".  One that stayed up for HEALTHY_RUN is never counted with the *)
(* failures before it: all but the first of the failures in a row were brief. *)
GivesUpOnBriefRuns == tgError = "gave up" => brief + 1 >= MaxConsecutive
=============================================================================
