---------------------------- MODULE ChatChannels ----------------------------
(***************************************************************************)
(* The two chat channels as moonraker_pinozcam/notify.py starts and stops  *)
(* them: Notifier.start() and Notifier.stop(), called once each by the     *)
(* main thread, over the bots of TelegramPoller and DiscordGateway.        *)
(***************************************************************************)
EXTENDS DiscordGateway, TelegramPoller

CONSTANT
    Configurations   \* the sets of channels a configuration file may turn on

ASSUME ChannelsAssumption == Configurations \subseteq SUBSET {"telegram", "discord"}

VARIABLES
    enabled,       \* the channels of this configuration file
    main,          \* where the main thread is
    telegramBot,   \* whether notifier.telegram_bot is set
    discordBot     \* whether notifier.discord_bot is set

mainVars == <<enabled, main, telegramBot, discordBot>>
vars == <<mainVars, gatewayVars, telegramVars>>

Init ==
    /\ enabled \in Configurations
    /\ main = "boot" /\ telegramBot = FALSE /\ discordBot = FALSE
    /\ GatewayInit /\ TelegramInit

At(place) == main = place
Goto(place) == main' = place
-----------------------------------------------------------------------------
(* Notifier.start(): Telegram first, and a bot whose start() fails is let go. *)

MakeTelegram ==
    /\ At("boot") /\ "telegram" \in enabled
    /\ telegramBot' = TRUE /\ Goto("built")
    /\ BuildBot
    /\ UNCHANGED <<enabled, discordBot, gatewayVars>>

SpawnTelegram ==
    /\ At("built") /\ Goto("spawned")
    /\ SpawnPoller
    /\ UNCHANGED <<enabled, telegramBot, discordBot, gatewayVars>>

TelegramStarted ==
    /\ At("spawned") /\ Goto("discord")
    /\ MarkRunning
    /\ UNCHANGED <<enabled, telegramBot, discordBot, gatewayVars>>

TelegramNotStarted ==
    /\ At("built") /\ Goto("discord")
    /\ TelegramFails /\ telegramBot' = FALSE
    /\ UNCHANGED <<enabled, discordBot, gatewayVars>>

NoTelegram ==
    /\ At("boot") /\ "telegram" \notin enabled /\ Goto("discord")
    /\ UNCHANGED <<enabled, telegramBot, discordBot, gatewayVars, telegramVars>>

StartDiscord ==
    /\ At("discord") /\ Goto("up")
    /\ IF "discord" \in enabled
       THEN /\ StartGateway /\ discordBot' = TRUE
            /\ UNCHANGED <<account, connected, wire, awaitingAck, sessionVars, job, passed,
                           queueVars>>
       ELSE UNCHANGED <<discordBot, gatewayVars>>
    /\ UNCHANGED <<enabled, telegramBot, telegramVars>>
-----------------------------------------------------------------------------
(* Notifier.stop(): one bot after the other, each given its time. *)

BeginStop ==
    /\ At("up")
    /\ IF telegramBot
       THEN StopTelegram /\ Goto("join telegram")
       ELSE UNCHANGED telegramVars /\ Goto("stop discord")
    /\ UNCHANGED <<enabled, telegramBot, discordBot, gatewayVars>>

TelegramJoined ==
    /\ At("join telegram") /\ Goto("stop discord")
    /\ UNCHANGED <<enabled, telegramBot, discordBot, gatewayVars, telegramVars>>

(* Mutant: stop() clears the flag but not the event. *)
StopDiscordByFlag ==
    /\ At("stop discord")
    /\ IF discordBot
       THEN running' = FALSE /\ UNCHANGED stopping /\ Goto("join discord")
       ELSE UNCHANGED flagVars /\ Goto("stopped")
    /\ UNCHANGED <<enabled, telegramBot, discordBot, account, wireVars, workerVars,
                   queueVars, telegramVars>>

StopDiscord ==
    /\ At("stop discord")
    /\ IF discordBot
       THEN StopGateway /\ Goto("join discord")
       ELSE UNCHANGED flagVars /\ Goto("stopped")
    /\ UNCHANGED <<enabled, telegramBot, discordBot, account, wireVars, workerVars,
                   queueVars, telegramVars>>

(* The joins end with the threads or with their time; then both bots are let go. *)
DiscordJoined ==
    /\ At("join discord") /\ Goto("stopped")
    /\ connected' = FALSE
    /\ UNCHANGED <<enabled, telegramBot, discordBot, account, flagVars, gateway, wire,
                   awaitingAck, sessionVars, workerVars, queueVars, telegramVars>>

LetGo ==
    /\ At("stopped") /\ Goto("down")
    /\ telegramBot' = FALSE /\ discordBot' = FALSE
    /\ UNCHANGED <<enabled, gatewayVars, telegramVars>>

StartStep ==
    \/ MakeTelegram \/ SpawnTelegram \/ TelegramStarted \/ TelegramNotStarted
    \/ NoTelegram \/ StartDiscord

StopStep == TelegramJoined \/ StopDiscord \/ DiscordJoined \/ LetGo

MainStep == StartStep \/ BeginStop \/ StopStep

Next ==
    \/ MainStep
    \/ DiscordStep /\ UNCHANGED <<mainVars, telegramVars>>
    \/ TelegramStep /\ UNCHANGED <<mainVars, gatewayVars>>

Spec == Init /\ [][Next]_vars

(* The main thread goes through start() and, once it has begun, through stop(). *)
FairSpec ==
    /\ Spec
    /\ WF_vars(StartStep) /\ WF_vars(StopStep)
    /\ DiscordFairness /\ TelegramFairness
-----------------------------------------------------------------------------
TypeOK ==
    /\ enabled \in Configurations
    /\ main \in {"boot", "built", "spawned", "discord", "up", "join telegram",
                 "stop discord", "join discord", "stopped", "down"}
    /\ telegramBot \in BOOLEAN /\ discordBot \in BOOLEAN
    /\ DiscordTypeOK /\ TelegramTypeOK

(* telegram_bot.py: "a bot whose polling has died still delivers alerts".     *)
(* From the start until the stop, a bot that alerts are sent through has the  *)
(* client it needs, whatever has become of its thread.                        *)
DeadPollerStillSends == telegramBot /\ At("up") => bot

(* After stop() all the threads end: none is left polling, reconnecting or    *)
(* waiting for commands, even where the time to join them was over.           *)
ChannelsComeToRest ==
    [](At("stopped") => <>[](/\ poller \in {"off", "done"}
                             /\ gateway \in {"off", "done"}
                             /\ worker \in {"off", "done"}))
=============================================================================
