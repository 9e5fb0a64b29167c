--------------------------- MODULE UserSideProofs ---------------------------
(***************************************************************************)
(* The safety of what the user sees and says: the chat channels, for       *)
(* queues of any size, any limit of failures and any set of                *)
(* configurations; and the page's pictures, for any number of viewers.     *)
(***************************************************************************)
EXTENDS ChatChannels, LiveView, FiniteSetTheorems, TLAPS

(* The chat channels *)

\* A command can pass a control only while it waits, and only one can.
QueueInv ==
    /\ passed <= 1
    /\ passed > 0 => controls > 0 /\ worker # "waiting"

\* The privileged intent is asked for until it was refused once.
IntentInv == rejections = 0 \/ (rejections = 1 /\ intents = "buttons")

\* The count of failures in a row is one more than the brief runs at most.
PollerInv ==
    /\ consecutive <= brief + 1
    /\ poller # "done" => consecutive < MaxConsecutive
    /\ tgError = "gave up" => poller = "done" /\ brief + 1 >= MaxConsecutive
    /\ main \in {"boot", "built"} => poller = "off"
    /\ main = "boot" => ~telegramBot
    /\ telegramBot /\ main \in {"built", "spawned", "discord", "up"} => bot

LEMMA DiscordTypeStep ==
    ASSUME DiscordTypeOK, [Next]_vars
    PROVE  DiscordTypeOK'
  <1> USE GatewayAssumption, PollerAssumption
  <1> USE DEF DiscordTypeOK, Accounts, Intents, Kinds,
          mainVars, gatewayVars, telegramVars, sessionVars, wireVars, flagVars, workerVars, queueVars
  <1>1. CASE MakeTelegram
    BY <1>1 DEF MakeTelegram, BuildBot, At, Goto
  <1>2. CASE SpawnTelegram
    BY <1>2 DEF SpawnTelegram, SpawnPoller, At, Goto
  <1>3. CASE TelegramStarted
    BY <1>3 DEF TelegramStarted, MarkRunning, At, Goto
  <1>4. CASE TelegramNotStarted
    BY <1>4 DEF TelegramNotStarted, TelegramFails, At, Goto
  <1>5. CASE NoTelegram
    BY <1>5 DEF NoTelegram, At, Goto
  <1>6. CASE StartDiscord
    <2>1. running' \in BOOLEAN
      BY <1>6 DEF StartDiscord, StartGateway, At, Goto
    <2>2. stopping' \in BOOLEAN
      BY <1>6 DEF StartDiscord, StartGateway, At, Goto
    <2>3. connected' \in BOOLEAN
      BY <1>6 DEF StartDiscord, StartGateway, At, Goto
    <2>4. awaitingAck' \in BOOLEAN
      BY <1>6 DEF StartDiscord, StartGateway, At, Goto
    <2>5. /\ account' \in Accounts
         /\ gateway' \in {"off", "top", "connecting", "session", "done"}
         /\ wire' \in {"none", "open", "identified", "resuming", "ready"}
         /\ session' \in {"text", "buttons", "none"} /\ intents' \in {"text", "buttons"}
         /\ rejections' \in Nat
      BY <1>6 DEF StartDiscord, StartGateway, At, Goto
    <2>6. /\ worker' \in {"off", "top", "waiting", "busy", "done"}
         /\ job' \in {"control", "command", "none"}
         /\ controls' \in 0..MaxControls /\ commands' \in 0..MaxCommands /\ passed' \in Nat
      BY <1>6 DEF StartDiscord, StartGateway, At, Goto
    <2>8. QED
      BY <2>1, <2>2, <2>3, <2>4, <2>5, <2>6
  <1>7. CASE BeginStop
    <2>1. running' \in BOOLEAN
      BY <1>7 DEF BeginStop, StopTelegram, At, Goto
    <2>2. stopping' \in BOOLEAN
      BY <1>7 DEF BeginStop, StopTelegram, At, Goto
    <2>3. connected' \in BOOLEAN
      BY <1>7 DEF BeginStop, StopTelegram, At, Goto
    <2>4. awaitingAck' \in BOOLEAN
      BY <1>7 DEF BeginStop, StopTelegram, At, Goto
    <2>5. /\ account' \in Accounts
         /\ gateway' \in {"off", "top", "connecting", "session", "done"}
         /\ wire' \in {"none", "open", "identified", "resuming", "ready"}
         /\ session' \in {"text", "buttons", "none"} /\ intents' \in {"text", "buttons"}
         /\ rejections' \in Nat
      BY <1>7 DEF BeginStop, StopTelegram, At, Goto
    <2>6. /\ worker' \in {"off", "top", "waiting", "busy", "done"}
         /\ job' \in {"control", "command", "none"}
         /\ controls' \in 0..MaxControls /\ commands' \in 0..MaxCommands /\ passed' \in Nat
      BY <1>7 DEF BeginStop, StopTelegram, At, Goto
    <2>8. QED
      BY <2>1, <2>2, <2>3, <2>4, <2>5, <2>6
  <1>8. CASE TelegramJoined
    <2>1. running' \in BOOLEAN
      BY <1>8 DEF TelegramJoined, At, Goto
    <2>2. stopping' \in BOOLEAN
      BY <1>8 DEF TelegramJoined, At, Goto
    <2>3. connected' \in BOOLEAN
      BY <1>8 DEF TelegramJoined, At, Goto
    <2>4. awaitingAck' \in BOOLEAN
      BY <1>8 DEF TelegramJoined, At, Goto
    <2>5. /\ account' \in Accounts
         /\ gateway' \in {"off", "top", "connecting", "session", "done"}
         /\ wire' \in {"none", "open", "identified", "resuming", "ready"}
         /\ session' \in {"text", "buttons", "none"} /\ intents' \in {"text", "buttons"}
         /\ rejections' \in Nat
      BY <1>8 DEF TelegramJoined, At, Goto
    <2>6. /\ worker' \in {"off", "top", "waiting", "busy", "done"}
         /\ job' \in {"control", "command", "none"}
         /\ controls' \in 0..MaxControls /\ commands' \in 0..MaxCommands /\ passed' \in Nat
      BY <1>8 DEF TelegramJoined, At, Goto
    <2>8. QED
      BY <2>1, <2>2, <2>3, <2>4, <2>5, <2>6
  <1>9. CASE StopDiscord
    <2>1. running' \in BOOLEAN
      BY <1>9 DEF StopDiscord, StopGateway, At, Goto
    <2>2. stopping' \in BOOLEAN
      BY <1>9 DEF StopDiscord, StopGateway, At, Goto
    <2>3. connected' \in BOOLEAN
      BY <1>9 DEF StopDiscord, StopGateway, At, Goto
    <2>4. awaitingAck' \in BOOLEAN
      BY <1>9 DEF StopDiscord, StopGateway, At, Goto
    <2>5. /\ account' \in Accounts
         /\ gateway' \in {"off", "top", "connecting", "session", "done"}
         /\ wire' \in {"none", "open", "identified", "resuming", "ready"}
         /\ session' \in {"text", "buttons", "none"} /\ intents' \in {"text", "buttons"}
         /\ rejections' \in Nat
      BY <1>9 DEF StopDiscord, StopGateway, At, Goto
    <2>6. /\ worker' \in {"off", "top", "waiting", "busy", "done"}
         /\ job' \in {"control", "command", "none"}
         /\ controls' \in 0..MaxControls /\ commands' \in 0..MaxCommands /\ passed' \in Nat
      BY <1>9 DEF StopDiscord, StopGateway, At, Goto
    <2>8. QED
      BY <2>1, <2>2, <2>3, <2>4, <2>5, <2>6
  <1>10. CASE DiscordJoined
    <2>1. running' \in BOOLEAN
      BY <1>10 DEF DiscordJoined, At, Goto
    <2>2. stopping' \in BOOLEAN
      BY <1>10 DEF DiscordJoined, At, Goto
    <2>3. connected' \in BOOLEAN
      BY <1>10 DEF DiscordJoined, At, Goto
    <2>4. awaitingAck' \in BOOLEAN
      BY <1>10 DEF DiscordJoined, At, Goto
    <2>5. /\ account' \in Accounts
         /\ gateway' \in {"off", "top", "connecting", "session", "done"}
         /\ wire' \in {"none", "open", "identified", "resuming", "ready"}
         /\ session' \in {"text", "buttons", "none"} /\ intents' \in {"text", "buttons"}
         /\ rejections' \in Nat
      BY <1>10 DEF DiscordJoined, At, Goto
    <2>6. /\ worker' \in {"off", "top", "waiting", "busy", "done"}
         /\ job' \in {"control", "command", "none"}
         /\ controls' \in 0..MaxControls /\ commands' \in 0..MaxCommands /\ passed' \in Nat
      BY <1>10 DEF DiscordJoined, At, Goto
    <2>8. QED
      BY <2>1, <2>2, <2>3, <2>4, <2>5, <2>6
  <1>11. CASE LetGo
    BY <1>11 DEF LetGo, At, Goto
  <1>12. CASE NextRound /\ UNCHANGED <<mainVars, telegramVars>>
    BY <1>12 DEF NextRound
  <1>13. CASE Connect /\ UNCHANGED <<mainVars, telegramVars>>
    <2>1. running' \in BOOLEAN
      BY <1>13 DEF Connect
    <2>2. stopping' \in BOOLEAN
      BY <1>13 DEF Connect
    <2>3. connected' \in BOOLEAN
      BY <1>13 DEF Connect
    <2>4. awaitingAck' \in BOOLEAN
      BY <1>13 DEF Connect
    <2>5. /\ account' \in Accounts
         /\ gateway' \in {"off", "top", "connecting", "session", "done"}
         /\ wire' \in {"none", "open", "identified", "resuming", "ready"}
         /\ session' \in {"text", "buttons", "none"} /\ intents' \in {"text", "buttons"}
         /\ rejections' \in Nat
      BY <1>13 DEF Connect
    <2>6. /\ worker' \in {"off", "top", "waiting", "busy", "done"}
         /\ job' \in {"control", "command", "none"}
         /\ controls' \in 0..MaxControls /\ commands' \in 0..MaxCommands /\ passed' \in Nat
      BY <1>13 DEF Connect
    <2>8. QED
      BY <2>1, <2>2, <2>3, <2>4, <2>5, <2>6
  <1>14. CASE ConnectFails /\ UNCHANGED <<mainVars, telegramVars>>
    BY <1>14 DEF ConnectFails, EndSession
  <1>15. CASE LeaveSession /\ UNCHANGED <<mainVars, telegramVars>>
    BY <1>15 DEF LeaveSession, EndSession
  <1>16. CASE Hello /\ UNCHANGED <<mainVars, telegramVars>>
    <2>1. running' \in BOOLEAN
      BY <1>16 DEF Hello
    <2>2. stopping' \in BOOLEAN
      BY <1>16 DEF Hello
    <2>3. connected' \in BOOLEAN
      BY <1>16 DEF Hello
    <2>4. awaitingAck' \in BOOLEAN
      BY <1>16 DEF Hello
    <2>5. /\ account' \in Accounts
         /\ gateway' \in {"off", "top", "connecting", "session", "done"}
         /\ wire' \in {"none", "open", "identified", "resuming", "ready"}
         /\ session' \in {"text", "buttons", "none"} /\ intents' \in {"text", "buttons"}
         /\ rejections' \in Nat
      BY <1>16 DEF Hello
    <2>6. /\ worker' \in {"off", "top", "waiting", "busy", "done"}
         /\ job' \in {"control", "command", "none"}
         /\ controls' \in 0..MaxControls /\ commands' \in 0..MaxCommands /\ passed' \in Nat
      BY <1>16 DEF Hello
    <2>8. QED
      BY <2>1, <2>2, <2>3, <2>4, <2>5, <2>6
  <1>17. CASE Ready /\ UNCHANGED <<mainVars, telegramVars>>
    BY <1>17 DEF Ready, Acceptable
  <1>18. CASE Resumed /\ UNCHANGED <<mainVars, telegramVars>>
    BY <1>18 DEF Resumed
  <1>19. CASE Beat /\ UNCHANGED <<mainVars, telegramVars>>
    BY <1>19 DEF Beat
  <1>20. CASE Ack /\ UNCHANGED <<mainVars, telegramVars>>
    <2>1. running' \in BOOLEAN
      BY <1>20 DEF Ack
    <2>2. stopping' \in BOOLEAN
      BY <1>20 DEF Ack
    <2>3. connected' \in BOOLEAN
      BY <1>20 DEF Ack
    <2>4. awaitingAck' \in BOOLEAN
      BY <1>20 DEF Ack
    <2>5. /\ account' \in Accounts
         /\ gateway' \in {"off", "top", "connecting", "session", "done"}
         /\ wire' \in {"none", "open", "identified", "resuming", "ready"}
         /\ session' \in {"text", "buttons", "none"} /\ intents' \in {"text", "buttons"}
         /\ rejections' \in Nat
      BY <1>20 DEF Ack
    <2>6. /\ worker' \in {"off", "top", "waiting", "busy", "done"}
         /\ job' \in {"control", "command", "none"}
         /\ controls' \in 0..MaxControls /\ commands' \in 0..MaxCommands /\ passed' \in Nat
      BY <1>20 DEF Ack
    <2>8. QED
      BY <2>1, <2>2, <2>3, <2>4, <2>5, <2>6
  <1>21. CASE Reconnect /\ UNCHANGED <<mainVars, telegramVars>>
    BY <1>21 DEF Reconnect, EndSession
  <1>22. ASSUME NEW resumable \in BOOLEAN, InvalidSession(resumable), UNCHANGED <<mainVars, telegramVars>>
         PROVE  DiscordTypeOK'
    BY <1>22 DEF InvalidSession, EndSession
  <1>23. CASE ConnectionCloses /\ UNCHANGED <<mainVars, telegramVars>>
    <2>1. running' \in BOOLEAN
      BY <1>23 DEF ConnectionCloses, Closed, UnexplainedClose, FatalClose, ToButtons, EndSession
    <2>2. stopping' \in BOOLEAN
      BY <1>23 DEF ConnectionCloses, Closed, UnexplainedClose, FatalClose, ToButtons, EndSession
    <2>3. connected' \in BOOLEAN
      BY <1>23 DEF ConnectionCloses, Closed, UnexplainedClose, FatalClose, ToButtons, EndSession
    <2>4. awaitingAck' \in BOOLEAN
      BY <1>23 DEF ConnectionCloses, Closed, UnexplainedClose, FatalClose, ToButtons, EndSession
    <2>5. /\ account' \in Accounts
         /\ gateway' \in {"off", "top", "connecting", "session", "done"}
         /\ wire' \in {"none", "open", "identified", "resuming", "ready"}
         /\ session' \in {"text", "buttons", "none"} /\ intents' \in {"text", "buttons"}
         /\ rejections' \in Nat
      BY <1>23 DEF ConnectionCloses, Closed, UnexplainedClose, FatalClose, ToButtons, EndSession
    <2>6. /\ worker' \in {"off", "top", "waiting", "busy", "done"}
         /\ job' \in {"control", "command", "none"}
         /\ controls' \in 0..MaxControls /\ commands' \in 0..MaxCommands /\ passed' \in Nat
      BY <1>23 DEF ConnectionCloses, Closed, UnexplainedClose, FatalClose, ToButtons, EndSession
    <2>8. QED
      BY <2>1, <2>2, <2>3, <2>4, <2>5, <2>6
  <1>24. ASSUME NEW visible \in BOOLEAN, Refuse(visible), UNCHANGED <<mainVars, telegramVars>>
         PROVE  DiscordTypeOK'
    <2>1. running' \in BOOLEAN
      BY <1>24 DEF Refuse, Closed, UnexplainedClose, FatalClose, ToButtons, EndSession, Acceptable
    <2>2. stopping' \in BOOLEAN
      BY <1>24 DEF Refuse, Closed, UnexplainedClose, FatalClose, ToButtons, EndSession, Acceptable
    <2>3. connected' \in BOOLEAN
      BY <1>24 DEF Refuse, Closed, UnexplainedClose, FatalClose, ToButtons, EndSession, Acceptable
    <2>4. awaitingAck' \in BOOLEAN
      BY <1>24 DEF Refuse, Closed, UnexplainedClose, FatalClose, ToButtons, EndSession, Acceptable
    <2>5. /\ account' \in Accounts
         /\ gateway' \in {"off", "top", "connecting", "session", "done"}
         /\ wire' \in {"none", "open", "identified", "resuming", "ready"}
         /\ session' \in {"text", "buttons", "none"} /\ intents' \in {"text", "buttons"}
         /\ rejections' \in Nat
      BY <1>24 DEF Refuse, Closed, UnexplainedClose, FatalClose, ToButtons, EndSession, Acceptable
    <2>6. /\ worker' \in {"off", "top", "waiting", "busy", "done"}
         /\ job' \in {"control", "command", "none"}
         /\ controls' \in 0..MaxControls /\ commands' \in 0..MaxCommands /\ passed' \in Nat
      BY <1>24 DEF Refuse, Closed, UnexplainedClose, FatalClose, ToButtons, EndSession, Acceptable
    <2>8. QED
      BY <2>1, <2>2, <2>3, <2>4, <2>5, <2>6
  <1>25. ASSUME NEW kind \in Kinds, Deliver(kind), UNCHANGED <<mainVars, telegramVars>>
         PROVE  DiscordTypeOK'
    BY <1>25 DEF Deliver
  <1>26. CASE LookForControl /\ UNCHANGED <<mainVars, telegramVars>>
    BY <1>26 DEF LookForControl
  <1>27. CASE TakeCommand /\ UNCHANGED <<mainVars, telegramVars>>
    BY <1>27 DEF TakeCommand
  <1>28. CASE NoCommand /\ UNCHANGED <<mainVars, telegramVars>>
    BY <1>28 DEF NoCommand
  <1>29. CASE CommandEnds /\ UNCHANGED <<mainVars, telegramVars>>
    BY <1>29 DEF CommandEnds
  <1>30. CASE TelegramStep /\ UNCHANGED <<mainVars, gatewayVars>>
    BY <1>30
  <1>31. CASE UNCHANGED vars
    BY <1>31 DEF vars
  <1>32. QED
    BY <1>1, <1>2, <1>3, <1>4, <1>5, <1>6, <1>7, <1>8, <1>9, <1>10, <1>11, <1>12,
       <1>13, <1>14, <1>15, <1>16, <1>17, <1>18, <1>19, <1>20, <1>21, <1>22, <1>23, <1>24,
       <1>25, <1>26, <1>27, <1>28, <1>29, <1>30, <1>31
       DEF Next, MainStep, StartStep, StopStep, DiscordStep, GatewayStep, WorkerStep

LEMMA QueueStep ==
    ASSUME DiscordTypeOK, QueueInv, [Next]_vars
    PROVE  QueueInv'
  <1> USE GatewayAssumption, PollerAssumption
  <1> USE DEF DiscordTypeOK, QueueInv,
          mainVars, gatewayVars, telegramVars, sessionVars, wireVars, flagVars, workerVars, queueVars
  <1>1. CASE MakeTelegram
    BY <1>1 DEF MakeTelegram, BuildBot, At, Goto
  <1>2. CASE SpawnTelegram
    BY <1>2 DEF SpawnTelegram, SpawnPoller, At, Goto
  <1>3. CASE TelegramStarted
    BY <1>3 DEF TelegramStarted, MarkRunning, At, Goto
  <1>4. CASE TelegramNotStarted
    BY <1>4 DEF TelegramNotStarted, TelegramFails, At, Goto
  <1>5. CASE NoTelegram
    BY <1>5 DEF NoTelegram, At, Goto
  <1>6. CASE StartDiscord
    BY <1>6 DEF StartDiscord, StartGateway, At, Goto
  <1>7. CASE BeginStop
    BY <1>7 DEF BeginStop, StopTelegram, At, Goto
  <1>8. CASE TelegramJoined
    BY <1>8 DEF TelegramJoined, At, Goto
  <1>9. CASE StopDiscord
    BY <1>9 DEF StopDiscord, StopGateway, At, Goto
  <1>10. CASE DiscordJoined
    BY <1>10 DEF DiscordJoined, At, Goto
  <1>11. CASE LetGo
    BY <1>11 DEF LetGo, At, Goto
  <1>12. CASE NextRound /\ UNCHANGED <<mainVars, telegramVars>>
    BY <1>12 DEF NextRound
  <1>13. CASE Connect /\ UNCHANGED <<mainVars, telegramVars>>
    BY <1>13 DEF Connect
  <1>14. CASE ConnectFails /\ UNCHANGED <<mainVars, telegramVars>>
    BY <1>14 DEF ConnectFails, EndSession
  <1>15. CASE LeaveSession /\ UNCHANGED <<mainVars, telegramVars>>
    BY <1>15 DEF LeaveSession, EndSession
  <1>16. CASE Hello /\ UNCHANGED <<mainVars, telegramVars>>
    BY <1>16 DEF Hello
  <1>17. CASE Ready /\ UNCHANGED <<mainVars, telegramVars>>
    BY <1>17 DEF Ready, Acceptable
  <1>18. CASE Resumed /\ UNCHANGED <<mainVars, telegramVars>>
    BY <1>18 DEF Resumed
  <1>19. CASE Beat /\ UNCHANGED <<mainVars, telegramVars>>
    BY <1>19 DEF Beat
  <1>20. CASE Ack /\ UNCHANGED <<mainVars, telegramVars>>
    BY <1>20 DEF Ack
  <1>21. CASE Reconnect /\ UNCHANGED <<mainVars, telegramVars>>
    BY <1>21 DEF Reconnect, EndSession
  <1>22. ASSUME NEW resumable \in BOOLEAN, InvalidSession(resumable), UNCHANGED <<mainVars, telegramVars>>
         PROVE  QueueInv'
    BY <1>22 DEF InvalidSession, EndSession
  <1>23. CASE ConnectionCloses /\ UNCHANGED <<mainVars, telegramVars>>
    BY <1>23 DEF ConnectionCloses, Closed, UnexplainedClose, FatalClose, ToButtons, EndSession
  <1>24. ASSUME NEW visible \in BOOLEAN, Refuse(visible), UNCHANGED <<mainVars, telegramVars>>
         PROVE  QueueInv'
    BY <1>24 DEF Refuse, Closed, UnexplainedClose, FatalClose, ToButtons, EndSession, Acceptable
  <1>25. ASSUME NEW kind \in Kinds, Deliver(kind), UNCHANGED <<mainVars, telegramVars>>
         PROVE  QueueInv'
    BY <1>25 DEF Deliver
  <1>26. CASE LookForControl /\ UNCHANGED <<mainVars, telegramVars>>
    BY <1>26 DEF LookForControl
  <1>27. CASE TakeCommand /\ UNCHANGED <<mainVars, telegramVars>>
    BY <1>27 DEF TakeCommand
  <1>28. CASE NoCommand /\ UNCHANGED <<mainVars, telegramVars>>
    BY <1>28 DEF NoCommand
  <1>29. CASE CommandEnds /\ UNCHANGED <<mainVars, telegramVars>>
    BY <1>29 DEF CommandEnds
  <1>30. CASE TelegramStep /\ UNCHANGED <<mainVars, gatewayVars>>
    BY <1>30
  <1>31. CASE UNCHANGED vars
    BY <1>31 DEF vars
  <1>32. QED
    BY <1>1, <1>2, <1>3, <1>4, <1>5, <1>6, <1>7, <1>8, <1>9, <1>10, <1>11, <1>12,
       <1>13, <1>14, <1>15, <1>16, <1>17, <1>18, <1>19, <1>20, <1>21, <1>22, <1>23, <1>24,
       <1>25, <1>26, <1>27, <1>28, <1>29, <1>30, <1>31
       DEF Next, MainStep, StartStep, StopStep, DiscordStep, GatewayStep, WorkerStep

LEMMA IntentStep ==
    ASSUME DiscordTypeOK, IntentInv, [Next]_vars
    PROVE  IntentInv'
  <1> USE GatewayAssumption, PollerAssumption
  <1> USE DEF DiscordTypeOK, IntentInv, Intents,
          mainVars, gatewayVars, telegramVars, sessionVars, wireVars, flagVars, workerVars, queueVars
  <1>1. CASE MakeTelegram
    BY <1>1 DEF MakeTelegram, BuildBot, At, Goto
  <1>2. CASE SpawnTelegram
    BY <1>2 DEF SpawnTelegram, SpawnPoller, At, Goto
  <1>3. CASE TelegramStarted
    BY <1>3 DEF TelegramStarted, MarkRunning, At, Goto
  <1>4. CASE TelegramNotStarted
    BY <1>4 DEF TelegramNotStarted, TelegramFails, At, Goto
  <1>5. CASE NoTelegram
    BY <1>5 DEF NoTelegram, At, Goto
  <1>6. CASE StartDiscord
    BY <1>6 DEF StartDiscord, StartGateway, At, Goto
  <1>7. CASE BeginStop
    BY <1>7 DEF BeginStop, StopTelegram, At, Goto
  <1>8. CASE TelegramJoined
    BY <1>8 DEF TelegramJoined, At, Goto
  <1>9. CASE StopDiscord
    BY <1>9 DEF StopDiscord, StopGateway, At, Goto
  <1>10. CASE DiscordJoined
    BY <1>10 DEF DiscordJoined, At, Goto
  <1>11. CASE LetGo
    BY <1>11 DEF LetGo, At, Goto
  <1>12. CASE NextRound /\ UNCHANGED <<mainVars, telegramVars>>
    BY <1>12 DEF NextRound
  <1>13. CASE Connect /\ UNCHANGED <<mainVars, telegramVars>>
    BY <1>13 DEF Connect
  <1>14. CASE ConnectFails /\ UNCHANGED <<mainVars, telegramVars>>
    BY <1>14 DEF ConnectFails, EndSession
  <1>15. CASE LeaveSession /\ UNCHANGED <<mainVars, telegramVars>>
    BY <1>15 DEF LeaveSession, EndSession
  <1>16. CASE Hello /\ UNCHANGED <<mainVars, telegramVars>>
    BY <1>16 DEF Hello
  <1>17. CASE Ready /\ UNCHANGED <<mainVars, telegramVars>>
    BY <1>17 DEF Ready, Acceptable
  <1>18. CASE Resumed /\ UNCHANGED <<mainVars, telegramVars>>
    BY <1>18 DEF Resumed
  <1>19. CASE Beat /\ UNCHANGED <<mainVars, telegramVars>>
    BY <1>19 DEF Beat
  <1>20. CASE Ack /\ UNCHANGED <<mainVars, telegramVars>>
    BY <1>20 DEF Ack
  <1>21. CASE Reconnect /\ UNCHANGED <<mainVars, telegramVars>>
    BY <1>21 DEF Reconnect, EndSession
  <1>22. ASSUME NEW resumable \in BOOLEAN, InvalidSession(resumable), UNCHANGED <<mainVars, telegramVars>>
         PROVE  IntentInv'
    BY <1>22 DEF InvalidSession, EndSession
  <1>23. CASE ConnectionCloses /\ UNCHANGED <<mainVars, telegramVars>>
    BY <1>23 DEF ConnectionCloses, Closed, UnexplainedClose, FatalClose, ToButtons, EndSession
  <1>24. ASSUME NEW visible \in BOOLEAN, Refuse(visible), UNCHANGED <<mainVars, telegramVars>>
         PROVE  IntentInv'
    BY <1>24 DEF Refuse, Closed, UnexplainedClose, FatalClose, ToButtons, EndSession, Acceptable
  <1>25. ASSUME NEW kind \in Kinds, Deliver(kind), UNCHANGED <<mainVars, telegramVars>>
         PROVE  IntentInv'
    BY <1>25 DEF Deliver
  <1>26. CASE LookForControl /\ UNCHANGED <<mainVars, telegramVars>>
    BY <1>26 DEF LookForControl
  <1>27. CASE TakeCommand /\ UNCHANGED <<mainVars, telegramVars>>
    BY <1>27 DEF TakeCommand
  <1>28. CASE NoCommand /\ UNCHANGED <<mainVars, telegramVars>>
    BY <1>28 DEF NoCommand
  <1>29. CASE CommandEnds /\ UNCHANGED <<mainVars, telegramVars>>
    BY <1>29 DEF CommandEnds
  <1>30. CASE TelegramStep /\ UNCHANGED <<mainVars, gatewayVars>>
    BY <1>30
  <1>31. CASE UNCHANGED vars
    BY <1>31 DEF vars
  <1>32. QED
    BY <1>1, <1>2, <1>3, <1>4, <1>5, <1>6, <1>7, <1>8, <1>9, <1>10, <1>11, <1>12,
       <1>13, <1>14, <1>15, <1>16, <1>17, <1>18, <1>19, <1>20, <1>21, <1>22, <1>23, <1>24,
       <1>25, <1>26, <1>27, <1>28, <1>29, <1>30, <1>31
       DEF Next, MainStep, StartStep, StopStep, DiscordStep, GatewayStep, WorkerStep

-----------------------------------------------------------------------------
(* Telegram and the main thread *)

LEMMA AtLeast ==
    ASSUME NEW b \in Nat, NEW c \in Nat, NEW m \in Nat, c <= b + 1, c >= m
    PROVE  b + 1 >= m
  OBVIOUS

(* A failure of the poll, in numbers. *)
LEMMA FailureCounts ==
    ASSUME TelegramTypeOK, PollerInv, NEW healthy \in BOOLEAN, PollFails(healthy)
    PROVE  /\ consecutive' \in 0..MaxConsecutive /\ brief' \in Nat
           /\ consecutive' <= brief' + 1
           /\ poller' # "done" => consecutive' < MaxConsecutive
           /\ tgError' = "gave up" => poller' = "done" /\ brief' + 1 >= MaxConsecutive
  <1>1. consecutive \in 0..MaxConsecutive /\ brief \in Nat
    BY DEF TelegramTypeOK
  <1>2. MaxConsecutive \in Nat /\ MaxConsecutive >= 1
    BY PollerAssumption
  <1>3. consecutive \in Nat
    BY <1>1, <1>2
  <1>4. poller # "done"
    BY DEF PollFails
  <1>5. consecutive <= brief + 1 /\ consecutive < MaxConsecutive
    BY <1>4 DEF PollerInv
  <1>6. \/ consecutive' = 1 /\ brief' = 0
        \/ consecutive' = consecutive + 1 /\ brief' = brief + 1
    BY DEF PollFails
  <1>7. brief' \in Nat /\ consecutive' <= brief' + 1
    BY <1>1, <1>3, <1>5, <1>6
  <1>8. consecutive' \in Nat /\ consecutive' <= MaxConsecutive
    BY <1>1, <1>2, <1>3, <1>5, <1>6
  <1>9. consecutive' \in 0..MaxConsecutive
    BY <1>2, <1>8
  <1>10. CASE consecutive' >= MaxConsecutive
    <2>1. brief' + 1 >= MaxConsecutive
      BY <1>2, <1>7, <1>8, <1>10, AtLeast
    <2>2. poller' = "done"
      BY <1>10 DEF PollFails
    <2>3. QED
      BY <2>1, <2>2, <1>7, <1>9
  <1>11. CASE ~(consecutive' >= MaxConsecutive)
    <2>1. consecutive' < MaxConsecutive
      BY <1>2, <1>8, <1>11
    <2>2. tgError' # "gave up"
      BY <1>4, <1>11 DEF PollFails, PollerInv
    <2>3. QED
      BY <2>1, <2>2, <1>7, <1>9
  <1>12. QED
    BY <1>10, <1>11

LEMMA MainTypeStep ==
    ASSUME TypeOK, PollerInv, DiscordTypeOK', [Next]_vars
    PROVE  (TypeOK)'
  <1> USE GatewayAssumption, PollerAssumption
  <1> USE DEF TypeOK, TelegramTypeOK, PollerInv,
          mainVars, gatewayVars, telegramVars, sessionVars, wireVars, flagVars, workerVars, queueVars
  <1>1. CASE MakeTelegram
    BY <1>1 DEF MakeTelegram, BuildBot, At, Goto
  <1>2. CASE SpawnTelegram
    BY <1>2 DEF SpawnTelegram, SpawnPoller, At, Goto
  <1>3. CASE TelegramStarted
    BY <1>3 DEF TelegramStarted, MarkRunning, At, Goto
  <1>4. CASE TelegramNotStarted
    BY <1>4 DEF TelegramNotStarted, TelegramFails, At, Goto
  <1>5. CASE NoTelegram
    BY <1>5 DEF NoTelegram, At, Goto
  <1>6. CASE StartDiscord
    BY <1>6 DEF StartDiscord, StartGateway, At, Goto
  <1>7. CASE BeginStop
    BY <1>7 DEF BeginStop, StopTelegram, At, Goto
  <1>8. CASE TelegramJoined
    BY <1>8 DEF TelegramJoined, At, Goto
  <1>9. CASE StopDiscord
    BY <1>9 DEF StopDiscord, StopGateway, At, Goto
  <1>10. CASE DiscordJoined
    BY <1>10 DEF DiscordJoined, At, Goto
  <1>11. CASE LetGo
    BY <1>11 DEF LetGo, At, Goto
  <1>12. CASE DiscordStep /\ UNCHANGED <<mainVars, telegramVars>>
    BY <1>12
  <1>13. CASE BeginRound /\ UNCHANGED <<mainVars, gatewayVars>>
    BY <1>13 DEF BeginRound
  <1>14. CASE BeginPolling /\ UNCHANGED <<mainVars, gatewayVars>>
    BY <1>14 DEF BeginPolling
  <1>15. CASE PollingStopped /\ UNCHANGED <<mainVars, gatewayVars>>
    BY <1>15 DEF PollingStopped
  <1>16. CASE Conflict /\ UNCHANGED <<mainVars, gatewayVars>>
    BY <1>16 DEF Conflict
  <1>17. CASE BackoffEnds /\ UNCHANGED <<mainVars, gatewayVars>>
    BY <1>17 DEF BackoffEnds
  <1>18. ASSUME NEW healthy \in BOOLEAN, PollFails(healthy), UNCHANGED <<mainVars, gatewayVars>>
         PROVE  (TypeOK)'
    <2>1. tgRunning' \in BOOLEAN
      BY <1>18 DEF PollFails
    <2>2. /\ poller' \in {"done", "backoff"} /\ tgError' \in {"gave up", tgError}
          /\ UNCHANGED <<enabled, main, telegramBot, discordBot, tgStopping, bot>>
      BY <1>18 DEF PollFails
    <2>3. consecutive' \in 0..MaxConsecutive /\ brief' \in Nat
      BY <1>18, FailureCounts
    <2>4. QED
      BY <2>1, <2>2, <2>3
  <1>19. CASE UNCHANGED vars
    BY <1>19 DEF vars
  <1>20. QED
    BY <1>1, <1>2, <1>3, <1>4, <1>5, <1>6, <1>7, <1>8, <1>9, <1>10, <1>11, <1>12,
       <1>13, <1>14, <1>15, <1>16, <1>17, <1>18, <1>19
       DEF Next, MainStep, StartStep, StopStep, TelegramStep

LEMMA PollerStep ==
    ASSUME TypeOK, PollerInv, [Next]_vars
    PROVE  PollerInv'
  <1> USE GatewayAssumption, PollerAssumption
  <1> USE DEF TypeOK, TelegramTypeOK, PollerInv,
          mainVars, gatewayVars, telegramVars, sessionVars, wireVars, flagVars, workerVars, queueVars
  <1>1. CASE MakeTelegram
    BY <1>1 DEF MakeTelegram, BuildBot, At, Goto
  <1>2. CASE SpawnTelegram
    BY <1>2 DEF SpawnTelegram, SpawnPoller, At, Goto
  <1>3. CASE TelegramStarted
    BY <1>3 DEF TelegramStarted, MarkRunning, At, Goto
  <1>4. CASE TelegramNotStarted
    BY <1>4 DEF TelegramNotStarted, TelegramFails, At, Goto
  <1>5. CASE NoTelegram
    BY <1>5 DEF NoTelegram, At, Goto
  <1>6. CASE StartDiscord
    BY <1>6 DEF StartDiscord, StartGateway, At, Goto
  <1>7. CASE BeginStop
    BY <1>7 DEF BeginStop, StopTelegram, At, Goto
  <1>8. CASE TelegramJoined
    BY <1>8 DEF TelegramJoined, At, Goto
  <1>9. CASE StopDiscord
    BY <1>9 DEF StopDiscord, StopGateway, At, Goto
  <1>10. CASE DiscordJoined
    BY <1>10 DEF DiscordJoined, At, Goto
  <1>11. CASE LetGo
    BY <1>11 DEF LetGo, At, Goto
  <1>12. CASE DiscordStep /\ UNCHANGED <<mainVars, telegramVars>>
    BY <1>12
  <1>13. CASE BeginRound /\ UNCHANGED <<mainVars, gatewayVars>>
    BY <1>13 DEF BeginRound
  <1>14. CASE BeginPolling /\ UNCHANGED <<mainVars, gatewayVars>>
    BY <1>14 DEF BeginPolling
  <1>15. CASE PollingStopped /\ UNCHANGED <<mainVars, gatewayVars>>
    BY <1>15 DEF PollingStopped
  <1>16. CASE Conflict /\ UNCHANGED <<mainVars, gatewayVars>>
    BY <1>16 DEF Conflict
  <1>17. CASE BackoffEnds /\ UNCHANGED <<mainVars, gatewayVars>>
    BY <1>17 DEF BackoffEnds
  <1>18. ASSUME NEW healthy \in BOOLEAN, PollFails(healthy), UNCHANGED <<mainVars, gatewayVars>>
         PROVE  PollerInv'
    <2>1. poller \in {"polling", "calling"} /\ UNCHANGED <<main, telegramBot, bot>>
      BY <1>18 DEF PollFails
    <2>2. main' \notin {"boot", "built"}
      BY <2>1
    <2>3. telegramBot' /\ main' \in {"built", "spawned", "discord", "up"} => bot'
      BY <2>1
    <2>4. QED
      BY <2>2, <2>3, FailureCounts, <1>18
  <1>19. CASE UNCHANGED vars
    BY <1>19 DEF vars
  <1>20. QED
    BY <1>1, <1>2, <1>3, <1>4, <1>5, <1>6, <1>7, <1>8, <1>9, <1>10, <1>11, <1>12,
       <1>13, <1>14, <1>15, <1>16, <1>17, <1>18, <1>19
       DEF Next, MainStep, StartStep, StopStep, TelegramStep

-----------------------------------------------------------------------------
(* The theorems *)

IInv == TypeOK /\ QueueInv /\ IntentInv /\ PollerInv

LEMMA InitInv == Init => IInv
  <1> SUFFICES ASSUME Init PROVE IInv
    OBVIOUS
  <1> USE GatewayAssumption, PollerAssumption DEF Init, GatewayInit, TelegramInit
  <1>1. DiscordTypeOK
    <2>1. /\ running \in BOOLEAN /\ stopping \in BOOLEAN /\ connected \in BOOLEAN
          /\ awaitingAck \in BOOLEAN
      OBVIOUS
    <2>2. QED
      BY <2>1 DEF DiscordTypeOK, Intents, Kinds
  <1>2. TypeOK
    <2>1. /\ tgRunning \in BOOLEAN /\ tgStopping \in BOOLEAN /\ bot \in BOOLEAN
          /\ telegramBot \in BOOLEAN /\ discordBot \in BOOLEAN
      OBVIOUS
    <2>2. QED
      BY <1>1, <2>1 DEF TypeOK, TelegramTypeOK
  <1>3. QueueInv /\ IntentInv /\ PollerInv
    BY DEF QueueInv, IntentInv, PollerInv
  <1>4. QED
    BY <1>2, <1>3 DEF IInv

\* The inductive invariant holds of every behaviour of the two channels.
THEOREM ChatInvariant == Spec => []IInv
  <1>1. Init => IInv
    BY InitInv
  <1>2. IInv /\ [Next]_vars => IInv'
    BY DiscordTypeStep, QueueStep, IntentStep, MainTypeStep, PollerStep
       DEF IInv, TypeOK
  <1>3. QED
    BY <1>1, <1>2, PTL DEF Spec

\* The bots, their threads and queues and the notifier keep their types.
THEOREM ChatTypeCorrect == Spec => []TypeOK
  <1>1. IInv => TypeOK
    BY DEF IInv
  <1>2. QED
    BY <1>1, ChatInvariant, PTL

\* However full the queues and however long a command runs, a control that waits is
\* passed by one command at most.
THEOREM ControlsDoNotQueue == Spec => []ControlWaitsForOne
  <1>1. IInv => ControlWaitsForOne
    BY DEF IInv, QueueInv, ControlWaitsForOne
  <1>2. QED
    BY <1>1, ChatInvariant, PTL

\* _identify_rejections never reaches two, so the branch of _closed that gives up is
\* never taken: once the intent was given up, no IDENTIFY counts as refused.
THEOREM NeverGivesUpByCount == Spec => [](rejections <= 1)
  <1>1. IInv => rejections <= 1
    BY DEF IInv, IntentInv
  <1>2. QED
    BY <1>1, ChatInvariant, PTL

\* Polling ends for its failures only when all but the first in a row were brief.
THEOREM PollingGivesUpLate == Spec => []GivesUpOnBriefRuns
  <1>1. IInv => GivesUpOnBriefRuns
    BY DEF IInv, PollerInv, GivesUpOnBriefRuns
  <1>2. QED
    BY <1>1, ChatInvariant, PTL

\* Alerts find a client to be sent with, whatever became of the polling thread.
THEOREM AlertsKeepTheirClient == Spec => []DeadPollerStillSends
  <1>1. IInv => DeadPollerStillSends
    BY DEF IInv, PollerInv, DeadPollerStillSends, At
  <1>2. QED
    BY <1>1, ChatInvariant, PTL

(* The page *)

\* A thread that has fetched has a picture to write, and what it wrote, or another
\* thread wrote over it, is there when it comes to send it.
PicturesAreThere ==
    \A v \in Viewers :
        /\ at[v] \in {"picture", "flag"} => got[v] # "none"
        /\ at[v] \in {"flag", "return"} => cached # "none"

\* Nobody has been sent what is not published yet.
SentIsPublished == \A v \in Streams : last[v] <= seq

Busy == {p \in Pumps : pump[p] # "idle"}

SlotsAreHeld == IsFiniteSet(Busy) /\ proxied = Cardinality(Busy)

ViewInv == ViewTypeOK /\ PicturesAreThere /\ SentIsPublished /\ SlotsAreHeld

LEMMA ViewInitInv == ViewInit => ViewInv
  <1> SUFFICES ASSUME ViewInit PROVE ViewInv
    OBVIOUS
  <1>1. ViewTypeOK
    <2>1. at \in [Viewers -> Places] /\ opening \in [Viewers -> BOOLEAN]
      BY DEF ViewInit, Places
    <2>2. /\ got \in [Viewers -> Pictures \cup {"none"}] /\ last \in [Streams -> Nat]
          /\ shown \in [Streams -> Pictures \cup {"none", "annotated"}]
          /\ since \in [Streams -> Nat]
          /\ pump \in [Pumps -> {"idle", "connect", "pumping", "orphan"}]
      BY DEF ViewInit
    <2>3. proxied \in 0..ProxyViewers /\ seq \in Nat
      BY ViewAssumption DEF ViewInit
    <2>4. QED
      BY <2>1, <2>2, <2>3 DEF ViewInit, ViewTypeOK
  <1>2. PicturesAreThere /\ SentIsPublished
    BY DEF ViewInit, PicturesAreThere, SentIsPublished
  <1>3. Busy = {}
    BY DEF ViewInit, Busy
  <1>4. SlotsAreHeld
    BY <1>3, FS_EmptySet DEF ViewInit, SlotsAreHeld
  <1>5. QED
    BY <1>1, <1>2, <1>4 DEF ViewInv

\* The detection thread, the clock, the camera and the service's end.
LEMMA SurroundingsStep ==
    ASSUME ViewInv,
           Publish \/ GoQuiet \/ GrowOld \/ CameraChanges \/ Stop \/ UNCHANGED pageVars
    PROVE  ViewInv'
  <1> USE DEF ViewInv, worldVars
  <1>1. /\ seq' \in Nat /\ seq <= seq'
        /\ publishing' \in BOOLEAN /\ fresh' \in BOOLEAN /\ closing' \in BOOLEAN
        /\ camera' \in {"up", "down"} /\ visitors' \in Visits
        /\ UNCHANGED <<cached, cameraOk, viewerVars, pumpVars>>
    <2>1. /\ seq \in Nat /\ publishing \in BOOLEAN /\ fresh \in BOOLEAN /\ closing \in BOOLEAN
          /\ camera \in {"up", "down"} /\ visitors \in Visits
      BY DEF ViewTypeOK
    <2>2. CASE Publish
      BY <2>1, <2>2 DEF Publish, cacheVars
    <2>3. CASE GoQuiet
      <3>1. publishing' \in BOOLEAN
        BY <2>3, Zenon DEF GoQuiet
      <3>2. QED
        BY <2>1, <2>3, <3>1 DEF GoQuiet, cacheVars
    <2>4. CASE GrowOld \/ Stop
      <3>1. fresh' \in BOOLEAN /\ closing' \in BOOLEAN
        BY <2>1, <2>4, Zenon DEF GrowOld, Stop, cacheVars
      <3>2. QED
        BY <2>1, <2>4, <3>1 DEF GrowOld, Stop, holderVars, cacheVars
    <2>5. CASE CameraChanges
      BY <2>1, <2>5 DEF CameraChanges, holderVars, cacheVars
    <2>6. CASE UNCHANGED pageVars
      BY <2>1, <2>6 DEF pageVars, holderVars, cacheVars
    <2>7. QED
      BY <2>2, <2>3, <2>4, <2>5, <2>6
  <1> USE DEF viewerVars, pumpVars
  <1>2. ViewTypeOK' /\ PicturesAreThere' /\ SlotsAreHeld'
    BY <1>1 DEF ViewTypeOK, PicturesAreThere, SlotsAreHeld, Busy
  <1>3. SentIsPublished'
    BY <1>1 DEF SentIsPublished, ViewTypeOK
  <1>4. QED
    BY <1>2, <1>3

\* A viewer between its looks at the holder: it moves on, and sends what there is.
LEMMA ViewerMoves ==
    ASSUME ViewInv, NEW v \in Viewers, NEW place \in Places, Move(v, place),
           place \in {"picture", "flag"} => got'[v] # "none",
           place \in {"flag", "return"} => cached' # "none",
           cached # "none" => cached' # "none",
           cached' \in Pictures \cup {"none"}, fresh' \in BOOLEAN,
           cameraOk' \in {"unknown", "yes", "no"},
           opening' \in [Viewers -> BOOLEAN],
           got' \in [Viewers -> Pictures \cup {"none"}], \A u \in Viewers : u # v => got'[u] = got[u],
           last' \in [Streams -> Nat], \A u \in Streams : last'[u] <= seq,
           shown' \in [Streams -> Pictures \cup {"none", "annotated"}],
           since' \in [Streams -> Nat],
           UNCHANGED <<holderVars, pumpVars, closing, worldVars>>
    PROVE  ViewInv'
  <1> USE DEF ViewInv, holderVars, pumpVars, worldVars
  <1>1. /\ at' \in [Viewers -> Places]
        /\ \A u \in Viewers : at'[u] = IF u = v THEN place ELSE at[u]
    BY DEF Move, ViewTypeOK
  <1>2. ViewTypeOK'
    BY <1>1 DEF ViewTypeOK
  <1>3. PicturesAreThere'
    BY <1>1 DEF PicturesAreThere
  <1>4. SentIsPublished' /\ SlotsAreHeld'
    BY DEF SentIsPublished, SlotsAreHeld, Busy
  <1>5. QED
    BY <1>2, <1>3, <1>4

\* What a viewer is shown is what is cached.
LEMMA ShowStep ==
    ASSUME ViewTypeOK, NEW v \in Viewers, Show(v)
    PROVE  /\ opening' \in [Viewers -> BOOLEAN]
           /\ shown' \in [Streams -> Pictures \cup {"none", "annotated"}]
           /\ Rest(v) \in {"idle", "loop"} /\ Move(v, Rest(v))
  <1>1. Rest(v) \in {"idle", "loop"} /\ Move(v, Rest(v))
    BY DEF Show, Rest
  <1>2. opening' \in [Viewers -> BOOLEAN]
    BY DEF Show, ViewTypeOK
  <1>3. shown' = shown \/ shown' = [shown EXCEPT ![v] = cached]
    BY DEF Show
  <1>4. shown' \in [Streams -> Pictures \cup {"none", "annotated"}]
    BY <1>3 DEF ViewTypeOK
  <1>5. QED
    BY <1>1, <1>2, <1>4

LEMMA ViewerStep ==
    ASSUME ViewInv, NEW v \in Viewers, Ask(v) \/ Leave(v) \/ View(v)
    PROVE  ViewInv'
  <1> USE DEF ViewInv
  <1>1. /\ seq \in Nat /\ cached \in Pictures \cup {"none"} /\ fresh \in BOOLEAN
        /\ cameraOk \in {"unknown", "yes", "no"}
        /\ opening \in [Viewers -> BOOLEAN] /\ got \in [Viewers -> Pictures \cup {"none"}]
        /\ last \in [Streams -> Nat] /\ \A u \in Streams : last[u] <= seq
        /\ shown \in [Streams -> Pictures \cup {"none", "annotated"}]
        /\ since \in [Streams -> Nat]
    BY DEF ViewTypeOK, SentIsPublished
  <1>2. {"idle", "loop", "wait", "look", "fetch", "picture", "flag", "return"} = Places
    BY DEF Places
  <1>3. CASE Ask(v)
    <2>1. /\ Move(v, Rest(v)) \/ Move(v, "look")
          /\ opening' \in [Viewers -> BOOLEAN] /\ since' \in [Streams -> Nat]
          /\ UNCHANGED <<holderVars, cacheVars, got, last, shown, pumpVars, closing, worldVars>>
      <3>1. CASE publishing
        BY <1>1, <1>3, <3>1 DEF Ask
      <3>2. CASE ~publishing
        <4>1. opening' = [opening EXCEPT ![v] = (v \in Streams)]
          BY <1>3, <3>2 DEF Ask
        <4>2. CASE v \in Streams
          <5>1. opening' = [opening EXCEPT ![v] = TRUE]
            BY <4>1, <4>2
          <5>2. QED
            BY <1>1, <1>3, <3>2, <5>1 DEF Ask
        <4>3. CASE v \notin Streams
          <5>1. opening' = [opening EXCEPT ![v] = FALSE]
            <6>1. (v \in Streams) = FALSE
              BY <4>3
            <6>2. QED
              BY <4>1, <6>1, Zenon
          <5>2. QED
            BY <1>1, <1>3, <3>2, <5>1 DEF Ask
        <4>4. QED
          BY <4>2, <4>3
      <3>3. QED
        BY <3>1, <3>2
    <2>2. Rest(v) \in {"idle", "loop"}
      BY DEF Rest
    <2>3. QED
      BY <1>1, <1>2, <2>1, <2>2, ViewerMoves DEF cacheVars
  <1>4. CASE EndStream(v) /\ closing' = closing
    <2>1. last' \in [Streams -> Nat] /\ \A u \in Streams : last'[u] <= seq
      BY <1>1, <1>4 DEF EndStream
    <2>2. /\ shown' \in [Streams -> Pictures \cup {"none", "annotated"}]
          /\ since' \in [Streams -> Nat]
      BY <1>1, <1>4 DEF EndStream
    <2>3. QED
      BY <1>1, <1>2, <1>4, <2>1, <2>2, ViewerMoves DEF EndStream, cacheVars
  <1>5. CASE SendAnnotated(v)
    <2>1. last' \in [Streams -> Nat] /\ \A u \in Streams : last'[u] <= seq
      BY <1>1, <1>5 DEF SendAnnotated
    <2>2. shown' \in [Streams -> Pictures \cup {"none", "annotated"}]
      BY <1>1, <1>5 DEF SendAnnotated
    <2>3. QED
      BY <1>1, <1>2, <1>5, <2>1, <2>2, ViewerMoves DEF SendAnnotated, cacheVars
  <1>6. CASE WaitOrLook(v) \/ KeepAlive(v) \/ Fetch(v)
    <2>1. (Move(v, "wait") \/ Move(v, "look") \/ Move(v, "fetch"))
          /\ UNCHANGED <<holderVars, cacheVars, opening, got, last, shown, since, pumpVars, closing,
                         worldVars>>
      BY <1>6 DEF WaitOrLook, KeepAlive, Fetch
    <2>2. QED
      BY <1>1, <1>2, <2>1, ViewerMoves DEF cacheVars
  <1>7. CASE ShowCached(v) \/ ShowFetched(v)
    <2>1. Show(v)
          /\ UNCHANGED <<holderVars, cacheVars, got, last, since, pumpVars, closing, worldVars>>
      BY <1>7 DEF ShowCached, ShowFetched
    <2>2. QED
      BY <1>1, <1>2, <2>1, ShowStep, ViewerMoves DEF cacheVars
  <1>8. CASE FetchEnds(v)
    <2>1. got' \in [Viewers -> Pictures \cup {"none"}] /\ got'[v] # "none"
          /\ \A u \in Viewers : u # v => got'[u] = got[u]
      BY <1>1, <1>8 DEF FetchEnds, Pictures
    <2>2. QED
      BY <1>1, <1>2, <1>8, <2>1, ViewerMoves DEF FetchEnds, cacheVars
  <1>9. CASE WritePicture(v)
    <2>1. cached' = got[v] /\ got[v] # "none" /\ got[v] \in Pictures \cup {"none"}
      BY <1>1, <1>9 DEF WritePicture, PicturesAreThere
    <2>2. QED
      BY <1>1, <1>2, <1>9, <2>1, ViewerMoves DEF WritePicture
  <1>10. CASE WriteFlag(v)
    <2>1. got' \in [Viewers -> Pictures \cup {"none"}]
          /\ \A u \in Viewers : u # v => got'[u] = got[u]
      BY <1>1, <1>10 DEF WriteFlag
    <2>2. cached # "none" /\ cameraOk' \in {"unknown", "yes", "no"}
      BY <1>10 DEF WriteFlag, PicturesAreThere
    <2>3. QED
      BY <1>1, <1>2, <1>10, <2>1, <2>2, ViewerMoves DEF WriteFlag
  <1>11. QED
    BY <1>3, <1>4, <1>5, <1>6, <1>7, <1>8, <1>9, <1>10 DEF View, Leave, Dismiss, EndStream

\* One thread of /camera takes a slot or gives its own back.
LEMMA PumpStep ==
    ASSUME ViewInv, NEW p \in Pumps, Acquire(p) \/ CloseTab(p) \/ Forward(p)
    PROVE  ViewInv'
  <1> USE DEF ViewInv
  <1>1. /\ pump \in [Pumps -> {"idle", "connect", "pumping", "orphan"}]
        /\ proxied \in 0..ProxyViewers /\ ProxyViewers \in Nat
        /\ IsFiniteSet(Busy) /\ proxied = Cardinality(Busy)
    BY ViewAssumption DEF ViewTypeOK, SlotsAreHeld
  <1>2. /\ UNCHANGED <<holderVars, cacheVars, viewerVars, closing, worldVars>>
        /\ \E place \in {"idle", "connect", "pumping", "orphan"} : PumpTo(p, place)
    BY DEF Acquire, CloseTab, Forward, ConnectPump, PumpUnreachable, PumpChunk, PumpSilent, Release
  <1>3. pump' \in [Pumps -> {"idle", "connect", "pumping", "orphan"}]
    BY <1>1, <1>2 DEF PumpTo
  <1>4. SlotsAreHeld' /\ proxied' \in 0..ProxyViewers
    <2>1. CASE Acquire(p)
      <3>1. p \notin Busy /\ Busy' = Busy \cup {p}
        BY <1>1, <2>1 DEF Acquire, PumpTo, Busy
      <3>2. IsFiniteSet(Busy \cup {p}) /\ Cardinality(Busy \cup {p}) = Cardinality(Busy) + 1
        BY <1>1, <3>1, FS_AddElement
      <3>3. proxied' = proxied + 1 /\ proxied < ProxyViewers
        BY <2>1 DEF Acquire
      <3>4. QED
        BY <1>1, <3>1, <3>2, <3>3 DEF SlotsAreHeld
    <2>2. CASE CloseTab(p) \/ ConnectPump(p)
      <3>1. proxied' = proxied /\ Busy' = Busy
        BY <1>1, <2>2 DEF CloseTab, ConnectPump, PumpTo, Busy
      <3>2. QED
        BY <1>1, <3>1 DEF SlotsAreHeld
    <2>3. CASE PumpUnreachable(p) \/ PumpChunk(p) \/ PumpSilent(p)
      <3>1. Release(p) /\ pump[p] # "idle"
        BY <2>3 DEF PumpUnreachable, PumpChunk, PumpSilent
      <3>2. p \in Busy /\ Busy' = Busy \ {p}
        BY <1>1, <3>1 DEF Release, PumpTo, Busy
      <3>3. IsFiniteSet(Busy \ {p}) /\ Cardinality(Busy \ {p}) = Cardinality(Busy) - 1
        BY <1>1, <3>2, FS_RemoveElement
      <3>4. Cardinality(Busy \ {p}) \in Nat
        BY <3>3, FS_CardinalityType
      <3>5. proxied' = proxied - 1 /\ proxied > 0
        BY <1>1, <3>1, <3>3, <3>4 DEF Release
      <3>6. QED
        BY <1>1, <3>2, <3>3, <3>5 DEF SlotsAreHeld
    <2>4. QED
      BY <2>1, <2>2, <2>3 DEF Forward
  <1>5. ViewTypeOK'
    BY <1>2, <1>3, <1>4 DEF ViewTypeOK, holderVars, cacheVars, viewerVars, worldVars
  <1>6. PicturesAreThere' /\ SentIsPublished'
    BY <1>2 DEF PicturesAreThere, SentIsPublished, holderVars, cacheVars, viewerVars
  <1>7. QED
    BY <1>4, <1>5, <1>6

\* The invariant holds of the page whoever looks at it.
THEOREM ViewInvariant == ViewSpec => []ViewInv
  <1>1. ViewInv /\ [ViewNext]_pageVars => ViewInv'
    BY SurroundingsStep, ViewerStep, PumpStep DEF ViewNext
  <1>2. QED
    BY <1>1, ViewInitInv, PTL DEF ViewSpec

\* The holder, the request threads and the slots keep their types, and no more browsers
\* are pumped to than CAMERA_PROXY_VIEWERS.
THEOREM ViewTypeCorrect == ViewSpec => []ViewTypeOK
  <1>1. ViewInv => ViewTypeOK
    BY DEF ViewInv
  <1>2. QED
    BY <1>1, ViewInvariant, PTL

\* The slots of /camera in use are those of the threads that are at it, so none is lost
\* and none is given back twice; the clamp of proxy_release() is never needed.
THEOREM SlotsAreOfThreads ==
    ViewSpec => [](proxied = Cardinality({p \in Pumps : pump[p] # "idle"}))
  <1>1. ViewInv => proxied = Cardinality({p \in Pumps : pump[p] # "idle"})
    BY DEF ViewInv, SlotsAreHeld, Busy
  <1>2. QED
    BY <1>1, ViewInvariant, PTL

\* While a stream is open it always gets a picture, although the cached one is written
\* without a lock, and never an annotated one older than what it had.
THEOREM StreamsGoForward ==
    ViewSpec => [][\A v \in Streams : at'[v] # "idle" =>
                      /\ last'[v] >= last[v]
                      /\ shown[v] # "none" => shown'[v] # "none"]_pageVars
  <1>1. ViewInv /\ [ViewNext]_pageVars
          => [\A v \in Streams : at'[v] # "idle" =>
                 /\ last'[v] >= last[v]
                 /\ shown[v] # "none" => shown'[v] # "none"]_pageVars
    <2> SUFFICES ASSUME ViewInv, ViewNext, NEW v \in Streams, at'[v] # "idle"
                 PROVE  /\ last'[v] >= last[v]
                        /\ shown[v] # "none" => shown'[v] # "none"
      OBVIOUS
    <2>1. /\ last \in [Streams -> Nat] /\ last[v] <= seq /\ seq \in Nat
          /\ shown \in [Streams -> Pictures \cup {"none", "annotated"}]
          /\ at \in [Viewers -> Places] /\ v \in Viewers
      BY DEF ViewInv, ViewTypeOK, SentIsPublished, Viewers
    <2>2. CASE UNCHANGED <<last, shown>>
      BY <2>1, <2>2
    <2>3. ASSUME NEW u \in Viewers, SendAnnotated(u)
          PROVE  /\ last'[v] >= last[v]
                 /\ shown[v] # "none" => shown'[v] # "none"
      BY <2>1, <2>3 DEF SendAnnotated
    <2>4. ASSUME NEW u \in Viewers, EndStream(u)
          PROVE  /\ last'[v] >= last[v]
                 /\ shown[v] # "none" => shown'[v] # "none"
      BY <2>1, <2>4 DEF EndStream, Move
    <2>5. ASSUME NEW u \in Viewers, ShowCached(u) \/ ShowFetched(u)
          PROVE  /\ last'[v] >= last[v]
                 /\ shown[v] # "none" => shown'[v] # "none"
      <3>1. cached # "none" /\ last' = last
        BY <2>5 DEF ShowCached, ShowFetched, ViewInv, PicturesAreThere
      <3>2. shown' = shown \/ shown' = [shown EXCEPT ![u] = cached]
        BY <2>5 DEF ShowCached, ShowFetched, Show
      <3>3. QED
        BY <2>1, <3>1, <3>2
    <2>6. QED
      <3>1. ASSUME NEW u \in Viewers, Ask(u) \/ Leave(u) \/ View(u)
            PROVE  /\ last'[v] >= last[v]
                   /\ shown[v] # "none" => shown'[v] # "none"
        <4>1. CASE \/ Ask(u) \/ WaitOrLook(u) \/ KeepAlive(u) \/ Fetch(u) \/ FetchEnds(u)
                   \/ WritePicture(u) \/ WriteFlag(u)
          BY <2>2, <4>1 DEF Ask, WaitOrLook, KeepAlive, Fetch, FetchEnds, WritePicture, WriteFlag
        <4>2. QED
          BY <2>3, <2>4, <2>5, <3>1, <4>1 DEF View, Leave, Dismiss
      <3>2. CASE Publish \/ GoQuiet \/ GrowOld \/ CameraChanges \/ Stop
        BY <2>2, <3>2 DEF Publish, GoQuiet, GrowOld, CameraChanges, Stop, viewerVars
      <3>3. ASSUME NEW p \in Pumps, Acquire(p) \/ CloseTab(p) \/ Forward(p)
            PROVE  UNCHANGED <<last, shown>>
        BY <3>3 DEF Acquire, CloseTab, Forward, ConnectPump, PumpUnreachable, PumpChunk,
           PumpSilent, viewerVars
      <3>4. QED
        BY <2>2, <3>1, <3>2, <3>3 DEF ViewNext
  <1>2. QED
    BY <1>1, ViewInvariant, PTL DEF ViewSpec
=============================================================================
