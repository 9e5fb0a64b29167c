--------------------------- MODULE DiscordGateway ---------------------------
(***************************************************************************)
(* moonraker_pinozcam/discord_bot.py: the Gateway thread, which keeps one  *)
(* connection to Discord, and the worker thread, which runs the commands   *)
(* that arrive over it.  Between them are two bounded queues, one for the  *)
(* commands that touch the printer and one for the others.                 *)
(*                                                                         *)
(* The flags the code resets with every connection (interval,              *)
(* _reached_ready, _identified_privileged) are the stages of wire.  What   *)
(* is queued is counted: which command it is makes no difference here.     *)
(* The delay between two connections is left out: it ends, or the stop     *)
(* flag ends it.                                                           *)
(***************************************************************************)
EXTENDS Naturals

CONSTANTS
    MaxControls,   \* maxsize of _controls, 8 in the code
    MaxCommands    \* maxsize of _commands, 2 in the code

ASSUME GatewayAssumption == MaxControls \in Nat /\ MaxCommands \in Nat

VARIABLES
    account,      \* what Discord and the installation have for this bot
    running,      \* self.running
    stopping,     \* self.stop_event
    connected,    \* self.connected
    gateway,      \* where the Gateway thread is
    wire,         \* how far the connection has come
    awaitingAck,  \* awaiting_ack
    session,      \* the intents _session_id was opened with, or "none"
    intents,      \* self._intents
    rejections,   \* self._identify_rejections
    worker,       \* where the worker is
    job,          \* what it runs
    controls,     \* how many wait in _controls
    commands,     \* how many wait in _commands
    passed        \* history: commands begun since _controls was last empty

sessionVars == <<session, intents, rejections>>
wireVars == <<gateway, connected, wire, awaitingAck, sessionVars>>
flagVars == <<running, stopping>>
workerVars == <<worker, job, passed>>
queueVars == <<controls, commands>>
gatewayVars == <<account, flagVars, wireVars, workerVars, queueVars>>

\* The bot was invited and its token is right; it may also be granted the
\* privileged intent that typed commands need.  websocket-client may be missing.
Accounts == [tokenGood : BOOLEAN, granted : BOOLEAN, library : BOOLEAN]
Intents == {"text", "buttons"}
Kinds == {"control", "command"}
\* Whether a close shows its code to the client depends on the WebSocket library.
Codes == {"unseen", "token", "intents"}

Stopped == ~running \/ stopping

GatewayInit ==
    /\ account \in Accounts
    /\ running = FALSE /\ stopping = FALSE /\ connected = FALSE
    /\ gateway = "off" /\ wire = "none" /\ awaitingAck = FALSE
    /\ session = "none" /\ intents = "text" /\ rejections = 0
    /\ worker = "off" /\ job = "none" /\ passed = 0
    /\ controls = 0 /\ commands = 0
-----------------------------------------------------------------------------
(* start() and stop(), called by Notifier *)

StartGateway ==
    /\ ~running
    /\ running' = TRUE /\ stopping' = FALSE
    /\ gateway' = "top" /\ worker' = "top"

(* stop() up to its joins.  The thread finds the socket closed whatever it does. *)
StopGateway == running' = FALSE /\ stopping' = TRUE
-----------------------------------------------------------------------------
(* the Gateway thread *)

(* _run: another round of its loop, or its end.  Without the library the first  *)
(* round is the end.                                                             *)
NextRound ==
    /\ gateway = "top"
    /\ gateway' = IF Stopped \/ ~account.library THEN "done" ELSE "connecting"
    /\ running' = (running /\ account.library)
    /\ UNCHANGED <<account, stopping, connected, wire, awaitingAck, sessionVars,
                   workerVars, queueVars>>

(* What _run does when _session is over: a fatal close is the end. *)
EndSession(fatal) ==
    /\ gateway' = IF fatal THEN "done" ELSE "top"
    /\ running' = (running /\ ~fatal)
    /\ connected' = FALSE
    /\ wire' = "none" /\ awaitingAck' = FALSE
    /\ UNCHANGED <<account, stopping, workerVars, queueVars>>

(* create_connection *)
Connect ==
    /\ gateway = "connecting"
    /\ gateway' = "session" /\ wire' = "open" /\ awaitingAck' = FALSE
    /\ UNCHANGED <<account, flagVars, connected, sessionVars, workerVars, queueVars>>

ConnectFails ==
    /\ gateway = "connecting"
    /\ EndSession(FALSE)
    /\ UNCHANGED <<session, intents, rejections>>

(* The loop of _session looks at the stop flags before each heartbeat and each   *)
(* recv.  What the recv under way at stop() has read is still handled.           *)
InSession == gateway = "session"

(* The loop of _session ends because of stop(). *)
LeaveSession ==
    /\ InSession /\ Stopped
    /\ EndSession(FALSE)
    /\ UNCHANGED <<session, intents, rejections>>

Hello ==
    /\ InSession
    /\ wire = "open"
    /\ wire' = IF session # "none" THEN "resuming" ELSE "identified"
    /\ awaitingAck' = FALSE
    /\ UNCHANGED <<account, flagVars, gateway, connected, sessionVars, workerVars,
                   queueVars>>

(* Discord takes an IDENTIFY that asks for what was granted. *)
Acceptable == account.tokenGood /\ (intents = "text" => account.granted)

Ready ==
    /\ InSession
    /\ wire = "identified" /\ Acceptable
    /\ wire' = "ready" /\ connected' = TRUE
    /\ session' = intents /\ rejections' = 0
    /\ UNCHANGED <<account, flagVars, gateway, awaitingAck, intents, workerVars,
                   queueVars>>

Resumed ==
    /\ InSession
    /\ wire = "resuming" /\ account.tokenGood
    /\ wire' = "ready" /\ connected' = TRUE
    /\ rejections' = 0
    /\ UNCHANGED <<account, flagVars, gateway, awaitingAck, session, intents, workerVars, queueVars>>

(* The next heartbeat is due. *)
Beat ==
    /\ InSession /\ ~Stopped
    /\ wire # "open" /\ ~awaitingAck
    /\ awaitingAck' = TRUE
    /\ UNCHANGED <<account, flagVars, gateway, connected, wire, sessionVars, workerVars,
                   queueVars>>

Ack ==
    /\ InSession
    /\ awaitingAck /\ awaitingAck' = FALSE
    /\ UNCHANGED <<account, flagVars, gateway, connected, wire, sessionVars, workerVars,
                   queueVars>>

(* The last heartbeat was not acknowledged, Discord asks for a reconnection, or  *)
(* the socket raises an error without a code that is fatal.                      *)
Reconnect ==
    /\ InSession
    /\ EndSession(FALSE)
    /\ UNCHANGED <<session, intents, rejections>>

(* INVALID_SESSION says whether the session may still be resumed. *)
InvalidSession(resumable) ==
    /\ InSession
    /\ wire \in {"identified", "resuming", "ready"}
    /\ session' = IF resumable THEN session ELSE "none"
    /\ EndSession(FALSE)
    /\ UNCHANGED <<intents, rejections>>

ToButtons == intents' = "buttons" /\ session' = "none"

(* _handle_fatal_close *)
FatalClose(code) ==
    /\ UNCHANGED rejections
    /\ IF code = "intents" /\ intents # "buttons"
       THEN ToButtons /\ EndSession(FALSE)
       ELSE UNCHANGED <<intents, session>> /\ EndSession(TRUE)

(* Mutant: _closed does not give up the intent. *)
UnexplainedCloseRetried ==
    /\ rejections' = IF wire = "ready" THEN 0 ELSE rejections
    /\ UNCHANGED <<intents, session>> /\ EndSession(FALSE)

(* _closed without a code: it goes by how far the connection had come. *)
UnexplainedClose ==
    \/ /\ wire = "ready"
       /\ rejections' = 0
       /\ UNCHANGED <<intents, session>> /\ EndSession(FALSE)
    \/ /\ wire # "ready" /\ ~(wire = "identified" /\ intents # "buttons")
       /\ UNCHANGED <<rejections, intents, session>> /\ EndSession(FALSE)
    \/ /\ wire = "identified" /\ intents # "buttons"
       /\ rejections' = rejections + 1
       /\ IF rejections' = 1
          THEN ToButtons /\ EndSession(FALSE)
          ELSE UNCHANGED <<intents, session>> /\ EndSession(TRUE)

Closed(code) == IF code = "unseen" THEN UnexplainedClose ELSE FatalClose(code)

(* The connection is closed for a reason of the network's or of stop()'s. *)
ConnectionCloses ==
    /\ InSession
    /\ Closed("unseen")

(* Discord closes a connection whose IDENTIFY or RESUME it does not take. *)
Refuse(visible) ==
    /\ InSession
    /\ \/ wire = "identified" /\ ~Acceptable
       \/ wire = "resuming" /\ ~account.tokenGood
    /\ Closed(IF ~visible THEN "unseen"
              ELSE IF account.tokenGood THEN "intents" ELSE "token")

GatewayStep ==
    \/ NextRound
    \/ Connect \/ ConnectFails
    \/ LeaveSession
    \/ Hello \/ Ready \/ Resumed
    \/ Beat \/ Ack \/ Reconnect
    \/ \E resumable \in BOOLEAN : InvalidSession(resumable)
    \/ ConnectionCloses
    \/ \E visible \in BOOLEAN : Refuse(visible)
-----------------------------------------------------------------------------
(* commands *)

(* A button press or a typed command is delivered and put in its queue.  One for *)
(* another printer or from another channel is ignored; for a full queue the user *)
(* is told that the bot is busy.                                                 *)
Deliver(kind) ==
    /\ InSession
    /\ wire = "ready"
    /\ \/ kind = "control" /\ controls < MaxControls /\ controls' = controls + 1
          /\ UNCHANGED commands
       \/ kind = "command" /\ commands < MaxCommands /\ commands' = commands + 1
          /\ UNCHANGED controls
    /\ UNCHANGED <<account, flagVars, wireVars, workerVars>>

(* Mutant: a control is looked for only when no command waits. *)
LookForControlLast ==
    /\ worker = "top"
    /\ IF stopping
       THEN worker' = "done" /\ UNCHANGED <<job, controls, passed>>
       ELSE IF controls > 0 /\ commands = 0
       THEN /\ worker' = "busy" /\ job' = "control" /\ controls' = controls - 1
            /\ passed' = IF controls = 1 THEN 0 ELSE passed
       ELSE worker' = "waiting" /\ UNCHANGED <<job, controls, passed>>
    /\ UNCHANGED <<account, flagVars, wireVars, commands>>

(* _command_worker: it looks for a control, and if there is none waits for a *)
(* command for a quarter of a second.                                        *)
LookForControl ==
    /\ worker = "top"
    /\ IF stopping
       THEN worker' = "done" /\ UNCHANGED <<job, controls, passed>>
       ELSE IF controls > 0
       THEN /\ worker' = "busy" /\ job' = "control" /\ controls' = controls - 1
            /\ passed' = IF controls = 1 THEN 0 ELSE passed
       ELSE worker' = "waiting" /\ UNCHANGED <<job, controls, passed>>
    /\ UNCHANGED <<account, flagVars, wireVars, commands>>

TakeCommand ==
    /\ worker = "waiting" /\ commands > 0
    /\ worker' = "busy" /\ job' = "command" /\ commands' = commands - 1
    /\ passed' = IF controls > 0 THEN passed + 1 ELSE 0
    /\ UNCHANGED <<account, flagVars, wireVars, controls>>

(* Mutant: the worker waits for a command without a time-out. *)
NoCommandEver ==
    /\ worker = "waiting" /\ commands = 0
    /\ UNCHANGED gatewayVars

NoCommand ==
    /\ worker = "waiting" /\ commands = 0
    /\ worker' = "top"
    /\ UNCHANGED <<account, flagVars, wireVars, queueVars, job, passed>>

(* on_command returns or raises. *)
CommandEnds ==
    /\ worker = "busy"
    /\ worker' = "top" /\ job' = "none"
    /\ UNCHANGED <<account, flagVars, wireVars, queueVars, passed>>

WorkerStep == LookForControl \/ TakeCommand \/ NoCommand \/ CommandEnds

DiscordStep ==
    \/ GatewayStep
    \/ \E kind \in Kinds : Deliver(kind)
    \/ WorkerStep

(* The threads run and a command ends at last.  Discord and the network, however *)
(* often they fail, do their part infinitely often if they are asked to           *)
(* infinitely often.                                                              *)
DiscordFairness ==
    /\ WF_gatewayVars(NextRound) /\ WF_gatewayVars(LeaveSession)
    /\ WF_gatewayVars(Connect \/ ConnectFails)
    /\ WF_gatewayVars(WorkerStep)
    /\ SF_gatewayVars(Connect) /\ SF_gatewayVars(Hello)
    /\ SF_gatewayVars(Ready) /\ SF_gatewayVars(Resumed)
    /\ SF_gatewayVars(\E visible \in BOOLEAN : Refuse(visible))
-----------------------------------------------------------------------------
DiscordTypeOK ==
    /\ account \in Accounts
    /\ running \in BOOLEAN /\ stopping \in BOOLEAN /\ connected \in BOOLEAN
    /\ gateway \in {"off", "top", "connecting", "session", "done"}
    /\ wire \in {"none", "open", "identified", "resuming", "ready"}
    /\ awaitingAck \in BOOLEAN
    /\ session \in Intents \cup {"none"} /\ intents \in Intents
    /\ rejections \in Nat
    /\ worker \in {"off", "top", "waiting", "busy", "done"}
    /\ job \in Kinds \cup {"none"}
    /\ controls \in 0..MaxControls /\ commands \in 0..MaxCommands /\ passed \in Nat

(* discord_bot.py: controls "must not queue behind a Check".  A control that  *)
(* waits lets one command begin before it at most: the one the worker was     *)
(* already waiting for when the control arrived.                              *)
ControlWaitsForOne == passed <= 1

(* A control that was accepted is run, whatever else arrives, unless the bot  *)
(* is stopped first.                                                          *)
ControlIsRun == controls > 0 ~> job = "control" \/ stopping

(* However connections fail, and whether or not the privileged intent is      *)
(* granted, a bot whose token is good and whose library is there comes to be  *)
(* connected again and again.                                                 *)
GatewayRecovers ==
    [](account.tokenGood /\ account.library /\ gateway # "off"
         => <>(connected \/ stopping))
=============================================================================
