---------------------------- MODULE PrintLifecycle -----------------------------
(***************************************************************************)
(* Which prints are watched: the WebSocket thread of moonraker.py, the     *)
(* state-change handler and the startup of __main__.py, and the life of    *)
(* the detection thread in detector.py.                                    *)
(*                                                                         *)
(* A job is a number and a phase: "paused" stands for print_stats.state or *)
(* pause_resume.is_paused saying so, "idle" for everything else that is    *)
(* not printing.  What the client knows, what is queued in the socket and  *)
(* what a thread has judged carry the number of the job as history; the    *)
(* code sees the phases only.                                              *)
(***************************************************************************)
EXTENDS Integers, Sequences, FiniteSets

CONSTANTS
    MaxJobs,         \* bound: jobs started on the printer
    MaxQueue,        \* bound: messages waiting in the socket
    Scenarios        \* bound: what may go wrong together in one behaviour
                     \*   "cut"      the connection to Moonraker breaks
                     \*   "deaf"     the subscription is answered with an error
                     \*   "overrun"  stop() times out (15 s) on a slow call
                     \*   "setup"    the camera or the backend fails to start
                     \*   "boot"     the service starts during these jobs, so that
                     \*              main's own check of the printer happens

ASSUME LifecycleAssumption ==
    /\ MaxJobs \in Nat /\ MaxQueue \in Nat \ {0}
    /\ Scenarios \subseteq SUBSET {"cut", "deaf", "overrun", "setup", "boot"}

VARIABLES
    may,        \* the scenario of this behaviour
    job,        \* the printer itself
    link,       \* the socket: "up"; "deaf", open without a subscription; "lost"
    queue,      \* messages in the socket not yet read
    seen,       \* client.state
    previous,   \* on_state_change.previous
    ws,         \* where the WebSocket thread is
    fresh,      \* the handler has called new_print() and not yet start()
    main,       \* where the main thread is
    thr,        \* the detection threads
    current,    \* self._thread, 0 before the first start()
    stopSet,    \* self._stop
    joining,    \* the thread stop() is waiting for
    judged,     \* history: the job known when a thread took the frame it is at
    scope,      \* history: the job known at the last new_print(), or when the
                \* service, whose notifier is new then, first connected
    window,     \* history: the jobs whose frames are in the failure window
    mishaps,    \* history: what went wrong since the last new_print()
    asked,      \* history: what a thread that asks the printer had before it
    acted       \* history: the last request that reached a print

lifecycleVars == <<may, job, link, queue, seen, previous, ws, fresh, main, thr, current,
                   stopSet, joining, judged, scope, window, mishaps, asked, acted>>
printer == <<may, job, link, queue>>
client == <<seen, previous, ws, fresh>>
detector == <<thr, current, stopSet, joining, judged, window>>
print == <<scope, mishaps>>
actions == <<asked, acted>>

Threads == {1, 2}
Phases == {"idle", "printing", "paused"}
Jobs == 0..MaxJobs
View == [phase : Phases, id : Jobs]
Message == [kind : {"status", "retold"}, phase : Phases, id : Jobs]
Stages == {"dead", "setup", "loop", "infer", "result", "judged", "request", "alert", "ending"}
(* Where a thread may be when stop() has waited 15 s for it and torn down the  *)
(* backend: not in an inference, whose lock the teardown waits for, nor        *)
(* between a verdict and the handler's look at the state, which follows at     *)
(* once; but in the request to Moonraker, which may take 20 s.                 *)
Overdue == {"setup", "loop", "result", "request", "alert", "ending"}
Mishaps == {"boot", "crossed", "cut", "overrun", "setup"}

(* A thread at work on a frame. *)
AtWork == {"infer", "result", "judged", "request"}

(* What there was when a thread decided to ask: the print known, the one on    *)
(* the printer, and whether events were unread or had been lost.               *)
Question == [known : Jobs, on : Jobs, unread : BOOLEAN, cut : BOOLEAN]
NoQuestion == [known |-> 0, on |-> 0, unread |-> FALSE, cut |-> FALSE]

Alive(t) == thr[t] # "dead"
Running == current # 0 /\ Alive(current)
--------------------------------------------------------------------------------
LifecycleInit ==
    /\ may \in Scenarios
    /\ job = [phase |-> "idle", id |-> 0]
    /\ link = "up" /\ queue = <<>>
    /\ seen = [phase |-> "idle", id |-> 0] /\ fresh = FALSE
    /\ IF "boot" \in may
       THEN previous = "none" /\ ws = "down" /\ main = "boot"
       ELSE previous = "idle" /\ ws = "read" /\ main = "running"
    /\ mishaps = {}
    /\ thr = [t \in Threads |-> "dead"] /\ current = 0 /\ stopSet = FALSE /\ joining = 0
    /\ judged = [t \in Threads |-> 0]
    /\ scope = 0 /\ window = {}
    /\ asked = [t \in Threads |-> NoQuestion]
    /\ acted = [judged |-> 0, hit |-> 0, late |-> FALSE]

(* --- the printer and Moonraker --- *)

(* Moonraker tells all connections of Klipper's restarts, and of changes those  *)
(* that have subscribed.                                                        *)
Notify(kind, j) ==
    queue' = IF ws # "down" /\ (link = "up" \/ (link = "deaf" /\ kind = "retold"))
             THEN Append(queue, [kind |-> kind, phase |-> j.phase, id |-> j.id])
             ELSE queue

(* The phases Klipper goes through; a message tells of each change. *)
JobChanges(phase) ==
    /\ Len(queue) < MaxQueue
    /\ CASE phase = "printing" -> \/ job.phase = "idle" /\ job.id < MaxJobs
                                  \/ job.phase = "paused"
         [] phase = "paused" -> job.phase = "printing"
         [] phase = "idle" -> job.phase # "idle"
    /\ job' = [phase |-> phase,
               id |-> IF job.phase = "idle" THEN job.id + 1 ELSE job.id]
    /\ Notify("status", job')
    /\ UNCHANGED <<may, link, client, main, detector, print, actions>>

(* An event that leaves the phase: Klipper restarts or shuts down, or the one  *)
(* half of a change that is reported in two, in state and in is_paused.        *)
Retell ==
    /\ Len(queue) < MaxQueue /\ link # "lost" /\ ws # "down"
    /\ Notify("retold", job)
    /\ UNCHANGED <<may, job, link, client, main, detector, print, actions>>

Disconnect ==
    /\ "cut" \in may /\ link # "lost" /\ ws # "down"
    /\ link' = "lost" /\ queue' = <<>>
    /\ mishaps' = mishaps \cup {"cut"}
    /\ UNCHANGED <<may, job, client, main, detector, scope, actions>>

(* --- the WebSocket thread --- *)

(* Mutant: the snapshot in the subscribe reply is merged without telling the *)
(* handler.                                                                  *)
ConnectSilently ==
    /\ ws = "down"
    /\ link' = "up" /\ seen' = job /\ ws' = "read"
    /\ scope' = IF previous = "none" THEN job.id ELSE scope
    /\ UNCHANGED <<may, job, queue, previous, fresh, main, detector, mishaps, actions>>

(* The subscribe reply: the current state, told to the handler in any case.  *)
(* A reply that is an error counts as one without values: the handler is     *)
(* told, nothing is merged, and nobody subscribes again in this connection.  *)
Connect ==
    /\ ws = "down"
    /\ ws' = "emit"
    /\ \/ link' = "up" /\ seen' = job /\ UNCHANGED mishaps
       \/ "deaf" \in may /\ link' = "deaf" /\ UNCHANGED seen /\ mishaps' = mishaps \cup {"cut"}
    /\ scope' = IF previous = "none" THEN seen'.id ELSE scope
    /\ UNCHANGED <<may, job, queue, previous, fresh, main, detector, actions>>

ConnectionLost ==
    /\ ws = "read" /\ link = "lost"
    /\ ws' = "down"
    /\ UNCHANGED <<printer, seen, previous, fresh, main, detector, print, actions>>

(* _handle and _apply: a status message that changes nothing is not told.    *)
Receive ==
    /\ ws = "read" /\ queue # <<>>
    /\ queue' = Tail(queue)
    /\ LET m == Head(queue)
       IN  IF m.kind = "retold"
           THEN ws' = "emit" /\ UNCHANGED seen
           ELSE /\ seen' = [phase |-> m.phase, id |-> m.id]
                /\ ws' = IF m.phase # seen.phase THEN "emit" ELSE "read"
    /\ UNCHANGED <<may, job, link, previous, fresh, main, detector, print, actions>>

(* A thread that is new; which one does not matter. *)
Unused(t) == ~Alive(t) /\ \A u \in Threads : ~Alive(u) => t <= u

(* Mutant: start() does not keep the thread. *)
SpawnUnrecorded(new) ==
    \E t \in Threads :
        /\ Unused(t)
        /\ thr' = [thr EXCEPT ![t] = "setup"]
        /\ stopSet' = FALSE
        /\ window' = IF new THEN {} ELSE window
        /\ UNCHANGED <<current, joining, judged>>

(* Mutant: start() does not clear _stop. *)
SpawnStopped(new) ==
    \E t \in Threads :
        /\ Unused(t)
        /\ thr' = [thr EXCEPT ![t] = "setup"]
        /\ current' = t
        /\ window' = IF new THEN {} ELSE window
        /\ UNCHANGED <<stopSet, joining, judged>>

(* Mutant: start() keeps the window of the print before. *)
SpawnKeepingWindow(new) ==
    \E t \in Threads :
        /\ Unused(t)
        /\ thr' = [thr EXCEPT ![t] = "setup"]
        /\ current' = t /\ stopSet' = FALSE
        /\ UNCHANGED <<window, joining, judged>>

(* Detector.start after it has found no thread alive *)
Spawn(new) ==
    \E t \in Threads :
        /\ Unused(t)
        /\ thr' = [thr EXCEPT ![t] = "setup"]
        /\ current' = t
        /\ stopSet' = FALSE
        /\ window' = IF new THEN {} ELSE window
        /\ UNCHANGED <<joining, judged>>

(* What befalls a start(): nothing keeps the other caller out of it, nor, for  *)
(* main, the printer from stopping between main's look at it and the start.    *)
Crossed == IF (\E t \in Threads : Alive(t)) \/ seen.phase # "printing" THEN {"crossed"} ELSE {}

(* Two threads, or one without a print, do not end with the print. *)
NewPrint ==
    /\ scope' = seen.id
    /\ mishaps' = (IF link = "up" THEN {} ELSE {"cut"}) \cup (mishaps \cap {"crossed"})

(* Mutant: the previous state is kept only when detection starts or stops, so *)
(* a job after one cancelled while paused looks like a resume.                *)
OnStateChangeStalePrevious ==
    /\ ws = "emit"
    /\ \/ /\ seen.phase = "printing" /\ ~Running
          /\ previous' = seen.phase
          /\ fresh' = (previous # "paused")
          /\ IF fresh' THEN NewPrint ELSE UNCHANGED print
          /\ ws' = "start"
          /\ UNCHANGED detector
       \/ /\ seen.phase # "printing" /\ Running
          /\ previous' = seen.phase
          /\ stopSet' = TRUE /\ joining' = current
          /\ ws' = "join"
          /\ UNCHANGED <<fresh, thr, current, judged, window, print>>
       \/ /\ (seen.phase = "printing") = Running
          /\ ws' = "read"
          /\ UNCHANGED <<previous, fresh, detector, print>>
    /\ UNCHANGED <<printer, seen, main, actions>>

(* on_state_change.  Both conditions read client.state and detector.running. *)
OnStateChange ==
    /\ ws = "emit"
    /\ previous' = seen.phase
    /\ \/ /\ seen.phase = "printing" /\ ~Running
          /\ fresh' = (previous # "paused")
          /\ IF fresh' THEN NewPrint ELSE UNCHANGED print
          /\ ws' = "start"
          /\ UNCHANGED detector
       \/ /\ seen.phase # "printing" /\ Running
          /\ stopSet' = TRUE /\ joining' = current
          /\ ws' = "join"
          /\ UNCHANGED <<fresh, thr, current, judged, window, print>>
       \/ /\ (seen.phase = "printing") = Running
          /\ ws' = "read"
          /\ UNCHANGED <<fresh, detector, print>>
    /\ UNCHANGED <<printer, seen, main, actions>>

(* start(fresh=not resumed) in the handler: its own test, then the new thread *)
StartLooks ==
    /\ ws = "start"
    /\ IF Running
       THEN ws' = "read" /\ fresh' = FALSE
       ELSE ws' = "create" /\ UNCHANGED fresh
    /\ UNCHANGED <<printer, seen, previous, main, detector, print, actions>>

StartCreates ==
    /\ ws = "create"
    /\ Spawn(fresh)
    /\ mishaps' = mishaps \cup Crossed
    /\ ws' = "read" /\ fresh' = FALSE
    /\ UNCHANGED <<printer, seen, previous, main, scope, actions>>

(* stop(): the thread is gone, or 15 seconds are over. *)
Joined ==
    /\ ws = "join"
    /\ Alive(joining) /\ stopSet => "overrun" \in may /\ thr[joining] \in Overdue
    /\ ws' = "read" /\ joining' = 0
    /\ mishaps' = IF Alive(joining) /\ stopSet THEN mishaps \cup {"overrun"} ELSE mishaps
    /\ UNCHANGED <<printer, seen, previous, fresh, main, thr, current, stopSet, judged,
                   window, scope, actions>>

(* --- the main thread --- *)

(* After waiting for the connection: if client.state.is_printing, then        *)
(* detector.start(), which is the handler's.                                  *)
MainChecks ==
    /\ main = "boot"
    /\ main' = IF seen.phase = "printing" THEN "start" ELSE "running"
    /\ UNCHANGED <<printer, client, detector, print, actions>>

MainLooks ==
    /\ main = "start"
    /\ main' = IF Running THEN "running" ELSE "create"
    /\ UNCHANGED <<printer, client, detector, print, actions>>

MainCreates ==
    /\ main = "create"
    /\ Spawn(TRUE)
    /\ mishaps' = mishaps \cup {"boot"} \cup Crossed
    /\ main' = "running"
    /\ UNCHANGED <<printer, client, scope, actions>>

(* --- a detection thread --- *)

(* With the end of its work on a frame the thread forgets whose it was. *)
Goes(t, stage) ==
    /\ thr' = [thr EXCEPT ![t] = stage]
    /\ judged' = [judged EXCEPT ![t] = IF stage \in AtWork THEN @ ELSE 0]


(* _setup; a failure is logged and the thread is over *)
Setup(t, ok) ==
    /\ thr[t] = "setup"
    /\ ~ok => "setup" \in may
    /\ Goes(t, IF ok THEN "loop" ELSE "dead")
    /\ mishaps' = IF ok THEN mishaps ELSE mishaps \cup {"setup"}
    /\ UNCHANGED <<printer, client, main, current, stopSet, joining, window,
                   scope, actions>>

(* The start delay and _consume look at _stop; then a camera notice is sent,  *)
(* or a frame is taken.                                                      *)
Loop(t) ==
    /\ thr[t] = "loop"
    /\ \/ stopSet /\ Goes(t, "ending")
       \/ ~stopSet /\ Goes(t, "alert")
       \/ /\ ~stopSet
          /\ thr' = [thr EXCEPT ![t] = "infer"]
          /\ judged' = [judged EXCEPT ![t] = seen.id]
    /\ UNCHANGED <<printer, client, main, current, stopSet, joining, window, print,
                   actions>>

(* The finally of _run sets _stop for the sampler and ends. *)
End(t) ==
    /\ thr[t] = "ending"
    /\ Goes(t, "dead")
    /\ stopSet' = TRUE
    /\ UNCHANGED <<printer, client, main, current, joining, window, print,
                   actions>>

(* NozcamBackend.infer: a result, or an exception. *)
Infer(t, ok) ==
    /\ thr[t] = "infer"
    /\ Goes(t, IF ok THEN "result" ELSE "loop")
    /\ UNCHANGED <<printer, client, main, current, stopSet, joining, window,
                   print, actions>>

(* Mutant: a result that arrives after the run was stopped counts. *)
JudgeIgnoringStop(t, met) ==
    /\ thr[t] = "result"
    /\ Goes(t, IF met THEN "judged" ELSE "loop")
    /\ window' = window \cup {judged[t]}
    /\ UNCHANGED <<printer, client, main, current, stopSet, joining, print,
                   actions>>

(* _score: the result is discarded because the run was stopped meanwhile, or *)
(* it goes into the window and the window decides.                           *)
Judge(t, met) ==
    /\ thr[t] = "result"
    /\ IF stopSet
       THEN Goes(t, "loop") /\ UNCHANGED window
       ELSE /\ Goes(t, IF met THEN "judged" ELSE "loop")
            /\ window' = window \cup {judged[t]}
    /\ UNCHANGED <<printer, client, main, current, stopSet, joining, print,
                   actions>>

(* on_failure: the state is checked again, then the printer action, if one is *)
(* set, is asked for.                                                         *)
Check(t) ==
    /\ thr[t] = "judged"
    /\ \/ /\ seen.phase = "printing"
          /\ Goes(t, "request")
          /\ asked' = [asked EXCEPT ![t] = [known |-> seen.id, on |-> job.id,
                                            unread |-> queue # <<>>,
                                            cut |-> "cut" \in mishaps]]
       \/ seen.phase = "printing" /\ Goes(t, "alert") /\ UNCHANGED asked
       \/ seen.phase # "printing" /\ Goes(t, "loop") /\ UNCHANGED asked
    /\ UNCHANGED <<printer, client, main, current, stopSet, joining, window,
                   print, acted>>

(* The request over REST, which names no print: it reaches the one there is,  *)
(* or fails.                                                                  *)
Request(t, ok) ==
    /\ thr[t] = "request"
    /\ Goes(t, "alert")
    /\ asked' = [asked EXCEPT ![t] = NoQuestion]
    /\ acted' = IF ok /\ job.phase # "idle"
                THEN [judged |-> judged[t], hit |-> job.id,
                      late |-> asked[t].cut \/ asked[t].unread \/ asked[t].on # job.id]
                ELSE acted
    /\ UNCHANGED <<printer, client, main, current, stopSet, joining, window,
                   print>>

Alerted(t) ==
    /\ thr[t] = "alert"
    /\ Goes(t, "loop")
    /\ UNCHANGED <<printer, client, main, current, stopSet, joining, window,
                   print, actions>>

Thread(t) ==
    \/ \E ok \in BOOLEAN : Setup(t, ok)
    \/ Loop(t)
    \/ \E ok \in BOOLEAN : Infer(t, ok)
    \/ \E met \in BOOLEAN : Judge(t, met)
    \/ Check(t)
    \/ \E ok \in BOOLEAN : Request(t, ok)
    \/ Alerted(t)
    \/ End(t)

WsThread ==
    \/ Connect \/ ConnectionLost \/ Receive
    \/ OnStateChange \/ StartLooks \/ StartCreates \/ Joined

Main == MainChecks \/ MainLooks \/ MainCreates

LifecycleNext ==
    \/ \E phase \in Phases : JobChanges(phase)
    \/ Retell \/ Disconnect
    \/ WsThread
    \/ Main
    \/ \E t \in Threads : Thread(t)

LifecycleSpec == LifecycleInit /\ [][LifecycleNext]_lifecycleVars

(* The threads run, slow calls end at last, and the client goes on            *)
(* reconnecting.                                                             *)
LifecycleFairSpec ==
    /\ LifecycleSpec
    /\ WF_lifecycleVars(WsThread) /\ WF_lifecycleVars(Main)
    /\ \A t \in Threads : WF_lifecycleVars(Thread(t))
--------------------------------------------------------------------------------
(* Types; the thread in self._thread is one that was started. *)
LifecycleTypeOK ==
    /\ may \in Scenarios
    /\ job \in View /\ seen \in View
    /\ link \in {"up", "deaf", "lost"} /\ queue \in Seq(Message) /\ Len(queue) <= MaxQueue
    /\ previous \in Phases \cup {"none"}
    /\ ws \in {"down", "read", "emit", "start", "create", "join"} /\ fresh \in BOOLEAN
    /\ main \in {"boot", "start", "create", "running"}
    /\ thr \in [Threads -> Stages] /\ current \in {0} \cup Threads
    /\ stopSet \in BOOLEAN
    /\ joining \in {0} \cup Threads /\ (ws = "join" <=> joining # 0)
    /\ judged \in [Threads -> Jobs] /\ scope \in Jobs
    /\ mishaps \subseteq Mishaps
    /\ window \subseteq Jobs
    /\ asked \in [Threads -> Question]
    /\ acted \in [judged : Jobs, hit : Jobs, late : BOOLEAN]
    /\ \A t \in Threads : Alive(t) => current # 0

\* No start() met another, nor main's a printer that had just stopped.
NotCrossed == "crossed" \notin mishaps

\* Since the last new_print() no stop() timed out, no event was lost, and detection
\* was not begun without one by main's own check.
Undisturbed == {"boot", "crossed", "cut", "overrun"} \cap mishaps = {}

(* A frame taken during one print never makes the handler ask for the next,   *)
(* however long its inference lasted and whether or not stop() waited for it; *)
(* and the print that is hit is then the one judged, unless its end was       *)
(* still unread in the socket at the handler's check, or the next began while *)
(* the request was under way: __main__.py's "the print may have ended between *)
(* the last frame and this call" is met for what the client has been told,    *)
(* and not for the printer itself.                                            *)
ActsOnJudgedPrint ==
    NotCrossed =>
        /\ \A t \in Threads :
             thr[t] = "request" /\ ~asked[t].cut => asked[t].known = judged[t]
        /\ ~acted.late => acted.hit = acted.judged

(* The failures that count; start() is about to forget those before a print   *)
(* that is new.                                                               *)
Evidence == IF fresh THEN {} ELSE window

(* The failure window never mixes frames of two prints; after a stop() that   *)
(* timed out or a lost connection, from the next new_print() on.             *)
WindowIsOnePrint == Undisturbed => Cardinality(Evidence) <= 1

(* notify.py: alerts "come back on automatically when the next print        *)
(* starts", and confirmations count "in the current print".  A print being  *)
(* watched has had its new_print(), with the same exceptions.                *)
ScopeIsThisPrint ==
    \A t \in Threads :
        thr[t] \in {"infer", "result", "judged", "request"} /\ Undisturbed => scope = judged[t]

(* Whatever the printer, the connection and the threads do, and in whichever *)
(* order, the lifecycle keeps PrintGuard's promise: the printer is asked to  *)
(* act only for the print whose own frames, since its new_print(), are       *)
(* counted, and what is hit is hit by such a request.                        *)
Requests == {asked[t].known : t \in {u \in Threads : thr[u] = "request"}}
Guard == INSTANCE PrintGuard WITH Prints <- Jobs, print <- scope, evidence <- Evidence,
                                  asked <- Requests, now <- job.id, hit <- acted.hit,
                                  excused <- ~Undisturbed
ImplementsGuard == Guard!Spec

(* __main__.py: "Start and stop detecting with the print."  A job that goes  *)
(* on printing with the connection up and subscribed is watched, however     *)
(* often it was lost before, unless the set-up failed or a stop() timed out. *)
PrintIsWatched ==
    <>[](job.phase = "printing" /\ link = "up" /\ mishaps \subseteq {"boot", "cut"})
        => []<>(\E t \in Threads : Alive(t))

(* A printer that stays idle or paused is not watched for ever: the camera   *)
(* and the inference process are let go.                                     *)
IdleIsReleased ==
    <>[](job.phase # "printing" /\ link = "up" /\ NotCrossed)
        => <>[](\A t \in Threads : ~Alive(t))
================================================================================
