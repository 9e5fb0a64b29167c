----------------------------- MODULE NozcamBackend -----------------------------
(***************************************************************************)
(* nozcam_backend.py: the client of the inference daemon, with the daemon  *)
(* process at the other end of its pipes, called by the detection thread   *)
(* and stopped by the WebSocket thread (Detector.stop).                    *)
(*                                                                         *)
(* Header, payload and reply of one exchange are one message each way.  A  *)
(* frame is a model value; what the daemon finds in it is left out.        *)
(***************************************************************************)
EXTENDS Integers, Sequences

CONSTANTS
    Frames,       \* pictures that are told apart
    Settings,     \* score_threshold, sensitivity and cpus together
    IdModulus,    \* request ids are 1..IdModulus (2^32 - 1 in the code)
    Backoffs,     \* the last index of BACKOFF_SECONDS; entry i is i ticks
    MayOverrun    \* whether Detector.stop's join can time out

ASSUME ConstantsAssumption ==
    /\ IdModulus \in Nat \ {0, 1}
    /\ Backoffs \in Nat \ {0}
    /\ MayOverrun \in BOOLEAN

VARIABLES
    thread,     \* where the detection thread is
    call,       \* the infer() under way
    result,     \* what the last infer() returned
    stage,      \* the exchange under way
    kind,       \* _kind: the CPU, or an accelerator, alone or backed by the CPU
                \* (_may_fallback_to_cpu: found automatically, and not a "bpu")
    live,       \* _live_*: the settings of the daemon started, or none
    daemon,     \* the process: whether it runs, its settings, its two pipes
    reqId,      \* _req_id
    failures,   \* _fail_count, up to the longest delay
    wait,       \* ticks until _retry_after
    stopper,    \* the WebSocket thread in Detector.stop
    stopSet,    \* Detector._stop
    released,   \* whether Detector._backend is None
    intruded,   \* history: a call began after _stop was set
    faulty      \* whether daemons still fail

vars == <<thread, call, result, stage, kind, live, daemon, reqId, failures, wait,
          stopper, stopSet, released, intruded, faulty>>
client == <<call, result, stage, kind, reqId, failures, wait>>
detector == <<stopper, stopSet, released, intruded, faulty>>

NoCall == [frame |-> "none"]
NoResult == [frame |-> "none"]
None == "none"
NoProcess == [up |-> FALSE, setting |-> None, in |-> <<>>, out |-> <<>>]

Threads == {"top", "taken", "ensure", "spawn", "send", "await", "between", "failed",
            "ending", "dead"}
Stages == {"none", "ping", "info", "warm", "frame"}
Holding == thread \in {"spawn", "send", "await"}     \* has _lock
IsAlive == live # None /\ daemon.up

(* A healthy daemon answers well and in time; an accelerator backed by the   *)
(* CPU may still be unable to get through its start.                         *)
MayFail ==
    faulty \/ (kind = "backed" /\ Holding /\ stage # "frame" /\ daemon.out = <<>>)

After == [ping |-> "info", info |-> "warm"]
--------------------------------------------------------------------------------
Init ==
    /\ thread = "top" /\ call = NoCall /\ result = NoResult /\ stage = "none"
    /\ kind \in {"cpu", "alone", "backed"}
    /\ live = None /\ daemon = NoProcess
    /\ reqId = 0 /\ failures = 0 /\ wait = 0
    /\ stopper = "idle" /\ stopSet = FALSE /\ released = FALSE /\ intruded = FALSE
    /\ faulty = TRUE

(* --- pieces of the client --- *)

(* _stop_locked: the process is gone, and with it all that was in its pipes. *)
StopLocked == live' = None /\ daemon' = NoProcess

NoteFailure ==
    /\ failures' = IF failures < Backoffs THEN failures + 1 ELSE failures
    /\ wait' = failures'

NoteSuccess == failures' = 0 /\ wait' = 0

Raise(next) == thread' = next /\ call' = NoCall /\ stage' = "none"

(* Mutant: no fall-back. *)
StartFailsForGood ==
    /\ StopLocked
    /\ NoteFailure /\ Raise("top") /\ UNCHANGED <<kind, result, reqId>>

(* ensure_started, its exception handler: an accelerator that has the CPU   *)
(* behind it is replaced by it at once.                                     *)
StartFails ==
    /\ StopLocked
    /\ IF kind = "backed"
       THEN /\ kind' = "cpu" /\ thread' = "spawn" /\ stage' = "none"
            /\ UNCHANGED <<call, failures, wait>>
       ELSE /\ NoteFailure /\ Raise("top")
            /\ UNCHANGED kind
    /\ UNCHANGED <<result, reqId>>

(* An exchange fails: in the start, or in infer(), which counts the failure *)
(* and has yet to stop the daemon and what is unread in its pipes.          *)
ExchangeFails ==
    \/ /\ stage # "frame"
       /\ StartFails
    \/ /\ stage = "frame"
       /\ NoteFailure
       /\ thread' = "failed"
       /\ UNCHANGED <<call, result, stage, kind, live, daemon, reqId>>

(* --- the detection thread --- *)

(* _consume sees that it is not stopped and takes a frame; or it ends,       *)
(* stopped or by an exception.                                               *)
Take ==
    /\ thread = "top"
    /\ \/ ~stopSet /\ thread' = "taken"
       \/ thread' = "ending"
    /\ UNCHANGED <<client, live, daemon, detector>>

(* _score calls infer() of the backend it still has. *)
Call(f, s) ==
    /\ thread = "taken"
    /\ IF released
       THEN thread' = "top" /\ UNCHANGED <<call, result, intruded>>
       ELSE /\ thread' = "ensure"
            /\ call' = [frame |-> f, setting |-> s]
            /\ result' = NoResult
            /\ intruded' = (intruded \/ stopSet)
    /\ UNCHANGED <<stage, kind, live, daemon, reqId, failures, wait, stopper, stopSet,
                   released, faulty>>

(* Mutant: a daemon with other settings is good enough. *)
EnsureAnyStarted ==
    /\ thread = "ensure"
    /\ \/ IsAlive /\ thread' = "between" /\ UNCHANGED <<client, live, daemon>>
       \/ ~IsAlive /\ wait > 0 /\ Raise("top")
          /\ UNCHANGED <<result, kind, live, daemon, reqId, failures, wait>>
       \/ ~IsAlive /\ wait = 0 /\ StopLocked /\ thread' = "spawn" /\ UNCHANGED client
    /\ UNCHANGED detector

(* ensure_started: the daemon runs with these settings; or it is too early   *)
(* for another attempt; or it is started again.                              *)
EnsureStarted ==
    LET usable == IsAlive /\ live = call.setting
    IN  /\ thread = "ensure"
        /\ \/ usable
              /\ thread' = "between"
              /\ UNCHANGED <<client, live, daemon>>
           \/ ~usable /\ wait > 0
              /\ Raise("top")
              /\ UNCHANGED <<result, kind, live, daemon, reqId, failures, wait>>
           \/ ~usable /\ wait = 0
              /\ StopLocked
              /\ thread' = "spawn"
              /\ UNCHANGED client
        /\ UNCHANGED detector

(* _start_locked: preflight and Popen *)
Spawn(ok) ==
    /\ thread = "spawn"
    /\ ok \/ MayFail
    /\ IF ok
       THEN /\ daemon' = [NoProcess EXCEPT !.up = TRUE, !.setting = call.setting]
            /\ live' = call.setting
            /\ stage' = "ping" /\ thread' = "send"
            /\ UNCHANGED <<call, result, kind, reqId, failures, wait>>
       ELSE StartFails
    /\ UNCHANGED detector

(* _call_locked: the request is written, or the write fails or times out. *)
Send(ok) ==
    LET id == IF stage \in {"warm", "frame"} THEN (reqId % IdModulus) + 1 ELSE reqId
        request == [stage |-> stage, id |-> id, frame |-> call.frame]
    IN  /\ thread = "send"
        /\ IF ok /\ daemon.up
           THEN /\ daemon' = [daemon EXCEPT !.in = Append(@, request)]
                /\ reqId' = id
                /\ thread' = "await"
                /\ UNCHANGED <<call, result, stage, kind, live, failures, wait>>
           ELSE /\ ~ok /\ (MayFail \/ ~daemon.up)
                /\ ExchangeFails
        /\ UNCHANGED detector

(* The reply is read and validated. *)
Receive ==
    LET reply == Head(daemon.out)
        good == reply.ok /\ (stage \in {"warm", "frame"} => reply.id = reqId)
    IN  /\ thread = "await" /\ daemon.out # <<>>
        /\ \/ ~good /\ ExchangeFails
           \/ /\ good /\ stage \in {"ping", "info"}
              /\ stage' = After[stage] /\ thread' = "send"
              /\ daemon' = [daemon EXCEPT !.out = Tail(@)]
              /\ UNCHANGED <<call, result, kind, live, reqId, failures, wait>>
           \/ /\ good /\ stage = "warm"
              /\ NoteSuccess
              /\ stage' = "none" /\ thread' = "between"
              /\ daemon' = [daemon EXCEPT !.out = Tail(@)]
              /\ UNCHANGED <<call, result, kind, live, reqId>>
           \/ /\ good /\ stage = "frame"
              /\ NoteSuccess
              /\ result' = [frame |-> reply.frame, setting |-> reply.setting]
              /\ Raise("top")
              /\ daemon' = [daemon EXCEPT !.out = Tail(@)]
              /\ UNCHANGED <<kind, live, reqId>>
        /\ UNCHANGED detector

(* The deadline passes, or the pipe is closed. *)
GiveUp ==
    /\ thread = "await" /\ daemon.out = <<>>
    /\ MayFail \/ ~daemon.up
    /\ ExchangeFails
    /\ UNCHANGED detector

(* infer() takes the lock again for the frame itself.  A backend stopped in *)
(* between has no process any more; that exception is not counted.          *)
BeginFrame ==
    /\ thread = "between"
    /\ IF live = None
       THEN Raise("top") /\ UNCHANGED <<result, kind, reqId, failures, wait>>
       ELSE /\ stage' = "frame" /\ thread' = "send"
            /\ UNCHANGED <<call, result, kind, reqId, failures, wait>>
    /\ UNCHANGED <<live, daemon, detector>>

(* infer(): stop(graceful=False) after a failure *)
StopFailed ==
    /\ thread = "failed"
    /\ StopLocked
    /\ Raise("top")
    /\ UNCHANGED <<result, kind, reqId, failures, wait, detector>>

(* Mutant: the thread leaves the backend to whoever calls stop(). *)
EndQuietly ==
    /\ thread = "ending" /\ thread' = "dead"
    /\ UNCHANGED <<client, live, daemon, detector>>

(* The finally of Detector._run *)
End ==
    /\ thread = "ending"
    /\ thread' = "dead"
    /\ IF released THEN UNCHANGED <<live, daemon>> ELSE StopLocked
    /\ released' = TRUE
    /\ UNCHANGED <<client, stopper, stopSet, intruded, faulty>>

(* --- the daemon --- *)

(* The resident loop: a request is read and answered; an error status and a  *)
(* reply that does not validate are one, "not ok".                           *)
Answer(ok) ==
    LET request == Head(daemon.in)
    IN  /\ daemon.up /\ daemon.in # <<>>
        /\ ok \/ MayFail
        /\ daemon' = [daemon EXCEPT
                         !.in = Tail(@),
                         !.out = Append(@, [ok |-> ok, id |-> request.id,
                                            frame |-> request.frame,
                                            setting |-> daemon.setting])]
        /\ UNCHANGED <<thread, client, live, detector>>

(* The process dies; what it wrote can still be read. *)
Crash ==
    /\ daemon.up /\ MayFail
    /\ daemon' = [daemon EXCEPT !.up = FALSE, !.in = <<>>]
    /\ UNCHANGED <<thread, client, live, detector>>

(* --- the WebSocket thread: Detector.stop --- *)

RequestStop ==
    /\ stopper = "idle"
    /\ stopSet' = TRUE /\ stopper' = "joining"
    /\ UNCHANGED <<thread, client, live, daemon, released, intruded, faulty>>

(* The thread is gone, or 15 seconds are over: in a send, which may be that   *)
(* of a camera notice after the frame was taken, or in an exchange.          *)
JoinEnds ==
    /\ stopper = "joining"
    /\ thread = "dead" \/ (MayOverrun /\ thread # "ensure")
    /\ stopper' = "tearing"
    /\ UNCHANGED <<thread, client, live, daemon, stopSet, released, intruded, faulty>>

(* _teardown: backend.stop() waits for the lock ... *)
TearDown ==
    /\ stopper = "tearing"
    /\ IF released
       THEN stopper' = "done" /\ UNCHANGED <<live, daemon>>
       ELSE ~Holding /\ StopLocked /\ stopper' = "dropping"
    /\ UNCHANGED <<thread, client, stopSet, released, intruded, faulty>>

(* ... and then the reference is dropped. *)
Drop ==
    /\ stopper = "dropping"
    /\ released' = TRUE /\ stopper' = "done"
    /\ UNCHANGED <<thread, client, live, daemon, stopSet, intruded, faulty>>

Tick ==
    /\ wait > 0
    /\ wait' = wait - 1
    /\ UNCHANGED <<thread, call, result, stage, kind, live, daemon, reqId, failures,
                   detector>>

(* The cause of the faults is gone. *)
Heal ==
    /\ faulty
    /\ faulty' = FALSE
    /\ UNCHANGED <<thread, client, live, daemon, stopper, stopSet, released, intruded>>

Detect ==
    \/ Take
    \/ \E f \in Frames, s \in Settings : Call(f, s)
    \/ EnsureStarted
    \/ \E ok \in BOOLEAN : Spawn(ok) \/ Send(ok)
    \/ Receive \/ GiveUp \/ BeginFrame \/ StopFailed \/ End

Stopping == JoinEnds \/ TearDown \/ Drop

Next ==
    \/ Detect
    \/ \E ok \in BOOLEAN : Answer(ok)
    \/ Crash \/ Heal
    \/ RequestStop \/ Stopping
    \/ Tick

Spec == Init /\ [][Next]_vars

(* The threads run, time passes, and a daemon answers unless it fails. *)
FairSpec ==
    /\ Spec
    /\ WF_vars(Detect) /\ WF_vars(Stopping) /\ WF_vars(Tick)
    /\ WF_vars(\E ok \in BOOLEAN : Answer(ok))
--------------------------------------------------------------------------------
Message == [stage : Stages \ {"none"}, id : 0..IdModulus, frame : Frames]
Reply == [ok : BOOLEAN, id : 0..IdModulus, frame : Frames, setting : Settings]
Calls == [frame : Frames, setting : Settings]

(* Types; a process the client knows of was started with its live settings,  *)
(* and the lock is held for a call only.                                     *)
TypeOK ==
    /\ thread \in Threads
    /\ call \in Calls \cup {NoCall} /\ result \in Calls \cup {NoResult}
    /\ stage \in Stages /\ kind \in {"cpu", "alone", "backed"}
    /\ live \in Settings \cup {None}
    /\ daemon \in [up : BOOLEAN, setting : Settings \cup {None},
                   in : Seq(Message), out : Seq(Reply)]
    /\ reqId \in 0..IdModulus
    /\ failures \in 0..Backoffs /\ wait \in 0..failures
    /\ stopper \in {"idle", "joining", "tearing", "dropping", "done"}
    /\ {stopSet, released, intruded, faulty} \subseteq BOOLEAN
    /\ live = daemon.setting
    /\ Holding => call # NoCall

(* "The protocol has no resynchronisation point": whenever a request is       *)
(* about to be written, nothing is left in either pipe, neither a request    *)
(* that timed out nor an answer nobody read.                                 *)
InStep ==
    thread \notin {"await", "failed"} => daemon.in = <<>> /\ daemon.out = <<>>

(* However the daemon crashes, hangs, is restarted or stopped from another   *)
(* thread, infer() returns for each call at most once, and only the result   *)
(* for that frame under those settings.                                      *)
Service == INSTANCE InferenceService WITH call <- call, result <- result
ImplementsService == Service!Spec

(* detector.py: stop() is to "release the camera and the daemon".  Once the  *)
(* detection thread is gone, stopped in time or not, or by an exception, no  *)
(* daemon is left; unless the thread came out of a send more than 15 seconds *)
(* after the stop, in the moment in which the teardown drops the backend.    *)
DaemonReleased == thread = "dead" /\ ~intruded => live = None

(* "Failures slow retries but never permanently disable monitoring": once     *)
(* daemons no longer fail, frames go on being answered as long as detection  *)
(* runs, also if an accelerator that has the CPU behind it cannot be started. *)
Recovers ==
    <>~faulty => []<>(result # NoResult) \/ <>(stopSet \/ thread = "dead")
================================================================================
