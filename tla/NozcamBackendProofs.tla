-------------------------- MODULE NozcamBackendProofs --------------------------
(***************************************************************************)
(* Theorems about NozcamBackend, for any frames and settings, any modulus  *)
(* of the request ids, any number of delays, stopped in time or not.       *)
(***************************************************************************)
EXTENDS NozcamBackend, SequenceTheorems, TLAPS

InCall == thread \in {"ensure", "spawn", "send", "await", "between", "failed"}

(* There is a call exactly while the thread is in infer(), and the daemon it *)
(* exchanges messages with has that call's settings.                         *)
CallInv ==
    /\ InCall => call \in Calls
    /\ ~InCall => call = NoCall
    /\ thread \in {"send", "await"} => live = call.setting /\ stage # "none"
    /\ thread = "between" => live \in {None, call.setting}

(* While an answer is awaited the pipes hold the request, or its answer, or  *)
(* nothing any more; InStep alone does not tell whose answer is read.  After  *)
(* a failure they may hold anything the daemon of this call still sends.     *)
Asked ==
    /\ Len(daemon.in) = 1 /\ daemon.out = <<>>
    /\ daemon.in[1].id = reqId /\ daemon.in[1].frame = call.frame

Answered ==
    /\ daemon.in = <<>> /\ Len(daemon.out) = 1
    /\ daemon.out[1].frame = call.frame /\ daemon.out[1].setting = call.setting

Empty == daemon.in = <<>> /\ daemon.out = <<>>

PipeInv ==
    /\ InStep
    /\ thread = "await" => Asked \/ Answered \/ Empty
    /\ thread = "failed" => live = call.setting \/ Empty

(* Unless a call came after the stop, the teardown finds the thread where it *)
(* cannot start a daemon any more, and a dropped backend has none.           *)
StopInv ==
    /\ stopper # "idle" => stopSet
    /\ released /\ thread # "dead" => stopper = "done"
    /\ stopper \in {"tearing", "dropping", "done"} /\ ~intruded => thread # "ensure"
    /\ (stopper = "dropping" \/ released) /\ ~intruded =>
          live = None /\ ~Holding
    /\ DaemonReleased

IInv == TypeOK /\ CallInv /\ PipeInv /\ StopInv
--------------------------------------------------------------------------------
LEMMA InitInv == Init => IInv
  <1> SUFFICES ASSUME Init PROVE IInv
    OBVIOUS
  <1> USE ConstantsAssumption
  <1>1. TypeOK
    <2>1. daemon \in [up : BOOLEAN, setting : Settings \cup {None},
                     in : Seq(Message), out : Seq(Reply)]
      BY EmptySeq DEF Init, NoProcess
    <2>2. {stopSet, released, intruded, faulty} \subseteq BOOLEAN
      BY DEF Init
    <2> QED
      BY <2>1, <2>2 DEF Init, TypeOK, Threads, Stages, NoProcess, Holding
  <1>2. CallInv
    BY DEF Init, CallInv, InCall
  <1>3. PipeInv
    BY DEF Init, PipeInv, InStep, NoProcess
  <1>4. StopInv
    BY DEF Init, StopInv, DaemonReleased, Holding
  <1> QED
    BY <1>1, <1>2, <1>3, <1>4 DEF IInv

(* A record of one kind is never taken for one of the other. *)
LEMMA CallsAreCalls == NoCall \notin Calls /\ NoResult \notin Calls
  BY DEF NoCall, NoResult, Calls

LEMMA CallStep == IInv /\ [Next]_vars => CallInv'
  <1> SUFFICES ASSUME IInv, [Next]_vars PROVE CallInv'
    OBVIOUS
  <1> USE DEF CallInv, InCall
  <1>0. TypeOK /\ CallInv
    BY DEF IInv
  <1>1. CASE Take
    BY <1>0, <1>1 DEF Take, client
  <1>2. ASSUME NEW f \in Frames, NEW s \in Settings, Call(f, s) PROVE CallInv'
    BY <1>0, <1>2 DEF Call, Calls
  <1>3. CASE EnsureStarted
    BY <1>0, <1>3 DEF EnsureStarted, Raise, client, StopLocked
  <1>4. ASSUME NEW ok \in BOOLEAN, Spawn(ok) PROVE CallInv'
    BY <1>0, <1>4 DEF Spawn, StartFails, Raise
  <1>5. ASSUME NEW ok \in BOOLEAN, Send(ok) PROVE CallInv'
    BY <1>0, <1>5 DEF Send, ExchangeFails, StartFails, Raise
  <1>6. CASE Receive
    BY <1>0, <1>6 DEF Receive, ExchangeFails, StartFails, Raise, After
  <1>7. CASE GiveUp
    BY <1>0, <1>7 DEF GiveUp, ExchangeFails, StartFails, Raise
  <1>8. CASE BeginFrame
    BY <1>0, <1>8 DEF BeginFrame, Raise
  <1>9. CASE StopFailed
    BY <1>0, <1>9 DEF StopFailed, Raise
  <1>10. CASE End
    BY <1>0, <1>10 DEF End, client
  <1>11. ASSUME NEW ok \in BOOLEAN, Answer(ok) PROVE CallInv'
    BY <1>0, <1>11 DEF Answer, client
  <1>12. CASE Crash \/ Heal \/ RequestStop \/ JoinEnds \/ Drop \/ Tick
    BY <1>0, <1>12 DEF Crash, Heal, RequestStop, JoinEnds, Drop, Tick, client, detector
  <1>13. CASE TearDown
    BY <1>0, <1>13 DEF TearDown, StopLocked, client, Holding
  <1>14. CASE UNCHANGED vars
    BY <1>0, <1>14 DEF vars
  <1> QED
    BY <1>1, <1>2, <1>3, <1>4, <1>5, <1>6, <1>7, <1>8, <1>9, <1>10, <1>11, <1>12,
       <1>13, <1>14 DEF Next, Detect, Stopping

(* --- types --- *)

Daemons == [up : BOOLEAN, setting : Settings \cup {None},
            in : Seq(Message), out : Seq(Reply)]

(* The parts of TypeOK that a step of the detection thread can disturb. *)
ClientTypes ==
    /\ thread \in Threads
    /\ call \in Calls \cup {NoCall} /\ result \in Calls \cup {NoResult}
    /\ stage \in Stages /\ kind \in {"cpu", "alone", "backed"}
    /\ reqId \in 0..IdModulus
    /\ failures \in 0..Backoffs /\ wait \in 0..failures

DaemonTypes ==
    /\ live \in Settings \cup {None} /\ daemon \in Daemons
    /\ live = daemon.setting

StopTypes ==
    /\ stopper \in {"idle", "joining", "tearing", "dropping", "done"}
    /\ {stopSet, released, intruded, faulty} \subseteq BOOLEAN

LEMMA StopLockedType == StopLocked => DaemonTypes'
  BY EmptySeq DEF StopLocked, DaemonTypes, Daemons, NoProcess

LEMMA DaemonTypesStep == IInv /\ [Next]_vars => DaemonTypes'
  <1> SUFFICES ASSUME IInv, [Next]_vars PROVE DaemonTypes'
    OBVIOUS
  <1>0. TypeOK /\ CallInv /\ DaemonTypes
    BY DEF IInv, TypeOK, DaemonTypes, Daemons
  <1>k. ASSUME UNCHANGED <<live, daemon>> PROVE DaemonTypes'
    BY <1>0, <1>k DEF DaemonTypes
  <1>f. ASSUME ExchangeFails PROVE DaemonTypes'
    BY <1>f, <1>k, StopLockedType DEF ExchangeFails, StartFails
  <1>1. CASE EnsureStarted
    BY <1>1, <1>k, StopLockedType DEF EnsureStarted
  <1>2. ASSUME NEW ok \in BOOLEAN, Spawn(ok) PROVE DaemonTypes'
    <2>1. CASE ok
      <3>1. call \in Calls
        BY <1>0, <1>2 DEF Spawn, CallInv, InCall
      <3>2. /\ live' = call.setting
            /\ daemon' = [NoProcess EXCEPT !.up = TRUE, !.setting = call.setting]
        BY <1>2, <2>1 DEF Spawn
      <3> QED
        BY <3>1, <3>2, EmptySeq DEF DaemonTypes, Daemons, NoProcess, Calls
    <2>2. CASE ~ok
      BY <1>2, <2>2, StopLockedType DEF Spawn, StartFails
    <2> QED
      BY <2>1, <2>2
  <1>3. ASSUME NEW ok \in BOOLEAN, Send(ok) PROVE DaemonTypes'
    <2>1. CASE ok /\ daemon.up
      <3> DEFINE id == IF stage \in {"warm", "frame"} THEN (reqId % IdModulus) + 1
                                                      ELSE reqId
                 request == [stage |-> stage, id |-> id, frame |-> call.frame]
      <3>1. id \in 0..IdModulus
        BY <1>0, ConstantsAssumption DEF TypeOK
      <3>2. request \in Message
        BY <3>1, <1>0, <1>3 DEF Message, Send, CallInv, InCall, Calls, TypeOK
      <3>3. daemon' = [daemon EXCEPT !.in = Append(@, request)] /\ live' = live
        BY <1>3, <2>1 DEF Send
      <3>4. Append(daemon.in, request) \in Seq(Message)
        BY <3>2, <1>0, AppendProperties DEF DaemonTypes, Daemons
      <3> HIDE DEF request
      <3> QED
        BY <3>3, <3>4, <1>0 DEF DaemonTypes, Daemons
    <2>2. CASE ~(ok /\ daemon.up)
      BY <1>3, <1>f, <2>2 DEF Send
    <2> QED
      BY <2>1, <2>2
  <1>4. CASE Receive
    <2>1. Tail(daemon.out) \in Seq(Reply)
      BY <1>0, <1>4, HeadTailProperties DEF Receive, DaemonTypes, Daemons
    <2>2. ASSUME daemon' = [daemon EXCEPT !.out = Tail(@)], live' = live
          PROVE  DaemonTypes'
      BY <2>1, <2>2, <1>0 DEF DaemonTypes, Daemons
    <2> QED
      BY <1>4, <1>f, <2>2 DEF Receive
  <1>5. ASSUME NEW ok \in BOOLEAN, Answer(ok) PROVE DaemonTypes'
    <2> DEFINE request == Head(daemon.in)
               reply == [ok |-> ok, id |-> request.id, frame |-> request.frame,
                         setting |-> daemon.setting]
    <2>1. request \in Message /\ Tail(daemon.in) \in Seq(Message)
      BY <1>0, <1>5, HeadTailProperties DEF Answer, DaemonTypes, Daemons
    <2>2. daemon.setting \in Settings
      <3>1. daemon.in # <<>> /\ thread \in {"await", "failed"}
        BY <1>5 DEF IInv, PipeInv, InStep, Answer
      <3>2. live = call.setting
        BY <1>0, <3>1 DEF IInv, PipeInv, CallInv, Empty
      <3>3. call \in Calls
        BY <1>0, <3>1 DEF CallInv, InCall
      <3> QED
        BY <1>0, <3>2, <3>3 DEF DaemonTypes, Calls
    <2>3. reply \in Reply
      BY <2>1, <2>2 DEF Message, Reply
    <2>4. Append(daemon.out, reply) \in Seq(Reply)
      BY <2>3, <1>0, AppendProperties DEF DaemonTypes, Daemons
    <2>5. /\ daemon' = [daemon EXCEPT !.in = Tail(@), !.out = Append(@, reply)]
          /\ live' = live
      BY <1>5 DEF Answer
    <2> HIDE DEF reply
    <2> QED
      BY <2>1, <2>4, <2>5, <1>0 DEF DaemonTypes, Daemons
  <1>6. CASE Crash
    BY <1>0, <1>6, EmptySeq DEF Crash, DaemonTypes, Daemons
  <1>7. CASE StopFailed \/ End \/ TearDown
    BY <1>7, <1>k, StopLockedType DEF StopFailed, End, TearDown
  <1>8. ASSUME NEW f \in Frames, NEW s \in Settings, Call(f, s) PROVE DaemonTypes'
    BY <1>8, <1>k DEF Call
  <1>9. CASE \/ Take \/ GiveUp \/ BeginFrame \/ Heal \/ RequestStop \/ JoinEnds
             \/ Drop \/ Tick \/ UNCHANGED vars
    BY <1>9, <1>f, <1>k DEF Take, GiveUp, BeginFrame, Heal, RequestStop, JoinEnds, Drop,
                            Tick, vars
  <1> QED
    BY <1>1, <1>2, <1>3, <1>4, <1>5, <1>6, <1>7, <1>8, <1>9 DEF Next, Detect, Stopping

(* A failure is counted no further than the longest delay. *)
LEMMA NoteFailureType ==
    ASSUME failures \in 0..Backoffs, NoteFailure
    PROVE  failures' \in 0..Backoffs /\ wait' \in 0..failures'
  BY ConstantsAssumption DEF NoteFailure

LEMMA ClientTypesStep == IInv /\ [Next]_vars => ClientTypes'
  <1> SUFFICES ASSUME IInv, [Next]_vars PROVE ClientTypes'
    OBVIOUS
  <1> USE DEF ClientTypes, Threads, Stages
  <1>0. TypeOK /\ ClientTypes
    BY DEF IInv, TypeOK
  <1>f. ASSUME ExchangeFails PROVE ClientTypes'
    BY <1>0, <1>f, NoteFailureType DEF ExchangeFails, StartFails, Raise
  <1>1. CASE Take \/ End
    BY <1>0, <1>1 DEF Take, End, client
  <1>2. ASSUME NEW f \in Frames, NEW s \in Settings, Call(f, s) PROVE ClientTypes'
    BY <1>0, <1>2 DEF Call, Calls
  <1>3. CASE EnsureStarted \/ BeginFrame \/ StopFailed
    BY <1>0, <1>3 DEF EnsureStarted, BeginFrame, StopFailed, Raise, client
  <1>4. ASSUME NEW ok \in BOOLEAN, Spawn(ok) PROVE ClientTypes'
    BY <1>0, <1>4, NoteFailureType DEF Spawn, StartFails, Raise
  <1>5. ASSUME NEW ok \in BOOLEAN, Send(ok) PROVE ClientTypes'
    BY <1>0, <1>5, <1>f, ConstantsAssumption DEF Send
  <1>6. CASE Receive
    <2>1. Head(daemon.out) \in Reply
      BY <1>0, <1>6, HeadTailProperties DEF Receive, TypeOK
    <2>2. [frame |-> Head(daemon.out).frame, setting |-> Head(daemon.out).setting] \in Calls
      BY <2>1 DEF Reply, Calls
    <2> QED
      BY <1>0, <1>6, <1>f, <2>2, ConstantsAssumption DEF Receive, NoteSuccess, Raise, After
  <1>7. CASE GiveUp
    BY <1>7, <1>f DEF GiveUp
  <1>8. CASE Tick
    BY <1>0, <1>8, ConstantsAssumption DEF Tick
  <1>9. ASSUME NEW ok \in BOOLEAN, Answer(ok) PROVE ClientTypes'
    BY <1>0, <1>9 DEF Answer, client
  <1>10. CASE \/ Crash \/ Heal \/ RequestStop \/ JoinEnds \/ TearDown \/ Drop
              \/ UNCHANGED vars
    BY <1>0, <1>10 DEF Crash, Heal, RequestStop, JoinEnds, TearDown, Drop, client, vars
  <1> QED
    BY <1>1, <1>2, <1>3, <1>4, <1>5, <1>6, <1>7, <1>8, <1>9, <1>10
    DEF Next, Detect, Stopping

LEMMA StopTypesStep == IInv /\ [Next]_vars => StopTypes'
  <1> SUFFICES ASSUME IInv, [Next]_vars PROVE StopTypes'
    OBVIOUS
  <1> USE DEF StopTypes
  <1>0. StopTypes
    BY DEF IInv, TypeOK
  <1>1. ASSUME UNCHANGED detector PROVE StopTypes'
    BY <1>0, <1>1 DEF detector
  <1>2. ASSUME NEW f \in Frames, NEW s \in Settings, Call(f, s) PROVE StopTypes'
    BY <1>0, <1>2 DEF Call
  <1>3. CASE End \/ Heal \/ RequestStop \/ JoinEnds \/ TearDown \/ Drop
    BY <1>0, <1>3 DEF End, Heal, RequestStop, JoinEnds, TearDown, Drop
  <1>4. ASSUME NEW ok \in BOOLEAN, Spawn(ok) \/ Send(ok) \/ Answer(ok) PROVE StopTypes'
    BY <1>1, <1>4 DEF Spawn, Send, Answer
  <1>5. CASE \/ Take \/ EnsureStarted \/ Receive \/ GiveUp \/ BeginFrame \/ StopFailed
             \/ Crash \/ Tick \/ UNCHANGED vars
    BY <1>1, <1>5 DEF Take, EnsureStarted, Receive, GiveUp, BeginFrame, StopFailed,
                      Crash, Tick, vars, detector
  <1> QED
    BY <1>2, <1>3, <1>4, <1>5 DEF Next, Detect, Stopping

LEMMA TypeStep == IInv /\ [Next]_vars => TypeOK'
  <1> SUFFICES ASSUME IInv, [Next]_vars PROVE TypeOK'
    OBVIOUS
  <1>1. ClientTypes' /\ DaemonTypes' /\ StopTypes'
    BY ClientTypesStep, DaemonTypesStep, StopTypesStep
  <1>2. (Holding => call # NoCall)'
    BY CallStep, CallsAreCalls DEF CallInv, InCall, Holding
  <1> QED
    BY <1>1, <1>2 DEF TypeOK, ClientTypes, DaemonTypes, Daemons, StopTypes

(* --- the pipes --- *)

LEMMA SingletonSeq ==
    ASSUME NEW S, NEW s \in Seq(S), Len(s) = 1
    PROVE  s # <<>> /\ Head(s) = s[1] /\ Tail(s) = <<>>
  <1>1. s # <<>>
    <2>1. Len(s) # Len(<<>>)
      OBVIOUS
    <2> QED
      BY <2>1, Zenon
  <1>2. Tail(s) \in Seq(S) /\ Len(Tail(s)) = 0
    BY <1>1, HeadTailProperties
  <1>3. Tail(s) = <<>>
    BY <1>2, EmptySeq
  <1>4. Head(s) = s[1]
    BY <1>1
  <1> QED
    BY <1>1, <1>3, <1>4

LEMMA StopLockedEmpties == StopLocked => Empty'
  BY DEF StopLocked, NoProcess, Empty

(* Whose answer it is: an answer to the one request in the pipe, if good, is *)
(* for the frame of the call under the settings of the daemon.               *)
LEMMA AnswerIsCurrent ==
    ASSUME IInv, thread = "await", NEW ok \in BOOLEAN, Answer(ok)
    PROVE  Answered'
  <1>1. TypeOK /\ CallInv /\ Asked
    BY DEF IInv, PipeInv, Answer, Answered, Empty
  <1>2. call' = call /\ thread' = thread
    BY DEF Answer, client
  <1>3. /\ daemon' = [daemon EXCEPT
                         !.in = Tail(@),
                         !.out = Append(@, [ok |-> ok, id |-> Head(daemon.in).id,
                                            frame |-> Head(daemon.in).frame,
                                            setting |-> daemon.setting])]
    BY DEF Answer
  <1>4. /\ daemon.in \in Seq(Message) /\ daemon.out = <<>> /\ Len(daemon.in) = 1
        /\ daemon.setting = call.setting
    BY <1>1 DEF TypeOK, Asked, CallInv
  <1>5. Tail(daemon.in) = <<>> /\ Head(daemon.in) = daemon.in[1]
    BY <1>4, SingletonSeq
  <1> DEFINE reply == [ok |-> ok, id |-> Head(daemon.in).id,
                       frame |-> Head(daemon.in).frame, setting |-> daemon.setting]
  <1>6. daemon'.in = <<>> /\ daemon'.out = Append(daemon.out, reply)
    BY <1>1, <1>3, <1>5 DEF TypeOK
  <1>7. Append(daemon.out, reply) = <<reply>>
    BY <1>4
  <1>8. reply.frame = call.frame /\ reply.setting = call.setting
    BY <1>1, <1>4, <1>5 DEF Asked
  <1> QED
    BY <1>2, <1>6, <1>7, <1>8 DEF Answered

LEMMA PipeStep == IInv /\ [Next]_vars => PipeInv'
  <1> SUFFICES ASSUME IInv, [Next]_vars PROVE PipeInv'
    OBVIOUS
  <1>0. TypeOK /\ CallInv /\ PipeInv
    BY DEF IInv
  <1> USE DEF PipeInv, InStep, Empty
  <1>e. ASSUME Empty' PROVE PipeInv'
    BY <1>e
  <1>k. ASSUME Empty, UNCHANGED daemon PROVE PipeInv'
    BY <1>k
  <1>f. ASSUME ExchangeFails, thread \in {"send", "await"} PROVE PipeInv'
    BY <1>0, <1>f, StopLockedEmpties DEF ExchangeFails, StartFails, CallInv
  <1>1. CASE Take \/ EnsureStarted \/ BeginFrame \/ End
    <2>1. Empty
      BY <1>0, <1>1 DEF Take, EnsureStarted, BeginFrame, End
    <2> QED
      BY <1>1, <1>e, <1>k, <2>1, StopLockedEmpties DEF Take, EnsureStarted, BeginFrame, End
  <1>2. ASSUME NEW f \in Frames, NEW s \in Settings, Call(f, s) PROVE PipeInv'
    BY <1>0, <1>2, <1>k DEF Call
  <1>3. ASSUME NEW ok \in BOOLEAN, Spawn(ok) PROVE PipeInv'
    BY <1>3, <1>e, StopLockedEmpties DEF Spawn, StartFails, NoProcess
  <1>4. ASSUME NEW ok \in BOOLEAN, Send(ok) PROVE PipeInv'
    <2>1. CASE ok /\ daemon.up
      <3> DEFINE id == IF stage \in {"warm", "frame"} THEN (reqId % IdModulus) + 1
                                                      ELSE reqId
                 request == [stage |-> stage, id |-> id, frame |-> call.frame]
      <3>1. daemon.in = <<>> /\ daemon.out = <<>>
        BY <1>0, <1>4 DEF Send
      <3>2. /\ daemon' = [daemon EXCEPT !.in = Append(@, request)]
            /\ reqId' = id /\ thread' = "await" /\ call' = call
        BY <1>4, <2>1 DEF Send
      <3>3. Append(daemon.in, request) = <<request>>
        BY <3>1
      <3>4. daemon'.in = <<request>> /\ daemon'.out = <<>>
        BY <1>0, <3>1, <3>2, <3>3 DEF TypeOK
      <3>5. request.id = id /\ request.frame = call.frame
        OBVIOUS
      <3> HIDE DEF request, id
      <3>6. Asked'
        BY <3>2, <3>4, <3>5 DEF Asked
      <3> QED
        BY <3>2, <3>6
    <2>2. CASE ~(ok /\ daemon.up)
      BY <1>4, <1>f, <2>2 DEF Send
    <2> QED
      BY <2>1, <2>2
  <1>5. CASE Receive
    <2>1. Answered
      BY <1>0, <1>5 DEF Receive, Asked
    <2>2. ASSUME daemon' = [daemon EXCEPT !.out = Tail(@)] PROVE PipeInv'
      <3>1. Tail(daemon.out) = <<>>
        BY <1>0, <2>1, SingletonSeq DEF Answered, TypeOK
      <3> QED
        BY <1>0, <1>e, <2>1, <2>2, <3>1 DEF Answered, TypeOK
    <2> QED
      BY <1>5, <1>f, <2>2 DEF Receive
  <1>6. CASE GiveUp
    BY <1>6, <1>f DEF GiveUp
  <1>7. CASE StopFailed
    BY <1>7, <1>e, StopLockedEmpties DEF StopFailed
  <1>8. ASSUME NEW ok \in BOOLEAN, Answer(ok) PROVE PipeInv'
    <2>1. CASE thread = "await"
      BY <1>8, <2>1, AnswerIsCurrent DEF Answer
    <2>2. CASE thread # "await"
      BY <1>0, <1>8, <2>2 DEF Answer, client
    <2> QED
      BY <2>1, <2>2
  <1>9. CASE Crash
    BY <1>0, <1>9 DEF Crash, TypeOK, client, Asked, Answered
  <1>10. CASE TearDown
    BY <1>0, <1>10, <1>e, StopLockedEmpties DEF TearDown, client, Asked, Answered
  <1>11. CASE Heal \/ RequestStop \/ JoinEnds \/ Drop \/ Tick \/ UNCHANGED vars
    BY <1>0, <1>11 DEF Heal, RequestStop, JoinEnds, Drop, Tick, vars, client, Asked,
                       Answered
  <1> QED
    BY <1>1, <1>2, <1>3, <1>4, <1>5, <1>6, <1>7, <1>8, <1>9, <1>10, <1>11
    DEF Next, Detect, Stopping

(* --- stopping --- *)

LEMMA StopStep == IInv /\ [Next]_vars => StopInv'
  <1> SUFFICES ASSUME IInv, [Next]_vars PROVE StopInv'
    OBVIOUS
  <1>0. TypeOK /\ CallInv /\ StopInv
    BY DEF IInv
  <1> USE DEF StopInv, DaemonReleased, Holding
  <1>1. CASE Take
    BY <1>0, <1>1 DEF Take, client, detector
  <1>2. ASSUME NEW f \in Frames, NEW s \in Settings, Call(f, s) PROVE StopInv'
    BY <1>0, <1>2 DEF Call
  <1>3. CASE EnsureStarted
    BY <1>0, <1>3 DEF EnsureStarted, Raise, StopLocked, client, detector
  <1>4. ASSUME NEW ok \in BOOLEAN, Spawn(ok) PROVE StopInv'
    BY <1>0, <1>4 DEF Spawn, StartFails, Raise, StopLocked, detector
  <1>5. ASSUME NEW ok \in BOOLEAN, Send(ok) PROVE StopInv'
    BY <1>0, <1>5 DEF Send, ExchangeFails, StartFails, Raise, StopLocked, detector
  <1>6. CASE Receive
    BY <1>0, <1>6 DEF Receive, ExchangeFails, StartFails, Raise, StopLocked, detector
  <1>7. CASE GiveUp
    BY <1>0, <1>7 DEF GiveUp, ExchangeFails, StartFails, Raise, StopLocked, detector
  <1>8. CASE BeginFrame
    BY <1>0, <1>8 DEF BeginFrame, Raise, detector
  <1>9. CASE StopFailed
    BY <1>0, <1>9 DEF StopFailed, Raise, StopLocked, detector
  <1>10. CASE End
    BY <1>0, <1>10 DEF End, StopLocked
  <1>11. ASSUME NEW ok \in BOOLEAN, Answer(ok) PROVE StopInv'
    BY <1>0, <1>11 DEF Answer, detector
  <1>12. CASE Crash \/ Heal \/ Tick \/ UNCHANGED vars
    BY <1>0, <1>12 DEF Crash, Heal, Tick, vars, detector
  <1>13. CASE RequestStop \/ JoinEnds \/ Drop
    BY <1>0, <1>13 DEF RequestStop, JoinEnds, Drop
  <1>14. CASE TearDown
    BY <1>0, <1>14 DEF TearDown, StopLocked
  <1> QED
    BY <1>1, <1>2, <1>3, <1>4, <1>5, <1>6, <1>7, <1>8, <1>9, <1>10, <1>11, <1>12,
       <1>13, <1>14 DEF Next, Detect, Stopping
--------------------------------------------------------------------------------
LEMMA InvHolds == Spec => []IInv
  <1>1. IInv /\ [Next]_vars => IInv'
    BY TypeStep, CallStep, PipeStep, StopStep DEF IInv
  <1> QED
    BY InitInv, <1>1, PTL DEF Spec

(* Values keep their types, a process has the client's live settings, and the *)
(* lock is held during a call only.                                           *)
THEOREM TypeCorrect == Spec => []TypeOK
  <1>1. IInv => TypeOK
    BY DEF IInv
  <1> QED
    BY InvHolds, <1>1, PTL

(* No request and no answer is left in a pipe when the next request is to be  *)
(* written, whatever timed out, crashed or was stopped before.                *)
THEOREM StaysInStep == Spec => []InStep
  <1>1. IInv => InStep
    BY DEF IInv, PipeInv
  <1> QED
    BY InvHolds, <1>1, PTL

(* With the detection thread gone no daemon is left, unless that thread began *)
(* a call after it was told to stop.                                          *)
THEOREM LeavesNoDaemon == Spec => []DaemonReleased
  <1>1. IInv => DaemonReleased
    BY DEF IInv, StopInv
  <1> QED
    BY InvHolds, <1>1, PTL

(* Every step is one of the service, or nothing the detector can see. *)
LEMMA StepRefines == IInv /\ [Next]_vars => [Service!Next]_Service!vars
  <1> SUFFICES ASSUME IInv, [Next]_vars
               PROVE  Service!Next \/ UNCHANGED <<call, result>>
    BY DEF Service!vars
  <1>0. TypeOK /\ CallInv /\ PipeInv
    BY DEF IInv
  <1> USE DEF Service!Next
  <1>r. ASSUME call \in Calls, UNCHANGED result, Raise("top") PROVE Service!Raise
    BY <1>r, CallsAreCalls DEF Service!Raise, Raise, Service!NoCall, NoCall
  <1>f. ASSUME thread \in {"send", "await"}, ExchangeFails
        PROVE  Service!Next \/ UNCHANGED <<call, result>>
    BY <1>0, <1>f, <1>r DEF ExchangeFails, StartFails, CallInv, InCall
  <1>1. ASSUME NEW f \in Frames, NEW s \in Settings, Call(f, s)
        PROVE  Service!Next \/ UNCHANGED <<call, result>>
    <2>1. CASE released
      BY <1>1, <2>1 DEF Call
    <2>2. CASE ~released
      <3>1. call = NoCall
        BY <1>0, <1>1 DEF Call, CallInv, InCall
      <3>2. call' = [frame |-> f, setting |-> s] /\ result' = NoResult
        BY <1>1, <2>2 DEF Call
      <3>3. Service!Begin
        BY <3>1, <3>2 DEF Service!Begin, Service!NoCall, Service!NoResult, NoCall,
                          NoResult, Service!Calls
      <3> QED
        BY <3>3
    <2> QED
      BY <2>1, <2>2
  <1>2. CASE EnsureStarted \/ BeginFrame \/ StopFailed
    BY <1>0, <1>2, <1>r DEF EnsureStarted, BeginFrame, StopFailed, client, CallInv, InCall
  <1>3. ASSUME NEW ok \in BOOLEAN, Spawn(ok)
        PROVE  Service!Next \/ UNCHANGED <<call, result>>
    BY <1>0, <1>3, <1>r DEF Spawn, StartFails, CallInv, InCall
  <1>4. ASSUME NEW ok \in BOOLEAN, Send(ok)
        PROVE  Service!Next \/ UNCHANGED <<call, result>>
    BY <1>4, <1>f DEF Send
  <1>5. CASE Receive
    <2>1. CASE ExchangeFails
      BY <1>5, <1>f, <2>1 DEF Receive
    <2>2. CASE UNCHANGED <<call, result>>
      BY <2>2
    <2>3. ASSUME result' = [frame |-> Head(daemon.out).frame,
                            setting |-> Head(daemon.out).setting],
                 Raise("top")
          PROVE  Service!Return
      <3>1. Answered
        BY <1>0, <1>5 DEF PipeInv, Receive, Asked, Empty
      <3>2. Head(daemon.out) = daemon.out[1]
        BY <1>0, <3>1, SingletonSeq DEF Answered, TypeOK
      <3>3. call \in Calls
        BY <1>0, <1>5 DEF Receive, CallInv, InCall
      <3>4. result' = call
        BY <2>3, <3>1, <3>2, <3>3 DEF Answered, Calls
      <3> QED
        BY <2>3, <3>3, <3>4, CallsAreCalls
        DEF Service!Return, Raise, Service!NoCall, NoCall
    <2> QED
      BY <1>5, <2>1, <2>2, <2>3 DEF Receive
  <1>6. CASE GiveUp
    BY <1>6, <1>f DEF GiveUp
  <1>7. ASSUME NEW ok \in BOOLEAN, Answer(ok) PROVE UNCHANGED <<call, result>>
    BY <1>7 DEF Answer, client
  <1>8. CASE \/ Take \/ End \/ Crash \/ Heal \/ RequestStop \/ JoinEnds \/ TearDown
             \/ Drop \/ Tick \/ UNCHANGED vars
    BY <1>8 DEF Take, End, Crash, Heal, RequestStop, JoinEnds, TearDown, Drop, Tick,
                client, vars
  <1> QED
    BY <1>1, <1>2, <1>3, <1>4, <1>5, <1>6, <1>7, <1>8 DEF Next, Detect, Stopping

(* A call of the backend ends at most once, with the result for its own frame *)
(* under its own settings or with an exception.                               *)
THEOREM BackendImplementsService == Spec => ImplementsService
  <1>1. Init => Service!Init
    BY DEF Init, Service!Init, NoCall, NoResult, Service!NoCall, Service!NoResult
  <1> QED
    BY InvHolds, StepRefines, <1>1, PTL DEF Spec, ImplementsService, Service!Spec
================================================================================
