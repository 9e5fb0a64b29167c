---------------------------- MODULE FrameSource ----------------------------
(***************************************************************************)
(* moonraker_pinozcam/framesource.py: the three readers of a camera and    *)
(* the slot they share with the threads that wait for a frame.             *)
(*                                                                         *)
(*   "stream"    a thread parses an endless response and publishes;        *)
(*   "snapshot"  a thread fetches one picture after the other;             *)
(*   "file"      no thread: the clock numbers the copies of one picture.   *)
(*                                                                         *)
(* Which of them it is follows from the camera's addresses                 *)
(* (camera.py build_frame_source).  How long the threads sleep and how the *)
(* delay between attempts doubles is left out: a sleep ends, or the stop   *)
(* flag ends it.                                                           *)
(***************************************************************************)
EXTENDS Naturals, FiniteSets

CONSTANTS
    Waiters,     \* threads in wait_next()
    MaxInvalid,  \* MJPEG_MAX_CONSECUTIVE_INVALID
    MaxFrames,   \* bound: frames published
    MaxFaults    \* bound: failures, ends of a stream and invalid parts

ASSUME SourceAssumption ==
    /\ MaxInvalid \in Nat \ {0}
    /\ MaxFrames \in Nat
    /\ MaxFaults \in Nat

VARIABLES
    kind,         \* which of the three sources it is
    slot,         \* the frame in the slot, by its number, or 0
    sequence,     \* _sequence; of a file, the number of the tick
    lastYielded,  \* _last_yielded_sequence
    closed,       \* _closed
    stopping,     \* _stop, the event the reader thread polls
    reader,       \* where the reader thread is
    response,     \* the connection: "none", "open", or "cut" by close()
    invalid,      \* consecutive_invalid
    dropped,      \* the counter of frames overwritten unread
    wAt,          \* where each waiter is
    cursor,       \* the frame each waiter got last
    closer,       \* where close() is
    faults,       \* failures so far (bounded)
    failed,       \* history: the newest frame at the last failure
    taken,        \* history: frames given to a waiter
    unread        \* history: frames overwritten that no waiter had taken

slotVars == <<slot, sequence, lastYielded>>
readerVars == <<reader, response, invalid>>
waiterVars == <<wAt, cursor>>
closeVars == <<closed, stopping, closer>>
historyVars == <<taken, unread>>
vars == <<kind, slotVars, readerVars, waiterVars, closeVars, dropped, faults, failed,
          historyVars>>

\* The addresses of a camera, each by what a probe of it answers.
Cameras == [stream : {"none", "multipart", "other"}, snapshot : {"file", "multipart", "picture"}]

KindOf(camera) ==
    IF "multipart" \in {camera.stream, camera.snapshot} THEN "stream"
    ELSE IF camera.snapshot = "file" THEN "file"
    ELSE "snapshot"

Init ==
    /\ \E camera \in Cameras : kind = KindOf(camera)
    /\ slot = 0 /\ sequence = 0 /\ lastYielded = 0
    /\ closed = FALSE /\ stopping = FALSE /\ closer = "idle"
    /\ reader = "none" /\ response = "none" /\ invalid = 0
    /\ dropped = 0
    /\ wAt = [w \in Waiters |-> "idle"]
    /\ cursor = [w \in Waiters |-> 0]
    /\ faults = 0 /\ failed = 0
    /\ taken = {} /\ unread = {}

Threaded == kind \in {"stream", "snapshot"}
-----------------------------------------------------------------------------
(* start() *)

\* At most one reader thread, and none for a source that is closed.
StartReader ==
    /\ Threaded /\ ~closed /\ reader = "none"
    /\ reader' = "top"
    /\ UNCHANGED <<kind, slotVars, response, invalid, waiterVars, closeVars, dropped,
                   faults, failed, historyVars>>

\* The file is read once; its first tick is due at once.  A file that cannot be
\* read or decoded raises and leaves the source as it was.
StartFile ==
    /\ kind = "file" /\ ~closed /\ reader = "none"
    /\ reader' = "clock"
    /\ slot' = 1 /\ sequence' = 1
    /\ UNCHANGED <<kind, dropped, lastYielded, response, invalid, waiterVars, closeVars, faults,
                   failed, historyVars>>

\* The next number is due by the clock, which does not stop for close().  (After it
\* the ticks that nobody is about to read are left out.)
Tick ==
    /\ reader = "clock"
    /\ closed => \E w \in Waiters : wAt[w] = "numbering"
    /\ sequence < MaxFrames
    /\ sequence' = sequence + 1
    /\ slot' = sequence'
    /\ UNCHANGED <<kind, lastYielded, readerVars, waiterVars, closeVars, dropped, faults, failed,
                   historyVars>>
-----------------------------------------------------------------------------
(* The reader thread *)

Fault == faults < MaxFaults /\ faults' = faults + 1

\* An error empties the slot: what was in it is older than the error.
Clear ==
    /\ slot' = 0
    /\ failed' = sequence
    /\ UNCHANGED <<sequence, lastYielded>>

Connect ==
    /\ kind = "stream" /\ reader = "top" /\ ~stopping
    /\ reader' = "connecting"
    /\ UNCHANGED <<kind, slotVars, response, invalid, waiterVars, closeVars, dropped, faults,
                   failed, historyVars>>

Connected ==
    /\ reader = "connecting"
    /\ reader' = "reading"
    /\ response' = "open"
    /\ invalid' = 0
    /\ UNCHANGED <<kind, dropped, slotVars, waiterVars, closeVars, faults, failed, historyVars>>

ConnectFails ==
    /\ reader = "connecting"
    /\ Fault
    /\ reader' = "pause"
    /\ Clear
    /\ UNCHANGED <<kind, dropped, response, invalid, waiterVars, closeVars, historyVars>>

\* Mutant: the stop flag is looked at between two connections only.
ChunkWithoutStop ==
    /\ reader = "reading" /\ response = "open"
    /\ reader' = "parsing"
    /\ UNCHANGED <<kind, slotVars, response, invalid, waiterVars, closeVars, dropped, faults,
                   failed, historyVars>>

\* The stop flag is looked at once for each chunk, before its parts.
Chunk ==
    /\ reader = "reading" /\ response = "open"
    /\ reader' = IF stopping THEN "pause" ELSE "parsing"
    /\ response' = IF stopping THEN "none" ELSE "open"
    /\ UNCHANGED <<kind, slotVars, invalid, waiterVars, closeVars, dropped, faults,
                   failed, historyVars>>

EndChunk ==
    /\ reader = "parsing"
    /\ reader' = "reading"
    /\ UNCHANGED <<kind, slotVars, response, invalid, waiterVars, closeVars, dropped,
                   faults, failed, historyVars>>

\* A stream that ends keeps its last frame: a short one may be over before anybody waits.
EndOfStream ==
    /\ reader = "reading"
    /\ Fault
    /\ reader' = "pause"
    /\ response' = "none"
    /\ UNCHANGED <<kind, slotVars, invalid, waiterVars, closeVars, dropped, failed,
                   historyVars>>

\* Mutant: nobody catches what a failed read raises.
ReadFailsUncaught ==
    /\ reader \in {"reading", "parsing"}
    /\ IF response = "cut" \/ stopping THEN UNCHANGED faults ELSE Fault
    /\ reader' = "ended"
    /\ response' = "none"
    /\ Clear
    /\ UNCHANGED <<kind, dropped, invalid, waiterVars, closeVars, historyVars>>

\* A read that fails, stalls, or whose connection close() has cut; or a malformed part.
ReadFails ==
    /\ reader \in {"reading", "parsing"}
    /\ IF response = "cut" \/ stopping THEN UNCHANGED faults ELSE Fault
    /\ reader' = "pause"
    /\ response' = "none"
    /\ Clear
    /\ UNCHANGED <<kind, dropped, invalid, waiterVars, closeVars, historyVars>>

\* A part of the stream, or a whole answer, that looks like a picture.
Receive ==
    /\ \/ kind = "stream" /\ reader = "parsing"
       \/ kind = "snapshot" /\ reader = "top" /\ ~stopping
    /\ sequence < MaxFrames
    /\ reader' = "publish"
    /\ invalid' = 0
    /\ UNCHANGED <<kind, dropped, slotVars, response, waiterVars, closeVars, faults, failed,
                   historyVars>>

AfterPublish == IF kind = "stream" THEN "parsing" ELSE "pause"

\* Mutant: a frame received before close() is published after it.
PublishLate ==
    /\ reader = "publish"
    /\ LET overwrites == slot # 0 /\ slot > lastYielded
       IN  /\ dropped' = IF overwrites THEN dropped + 1 ELSE dropped
           /\ unread' = IF slot \in taken \cup {0} THEN unread ELSE unread \cup {slot}
    /\ sequence' = sequence + 1
    /\ slot' = sequence'
    /\ reader' = AfterPublish
    /\ UNCHANGED <<kind, lastYielded, response, invalid, waiterVars, closeVars, faults,
                   failed, taken>>

\* Into the slot, over a frame nobody has taken if there is one.
Publish ==
    /\ reader = "publish" /\ ~closed
    /\ LET overwrites == slot # 0 /\ slot > lastYielded
       IN  /\ dropped' = IF overwrites THEN dropped + 1 ELSE dropped
           /\ unread' = IF slot \in taken \cup {0} THEN unread ELSE unread \cup {slot}
    /\ sequence' = sequence + 1
    /\ slot' = sequence'
    /\ reader' = AfterPublish
    /\ UNCHANGED <<kind, lastYielded, response, invalid, waiterVars, closeVars, faults,
                   failed, taken>>

\* Closed between the receipt and the slot: the frame goes nowhere.
PublishClosed ==
    /\ reader = "publish" /\ closed
    /\ reader' = AfterPublish
    /\ UNCHANGED <<kind, slotVars, response, invalid, waiterVars, closeVars, dropped,
                   faults, failed, historyVars>>

\* A part that is no picture; too many of them in a row end the connection.
InvalidPart ==
    /\ kind = "stream" /\ reader = "parsing"
    /\ Fault
    /\ invalid' = invalid + 1
    /\ reader' = IF invalid' >= MaxInvalid THEN "pause" ELSE "parsing"
    /\ response' = IF invalid' >= MaxInvalid THEN "none" ELSE response
    /\ UNCHANGED <<kind, dropped, slotVars, waiterVars, closeVars, failed, historyVars>>

\* A fetch that fails, or whose answer is no picture.
FetchFails ==
    /\ kind = "snapshot" /\ reader = "top" /\ ~stopping
    /\ Fault
    /\ Clear
    /\ reader' = "pause"
    /\ UNCHANGED <<kind, dropped, response, invalid, waiterVars, closeVars, historyVars>>

\* The sleep between two attempts or two snapshots.
Resume ==
    /\ reader = "pause" /\ ~stopping
    /\ reader' = "top"
    /\ UNCHANGED <<kind, slotVars, response, invalid, waiterVars, closeVars, dropped,
                   faults, failed, historyVars>>

ReaderEnds ==
    /\ reader \in {"top", "pause"} /\ stopping
    /\ reader' = "ended"
    /\ UNCHANGED <<kind, slotVars, response, invalid, waiterVars, closeVars, dropped,
                   faults, failed, historyVars>>
-----------------------------------------------------------------------------
(* wait_next() *)

Call(w) ==
    /\ wAt[w] = "idle"
    /\ wAt' = [wAt EXCEPT ![w] = "waiting"]
    /\ UNCHANGED <<kind, slotVars, readerVars, cursor, closeVars, dropped, faults, failed,
                   historyVars>>

Return(w, frame) ==
    /\ wAt' = [wAt EXCEPT ![w] = "idle"]
    /\ cursor' = [cursor EXCEPT ![w] = frame]
    /\ taken' = taken \cup {frame}
    /\ UNCHANGED <<kind, dropped, slot, sequence, readerVars, closeVars, faults, failed, unread>>

\* The frame in the slot, if it is newer, whether or not the source is closed.
TakeSlot(w) ==
    /\ Threaded /\ wAt[w] = "waiting"
    /\ slot # 0 /\ slot > cursor[w]
    /\ lastYielded' = slot
    /\ Return(w, slot)

\* A file is looked at under the lock that close() takes, and numbered by the clock
\* after the lock is given back.
LookAtFile(w) ==
    /\ reader = "clock" /\ wAt[w] = "waiting" /\ ~closed
    /\ wAt' = [wAt EXCEPT ![w] = "numbering"]
    /\ UNCHANGED <<kind, slotVars, readerVars, cursor, closeVars, dropped, faults, failed,
                   historyVars>>

NumberFile(w) ==
    /\ wAt[w] = "numbering" /\ sequence > cursor[w]
    /\ UNCHANGED lastYielded
    /\ Return(w, sequence)

NotDue(w) ==
    /\ wAt[w] = "numbering" /\ sequence <= cursor[w]
    /\ wAt' = [wAt EXCEPT ![w] = "waiting"]
    /\ UNCHANGED <<kind, slotVars, readerVars, cursor, closeVars, dropped, faults, failed,
                   historyVars>>

\* Nothing newer, and the source closed, the caller stopped or the time over.
GiveUp(w) ==
    /\ wAt[w] = "waiting"
    /\ Threaded => slot = 0 \/ slot <= cursor[w]
    /\ wAt' = [wAt EXCEPT ![w] = "idle"]
    /\ UNCHANGED <<kind, slotVars, readerVars, cursor, closeVars, dropped, faults, failed,
                   historyVars>>
-----------------------------------------------------------------------------
(* close() *)

\* First nothing more is published; a file is closed with that.
CloseSlot ==
    /\ ~closed
    /\ closed' = TRUE
    /\ closer' = IF Threaded THEN "flagged" ELSE "done"
    /\ UNCHANGED <<kind, slotVars, readerVars, waiterVars, stopping, dropped, faults, failed,
                   historyVars>>

SetStop ==
    /\ closer = "flagged"
    /\ stopping' = TRUE
    /\ closer' = "interrupt"
    /\ UNCHANGED <<kind, slotVars, readerVars, waiterVars, closed, dropped, faults, failed,
                   historyVars>>

\* The connection there is at this moment is cut; one made later is not.
Interrupt ==
    /\ closer = "interrupt"
    /\ response' = IF response = "open" THEN "cut" ELSE response
    /\ closer' = "join"
    /\ UNCHANGED <<kind, slotVars, reader, invalid, waiterVars, closed, stopping,
                   dropped, faults, failed, historyVars>>

\* The thread is waited for, but not for ever.
Join ==
    /\ closer = "join"
    /\ closer' = "done"
    /\ UNCHANGED <<kind, slotVars, readerVars, waiterVars, closed, stopping, dropped, faults,
                   failed, historyVars>>
-----------------------------------------------------------------------------
Read ==
    \/ Connect \/ Connected \/ ConnectFails \/ Chunk \/ EndChunk \/ EndOfStream \/ ReadFails
    \/ Receive \/ Publish \/ PublishClosed \/ InvalidPart \/ FetchFails \/ Resume \/ ReaderEnds
Wait(w) == Call(w) \/ TakeSlot(w) \/ LookAtFile(w) \/ NumberFile(w) \/ NotDue(w) \/ GiveUp(w)
Close == CloseSlot \/ SetStop \/ Interrupt \/ Join

Next ==
    \/ StartReader \/ StartFile \/ Tick
    \/ Read
    \/ \E w \in Waiters : Wait(w)
    \/ Close

Spec == Init /\ [][Next]_vars

\* The reader thread runs, a chunk has an end, and a camera that is asked often enough
\* delivers; close() is not started by fairness but runs to its end.
Fairness ==
    /\ WF_vars(Read)
    /\ SF_vars(EndChunk)
    /\ SF_vars(Receive)
    /\ WF_vars(SetStop \/ Interrupt \/ Join)

FairSpec == Spec /\ Fairness
-----------------------------------------------------------------------------
TypeOK ==
    /\ kind \in {"stream", "snapshot", "file"}
    /\ slot \in Nat /\ sequence \in Nat /\ lastYielded \in Nat
    /\ closed \in BOOLEAN /\ stopping \in BOOLEAN
    /\ closer \in {"idle", "flagged", "interrupt", "join", "done"}
    /\ reader \in {"none", "clock", "top", "connecting", "reading", "parsing", "publish", "pause", "ended"}
    /\ response \in {"none", "open", "cut"}
    /\ invalid \in Nat
    /\ dropped \in Nat
    /\ wAt \in [Waiters -> {"idle", "waiting", "numbering"}]
    /\ cursor \in [Waiters -> Nat]
    /\ faults \in Nat /\ failed \in Nat
    /\ taken \subseteq Nat /\ unread \subseteq Nat

\* Whatever the source and however reader, waiters and close() interleave, a waiter
\* gets what FrameFeed promises: the newest frame, never one from before a failure,
\* never the same twice, and none that came in after the source was closed -- but
\* for the one picture of a file whose waiter had looked before the close.
Feed == INSTANCE FrameFeed WITH newest <- sequence, failed <- failed, cursor <- cursor,
                                inside <- {w \in Waiters : wAt[w] = "numbering"},
                                shut <- closed
ImplementsFeed == Feed!Spec

\* The counter the page and the log show as dropped (framesource.py 330-334) is the
\* number of frames that were overwritten before any waiter had them.
DropsAreCounted == dropped = Cardinality(unread)

\* A camera that stops failing is read again, whatever state the failures left.
StreamResumes == (reader = "top") ~> (closed \/ sequence = MaxFrames)

\* A source that is closed comes to rest: no thread and no connection is left
\* behind, not even one that was being made at that moment.
ClosedComesToRest ==
    closed ~> (closer = "done" /\ reader \in {"none", "clock", "ended"} /\ response = "none")
=============================================================================
