----------------------------- MODULE FrameFeed -----------------------------
(***************************************************************************)
(* What a camera source promises to whoever waits for its frames, be it a  *)
(* stream, a snapshot address or a file (FrameSource in framesource.py):   *)
(* the frame a waiter gets is the newest there is, it is newer than the    *)
(* one it had, it is not from before a failure of the camera, and nothing  *)
(* new appears once the source is shut -- but for a waiter whose call had  *)
(* gone too far by then to be called off.                                  *)
(***************************************************************************)
EXTENDS Naturals

CONSTANT Waiters

VARIABLES
    newest,   \* the number of the newest frame
    failed,   \* the newest frame when the camera failed last
    cursor,   \* the frame each waiter got last
    inside,   \* the waiters whose call can no longer be called off
    shut

Init ==
    /\ newest = 0 /\ failed = 0
    /\ cursor = [w \in Waiters |-> 0]
    /\ inside = {} /\ shut = FALSE

Appear ==
    /\ shut => inside # {}
    /\ newest' = newest + 1
    /\ UNCHANGED <<failed, cursor, inside, shut>>

Fail ==
    /\ failed' = newest
    /\ UNCHANGED <<newest, cursor, inside, shut>>

Enter(w) ==
    /\ ~shut
    /\ inside' = inside \cup {w}
    /\ UNCHANGED <<newest, failed, cursor, shut>>

Leave(w) ==
    /\ inside' = inside \ {w}
    /\ UNCHANGED <<newest, failed, cursor, shut>>

Get(w) ==
    /\ newest > cursor[w] /\ newest > failed
    /\ cursor' = [cursor EXCEPT ![w] = newest]
    /\ inside' = inside \ {w}
    /\ UNCHANGED <<newest, failed, shut>>

Shut ==
    /\ shut' = TRUE
    /\ UNCHANGED <<newest, failed, cursor, inside>>

Next == Appear \/ Fail \/ Shut \/ \E w \in Waiters : Enter(w) \/ Leave(w) \/ Get(w)

Spec == Init /\ [][Next]_<<newest, failed, cursor, inside, shut>>
=============================================================================
