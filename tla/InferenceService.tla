---------------------------- MODULE InferenceService ---------------------------
(***************************************************************************)
(* What the inference backend promises to the detector: a call names a     *)
(* frame and the settings to judge it under, and ends once, with the       *)
(* result for exactly that frame and those settings, or with an exception. *)
(***************************************************************************)
CONSTANTS Frames, Settings

VARIABLES
    call,      \* the call under way
    result     \* what the last call returned, nothing while one is under way

vars == <<call, result>>

Calls == [frame : Frames, setting : Settings]
NoCall == [frame |-> "none"]
NoResult == [frame |-> "none"]

Init == call = NoCall /\ result = NoResult

Begin ==
    /\ call = NoCall
    /\ call' \in Calls
    /\ result' = NoResult

Return ==
    /\ call # NoCall
    /\ result' = call
    /\ call' = NoCall

Raise ==
    /\ call # NoCall
    /\ call' = NoCall
    /\ UNCHANGED result

Next == Begin \/ Return \/ Raise

Spec == Init /\ [][Next]_vars
================================================================================
