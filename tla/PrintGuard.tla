----------------------------- MODULE PrintGuard -----------------------------
(***************************************************************************)
(* What watching promises to the owner of the printer: one print at a time *)
(* is guarded, only frames of that print are evidence against it, each     *)
(* print begins without any, and the printer is asked to pause or cancel   *)
(* only for the guarded print and only with evidence from it.              *)
(*                                                                         *)
(* A request names no print.  It hits the one on the printer when it gets  *)
(* there, once, and nothing is hit without a request.                      *)
(*                                                                         *)
(* The promise is excused from a mishap on, such as an event of the        *)
(* printer that was lost, until the next print begins.                     *)
(***************************************************************************)
CONSTANT Prints

VARIABLES
    print,      \* the print that is guarded, or was guarded last
    evidence,   \* the prints whose frames count
    asked,      \* the prints for which a request is on its way to the printer
    now,        \* the print on the printer, or the last one there
    hit,        \* the print that was paused or cancelled last
    excused

Init ==
    /\ print \in Prints /\ now \in Prints /\ hit \in Prints
    /\ evidence = {} /\ asked = {} /\ excused = FALSE

PrinterGoesOn ==
    /\ now' \in Prints
    /\ UNCHANGED <<print, evidence, asked, hit, excused>>

Begin(p) ==
    /\ print' = p /\ evidence' = {}
    /\ excused' \in BOOLEAN
    /\ UNCHANGED <<asked, now, hit>>

Count ==
    /\ evidence' = evidence \cup {print}
    /\ UNCHANGED <<print, asked, now, hit, excused>>

Ask ==
    /\ print \in evidence
    /\ asked' = asked \cup {print}
    /\ UNCHANGED <<print, evidence, now, hit, excused>>

Answered(p) ==
    /\ p \in asked
    /\ asked' = asked \ {p}
    /\ hit' \in {hit, now}
    /\ UNCHANGED <<print, evidence, now, excused>>

Mishap ==
    /\ excused' = TRUE
    /\ evidence' \in {evidence, {}}
    /\ UNCHANGED <<print, asked, now, hit>>

WhileExcused ==
    /\ excused /\ excused' = TRUE
    /\ evidence' \in SUBSET Prints /\ asked' \in SUBSET Prints /\ hit' \in Prints
    /\ UNCHANGED <<print, now>>

Next ==
    \/ PrinterGoesOn \/ Count \/ Ask \/ Mishap \/ WhileExcused
    \/ \E p \in Prints : Begin(p) \/ Answered(p)

Spec == Init /\ [][Next]_<<print, evidence, asked, now, hit, excused>>
=============================================================================
