-------------------------- MODULE OperationContract --------------------------
(***************************************************************************)
(* What the coordinator promises its caller, with no clock, no request ids *)
(* and no session: an accepted operation is sent at most 1+MaximumRetries  *)
(* times in a row, and ends completed, parked, abandoned or cancelled.     *)
(* After abandoning it the coordinator takes nothing until it is cleared.  *)
(***************************************************************************)
EXTENDS Naturals

CONSTANTS Operations, NoOperation, MaximumRetries

VARIABLES
    phase,     \* "Resting", "Sent", "Backoff", "Parked" or "Failed"
    kept,      \* the operation the coordinator holds
    attempts   \* times it was sent since it was accepted or resumed

vars == <<phase, kept, attempts>>

Init == phase = "Resting" /\ kept = NoOperation /\ attempts = 0

Send(op) == phase' = "Sent" /\ kept' = op /\ attempts' = attempts + 1
Drop(to) == phase' = to /\ kept' = NoOperation /\ attempts' = 0

\* A send that the session refuses abandons the operation.
Submit(op) == phase = "Resting" /\ (Send(op) \/ Drop("Failed"))
Resend == phase \in {"Backoff", "Parked"} /\ (Send(kept) \/ Drop("Failed"))
Complete == phase = "Sent" /\ Drop("Resting")
Abandon == phase = "Sent" /\ Drop("Failed")
BackOff ==
    /\ phase = "Sent" /\ attempts <= MaximumRetries
    /\ phase' = "Backoff"
    /\ UNCHANGED <<kept, attempts>>
Park ==
    /\ phase \in {"Sent", "Backoff", "Parked"}
    /\ phase' = "Parked" /\ attempts' = 0
    /\ UNCHANGED kept
Clear == Drop("Resting")

Next ==
    \/ \E op \in Operations : Submit(op)
    \/ Resend
    \/ Complete
    \/ Abandon
    \/ BackOff
    \/ Park
    \/ Clear

Spec == Init /\ [][Next]_vars
=============================================================================
