----------------------- MODULE MCOperationCoordinator -----------------------
(***************************************************************************)
(* Instance of OperationCoordinator for TLC: the backoff schedule is the   *)
(* one RetryBackoff computes, and the clock starts at 0 or next to its     *)
(* largest value, where deadlines and retry times saturate.                *)
(***************************************************************************)
EXTENDS OperationCoordinator

CONSTANTS InitialBackoff, MaximumBackoff

MCBackoffDelay == [k \in 0 .. MaximumRetries |->
    Arithmetic!BoundedBackoff(InitialBackoff, MaximumBackoff, k)]

MCInit == Init /\ now \in {0, MaxTick - 1}
MCSpec == MCInit /\ [][Next]_vars
MCFairSpec == MCSpec /\ Fairness
=============================================================================
