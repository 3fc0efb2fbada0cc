--------------------------- MODULE MCBackendService ---------------------------
(***************************************************************************)
(* Instances of BackendService for TLC.  With MaxTick = 0 the clock is     *)
(* saturated: any deadline or retry may be found due at any poll.          *)
(***************************************************************************)
EXTENDS BackendService

MCBackoffDelay == [k \in 0 .. MaximumRetries |-> 1]

\* One process serves for good.
OneHost == 1 .. 1
=============================================================================
