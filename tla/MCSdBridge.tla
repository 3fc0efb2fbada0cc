------------------------------ MODULE MCSdBridge ------------------------------
(***************************************************************************)
(* Instances of SdBridge for TLC, with the saturated clock of              *)
(* MCBackendService.                                                       *)
(***************************************************************************)
EXTENDS SdBridge

MCBackoffDelay == [k \in 0 .. MaximumRetries |-> 1]

OneHost == 1 .. 1
TwoHosts == 1 .. 2
=============================================================================
