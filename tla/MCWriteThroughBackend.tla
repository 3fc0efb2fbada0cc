------------------------ MODULE MCWriteThroughBackend ------------------------
(***************************************************************************)
(* Instance of WriteThroughBackend for TLC.  The clock starts at 0, with a *)
(* deadline or retry one tick ahead, or saturated, with all of them due.   *)
(***************************************************************************)
EXTENDS WriteThroughBackend

MCBackoffDelay == [k \in 0 .. MaximumRetries |-> 1]
=============================================================================
