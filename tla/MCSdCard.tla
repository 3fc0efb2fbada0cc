------------------------------- MODULE MCSdCard -------------------------------
(***************************************************************************)
(* Instances of SdCard for TLC.  A data block takes 3 units of the queue   *)
(* and a response one: as in the code, a response, a block and another     *)
(* response fit and two blocks do not.                                     *)
(***************************************************************************)
EXTENDS SdCard

AnyResult == {"Complete", "Pending", "Failed"}
NeverFails == {"Complete", "Pending"}
=============================================================================
